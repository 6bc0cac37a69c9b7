------------------------------ MODULE Segments ------------------------------
(***************************************************************************)
(* FdLoader::map_phdrs of wl-ld-lilium/src/loader.rs: the segments of a    *)
(* module, put one after the other into the memory that alloc_base_addr    *)
(* reserved for it, readable, writable and zero.                           *)
(*                                                                         *)
(* A byte of memory is 0, or o + 1 for what the file has at offset o.  The *)
(* resolver that calls map_phdrs hands it the PT_LOAD headers of the file, *)
(* in the order of their addresses and apart; an address and its offset    *)
(* are at the same place of their pages, as ELF has it.                    *)
(***************************************************************************)
EXTENDS Integers, Sequences, FiniteSetsExt

CONSTANTS Page,      \* 4096
          MemTop,       \* the memory is 0 .. MemTop - 1; the module's begins at Page
          Headers    \* the sequences of headers of a file

VARIABLES phdr,      \* the headers
          seg,       \* the one that comes next
          mem,       \* by address, the byte
          pprot,     \* by page, what it may be used for
          last_addr, last_perms,
          loading    \* "loading", "Ok", "LoadError", "ReadError" or "todo!"

segVars == <<phdr, seg, mem, pprot, last_addr, last_perms, loading>>

PageOf(a) == a \div Page
PagesFrom(a, n) == {PageOf(b) : b \in a .. a + n - 1}
RoundUp(a) == PageOf(a + Page - 1) * Page

SegInit == /\ phdr \in Headers
           /\ seg = 1
           /\ mem = [a \in 0 .. MemTop - 1 |-> 0]
           /\ pprot = [g \in 0 .. PageOf(MemTop - 1) |-> {"R", "W"}]
           /\ last_addr = 0 /\ last_perms = {}
           /\ loading = "loading"

perms(p) == {"R"} \cup (IF "W" \in p.flags THEN {"W"} ELSE p.flags \cap {"X"})
Shares(p) == PageOf(p.addr) <= PageOf(last_addr)

\* The segment begins on the page that the one before it ends on: what the
\* file has for that page is read into it.
SharedMem(p) == LET size == Min({RoundUp(p.addr) - p.addr, p.filesz})
                IN [a \in DOMAIN mem |-> IF a \in p.addr .. p.addr + size - 1
                                         THEN p.offset + (a - p.addr) + 1 ELSE mem[a]]
SharedProt(p) == [pprot EXCEPT ![PageOf(last_addr)] = perms(p) \cup last_perms]

\* What is left of the segment behind that page.
Minus(n) == IF n > Page THEN n - Page ELSE 0
Behind(p) == [p EXCEPT !.addr = RoundUp(p.addr), !.memsz = Minus(@), !.filesz = Minus(@),
                       !.offset = RoundUp(p.offset)]

\* Faulty: the file's bytes are left in the bss.
FileMem_unzeroed(p, old) ==
    LET first == PageOf(p.addr) * Page
        shift == (p.offset \div Page) * Page - first
    IN [a \in DOMAIN old |->
          IF PageOf(a) \in PagesFrom(first, (p.offset % Page) + p.filesz)
          THEN IF a < p.addr THEN 0 ELSE a + shift + 1
          ELSE old[a]]
\* The file's pages, the head of the first and all of the bss zeroed.
FileMem(p, old) ==
    LET first == PageOf(p.addr) * Page
        shift == (p.offset \div Page) * Page - first
    IN [a \in DOMAIN old |->
          IF a \in first .. p.addr - 1 \/ a \in p.addr + p.filesz .. p.addr + p.memsz - 1 THEN 0
          ELSE IF PageOf(a) \in PagesFrom(first, (p.offset % Page) + p.filesz) THEN a + shift + 1
          ELSE old[a]]
FileProt(p, old) == [g \in DOMAIN old |->
                       IF g \in PagesFrom(PageOf(p.addr) * Page, (p.offset % Page) + p.memsz)
                       THEN perms(p) ELSE old[g]]

-----------------------------------------------------------------------------
Loads == loading = "loading" /\ seg <= Len(phdr)

\* One round of the loop.
Segment ==
    /\ Loads
    /\ LET p == phdr[seg]
           rest == IF Shares(p) THEN Behind(p) ELSE p
           m == IF Shares(p) THEN SharedMem(p) ELSE mem
           g == IF Shares(p) THEN SharedProt(p) ELSE pprot
       IN \/ /\ rest.filesz = 0
             /\ mem' = m /\ pprot' = g
             /\ UNCHANGED <<last_addr, last_perms, loading>>
          \/ /\ rest.filesz > 0 /\ rest.addr % Page # p.offset % Page
             /\ mem' = m /\ pprot' = g
             /\ loading' = "todo!"
             /\ UNCHANGED <<last_addr, last_perms>>
          \/ /\ rest.filesz > 0 /\ rest.addr % Page = p.offset % Page
             /\ mem' = FileMem(rest, m) /\ pprot' = FileProt(rest, g)
             /\ last_addr' = rest.addr + rest.memsz - 1
             /\ last_perms' = perms(p)
             /\ UNCHANGED loading
    /\ seg' = seg + 1
    /\ UNCHANGED phdr

\* mprotect or mmap fails, or read_offset does: the resolver ends the process.
SegmentFails == /\ Loads
                /\ loading' \in {"LoadError"} \cup (IF Shares(phdr[seg]) THEN {"ReadError"} ELSE {})
                /\ UNCHANGED <<phdr, seg, mem, pprot, last_addr, last_perms>>

SegmentsEnd == /\ loading = "loading" /\ seg > Len(phdr)
               /\ loading' = "Ok"
               /\ UNCHANGED <<phdr, seg, mem, pprot, last_addr, last_perms>>

SegNext == Segment \/ SegmentFails \/ SegmentsEnd
SegSpec == SegInit /\ [][SegNext]_segVars
-----------------------------------------------------------------------------
Body(p) == p.addr .. p.addr + p.memsz - 1
OnPage(g) == {k \in DOMAIN phdr : g \in PagesFrom(phdr[k].addr, phdr[k].memsz)}

\* The segment begins on a page that others end on, and is not just some bytes
\* of the file that fit into that page.
Spills(k) == LET p == phdr[k]
             IN /\ \E j \in 1 .. k - 1 : phdr[j].filesz > 0 /\ j \in OnPage(PageOf(p.addr))
                /\ p.memsz > p.filesz \/ PageOf(p.addr + p.memsz - 1) # PageOf(p.addr)

\* Once a module is loaded every segment has the file's bytes and zeros behind
\* them, and its pages allow what the segment asks for, whatever segments come
\* before and after it on its first and its last page (loader.rs:86-156).  Not
\* so for a segment that spills over a page it shares: of it map_phdrs loads
\* that page only, and it stops at todo!() for no other; and the pages that a
\* bss without a file part or three segments are on have the last one's rights.
SegmentsLoaded ==
    /\ loading = "Ok" =>
         \A k \in DOMAIN phdr : ~Spills(k) =>
           LET p == phdr[k]
           IN /\ \A a \in Body(p) :
                   mem[a] = IF a < p.addr + p.filesz THEN p.offset + (a - p.addr) + 1 ELSE 0
              /\ \A g \in PagesFrom(p.addr, p.memsz) :
                   p.filesz > 0 /\ Cardinality(OnPage(g)) <= 2 => perms(p) \subseteq pprot[g]
    /\ loading = "todo!" => \E k \in DOMAIN phdr : Spills(k) /\ phdr[k].filesz > Page
=============================================================================
