-------------------------------- MODULE Heap --------------------------------
(***************************************************************************)
(* wl-impl/src/libc/libc_defs.rs: malloc, aligned_alloc and free, which    *)
(* keep a block's size and alignment in the two words in front of it and   *)
(* get their memory from the global allocator (external: alloc, dealloc).  *)
(* Addresses and sizes are in words of size_of::<usize>(), of which 0 is   *)
(* what the program stores in its blocks.  A call that returns null has no *)
(* effect, and free(NULL) has none.                                        *)
(***************************************************************************)
EXTENDS Naturals, FiniteSets

CONSTANTS HeapWords,           \* the addresses of the heap
          Sizes, Aligns,
          HeaderLen            \* 2

VARIABLES word,      \* the contents of the heap
          raw,       \* what alloc has given out: base, size and align
          blocks,    \* what malloc and aligned_alloc have given out
          aligned,   \* history: aligned_alloc has been called
          heap       \* "running", "panicked" or "corrupted": a bad dealloc

heapVars == <<word, raw, blocks, aligned, heap>>

HeapInit == /\ word = [a \in HeapWords |-> 0]
            /\ raw = {}
            /\ blocks = {}
            /\ aligned = FALSE
            /\ heap = "running"

WordsOf(a, s) == a .. (a + s - 1)
PowersOf2 == {1, 2, 4, 8, 16}
isolate_lowest_one(n) == CHOOSE d \in PowersOf2 : n % d = 0 /\ n % (2 * d) # 0

\* alloc(layout): anywhere, aligned.
Alloc(base, size, align) ==
    /\ heap = "running"
    /\ base % align = 0
    /\ WordsOf(base, size) \subseteq HeapWords
    /\ \A r \in raw : WordsOf(r.base, r.size) \cap WordsOf(base, size) = {}
    /\ raw' = raw \cup {[base |-> base, size |-> size, align |-> align]}

WriteHeader(at, size, align) ==
    word' = [a \in HeapWords |-> IF a = at THEN size ELSE IF a = at + 1 THEN align ELSE word[a]]
HandOut(ptr, size, align) ==
    blocks' = blocks \cup {[ptr |-> ptr, size |-> size, align |-> align]}

\* max_align_t has no size: the alignment is the lowest bit of the size.
malloc(size, base) == LET align == isolate_lowest_one(size)
                      IN /\ Alloc(base, size + HeaderLen, align)
                         /\ WriteHeader(base, size, align)
                         /\ HandOut(base + HeaderLen, size, align)
                         /\ UNCHANGED <<aligned, heap>>

\* The header goes in front of what alloc returned, not of new_base.
aligned_alloc(size, align, base) ==
    LET new_base == ((base + HeaderLen + align - 1) \div align) * align
    IN /\ Alloc(base, size + HeaderLen, align)
       /\ WriteHeader(base - HeaderLen, size, align)
       /\ HandOut(new_base, size, align)
       /\ aligned' = TRUE
       /\ UNCHANGED heap

\* Faulty: the header is taken for part of the block.
RealBase_of_block(b) == (b.ptr \div word[b.ptr - 1]) * word[b.ptr - 1]
\* base.map_addr(|v| v & !(align - 1))
RealBase(b) == ((b.ptr - HeaderLen) \div word[b.ptr - 1]) * word[b.ptr - 1]

free(b) ==
    LET size == word[b.ptr - HeaderLen]
        align == word[b.ptr - 1]
        block == [base |-> RealBase(b), size |-> size + HeaderLen, align |-> align]
    IN /\ heap = "running"
       /\ blocks' = blocks \ {b}
       /\ \/ align \notin PowersOf2 /\ heap' = "panicked" /\ UNCHANGED raw
          \/ /\ align \in PowersOf2
             /\ raw' = raw \ {block}
             /\ heap' = IF block \in raw THEN "running" ELSE "corrupted"
       /\ UNCHANGED <<word, aligned>>

\* The program writes to its block.
Store(b) == /\ heap = "running"
            /\ word' = [a \in HeapWords |-> IF a \in WordsOf(b.ptr, b.size) THEN 0 ELSE word[a]]
            /\ UNCHANGED <<raw, blocks, aligned, heap>>

HeapNext == \/ \E size \in Sizes, base \in HeapWords :
                  \/ malloc(size, base)
                  \/ \E align \in Aligns : aligned_alloc(size, align, base)
            \/ \E b \in blocks : free(b) \/ Store(b)

HeapSpec == HeapInit /\ [][HeapNext]_heapVars
-----------------------------------------------------------------------------
\* A program that uses malloc only: free finds "allocation size and alignment
\* before" the block (libc_defs.rs:327), whatever the program has stored in
\* this block and in others, and gives the global allocator back exactly what
\* it gave out, so that what is allocated is always what the blocks in use
\* need.  aligned_alloc ends this: it puts its header in front of the memory
\* it got (libc_defs.rs:307).
FreesWhatItTook ==
    ~aligned => /\ heap = "running"
                /\ raw = {[base |-> b.ptr - HeaderLen, size |-> b.size + HeaderLen,
                           align |-> b.align] : b \in blocks}
=============================================================================
