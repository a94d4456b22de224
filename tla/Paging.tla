------------------------------- MODULE Paging -------------------------------
(***************************************************************************)
(* Frames, page tables and page directories of src/paging.c.               *)
(*                                                                         *)
(* A directory maps a table number to a table (or None) and a table maps a *)
(* page number to an entry; an address is the pair of the two numbers.     *)
(* Directories and tables are named in the order in which they are made:   *)
(* kmalloc_ap gives each memory of its own.  frames is the bitmap, as the  *)
(* set of frames whose bit is set; content is one value for each frame of  *)
(* physical memory.                                                        *)
(*                                                                         *)
(* Table number Low covers the addresses below 0x400000, the heap starts   *)
(* at table number KernelHeap, and Stack is the number of a table that     *)
(* initialise_paging does not make.  initialise_paging and clone_directory *)
(* go page by page; interrupts are off in both, or no second task exists.  *)
(*                                                                         *)
(* Frees says whether anyone calls kfree.  Then the heap contracts, and a  *)
(* table or directory can have been placed before older ones: clone_table  *)
(* clears 8196 bytes of its 4096, the first word of what lies two pages    *)
(* further on included.  What else of the heap that memset clears, which   *)
(* holds headers and blocks of others, is not modelled.                    *)
(*                                                                         *)
(* Bounds: MaxTables tables, MaxDirs directories.                          *)
(***************************************************************************)
EXTENDS Naturals

CONSTANTS NFrames, NPages, HeapPages, Stack, MaxTables, MaxDirs, Value, Blank,
          Zeroed,                   \* as many bits of the bitmap are cleared
          Frees

Frame == 0..(NFrames - 1)
Page == 0..(NPages - 1)
Low == 0
KernelHeap == 1
TableIdx == 0..Stack
Dir == 1..MaxDirs
Table == 1..MaxTables
None == 0
kernel_directory == 1

ASSUME SizesAssumption ==
  /\ NFrames \in Nat /\ NPages \in Nat \ {0} /\ HeapPages \in 1..NPages
  /\ Stack \in Nat /\ Stack > KernelHeap
  /\ MaxTables \in Nat /\ MaxTables >= 2 /\ MaxDirs \in Nat /\ MaxDirs >= 2
  /\ Zeroed \in Nat
ASSUME ValuesAssumption == Blank \in Value /\ Frees \in BOOLEAN

VARIABLES frames, tables, page, content, current_directory,
          ndirs, ntables,           \* how many were made
          heap_pages,               \* end_address of the heap, in pages
          pc, i,                    \* loop of initialise_paging, clone_table
          src, dir, number, table,  \* arguments and locals of clone_directory
          hit,         \* history: tables whose first entry was overrun
          forgotten    \* directories whose pointer to table Low was overrun

overrun == <<hit, forgotten>>
cloning == <<src, dir, number, table>>
vars == <<frames, tables, page, content, current_directory, ndirs, ntables,
          heap_pages, pc, i, cloning, overrun>>

Unmapped == [frame |-> 0, present |-> FALSE]
Mapped(f) == [frame |-> f, present |-> TRUE]

\* The bitmap has a bit for each frame, and memset clears a fourth of it.
Init ==
  /\ frames \in SUBSET {f \in Frame : f >= Zeroed}
  /\ content = [f \in Frame |-> Blank]
  /\ tables = [d \in Dir |-> [n \in TableIdx |-> None]]
  /\ page = [t \in Table |-> [p \in Page |-> Unmapped]]
  /\ current_directory = None /\ ndirs = 1 /\ ntables = 0 /\ heap_pages = 0
  /\ pc = "heap_tables" /\ i = 0
  /\ src = None /\ dir = None /\ number = 0 /\ table = None
  /\ hit = {} /\ forgotten = {}

-----------------------------------------------------------------------------
(* get_page, first_frame, alloc_frame, free_frame *)

Unused == Frame \ frames

\* first_frame gives 0 when no frame is free, and alloc_frame takes it.
FirstFrame ==
  IF Unused = {} THEN 0 ELSE CHOOSE f \in Unused : \A g \in Unused : f <= g

\* Mutant: set_frame is given a frame number, as clear_frame is.
AllocFrameUnset(t, p) ==
  IF page[t][p].frame # 0
  THEN UNCHANGED <<frames, page>>
  ELSE /\ frames' = frames \cup {0}
       /\ page' = [page EXCEPT ![t][p] = Mapped(FirstFrame)]

\* alloc_frame of page p of table t: frame 0 counts as no frame.
AllocFrame(t, p) ==
  IF page[t][p].frame # 0
  THEN UNCHANGED <<frames, page>>
  ELSE /\ frames' = frames \cup {FirstFrame}
       /\ page' = [page EXCEPT ![t][p] = Mapped(FirstFrame)]

\* alloc_frame(get_page(address, 1, d)): makes the table if there is none.
AllocPage(d, n, p) ==
  IF tables[d][n] # None
  THEN AllocFrame(tables[d][n], p) /\ UNCHANGED <<tables, ntables>>
  ELSE /\ ntables < MaxTables
       /\ ntables' = ntables + 1
       /\ tables' = [tables EXCEPT ![d][n] = ntables']
       /\ AllocFrame(ntables', p)

\* clear_frame is given a frame number and divides it by the page size once
\* more: whatever the frame, the bit it clears is that of frame 0.
ClearedFrame(f) == 0

\* free_frame: the entry stays present.
FreeFrame(t, p) ==
  IF page[t][p].frame = 0
  THEN UNCHANGED <<frames, page>>
  ELSE /\ frames' = frames \ {ClearedFrame(page[t][p].frame)}
       /\ page' = [page EXCEPT ![t][p].frame = 0]

-----------------------------------------------------------------------------
(* initialise_paging *)

MakeHeapTables ==
  /\ pc = "heap_tables"
  /\ ntables' = ntables + 1
  /\ tables' = [tables EXCEPT ![kernel_directory][KernelHeap] = ntables']
  /\ pc' = "identity"
  /\ UNCHANGED <<frames, page, content, current_directory, ndirs, heap_pages, i,
                 cloning, overrun>>

MapIdentity ==
  /\ pc = "identity" /\ i < NPages
  /\ AllocPage(kernel_directory, Low, i)
  /\ i' = i + 1
  /\ UNCHANGED <<content, current_directory, ndirs, heap_pages, pc, cloning,
                 overrun>>

\* Mutant: the frames of the heap are not taken last.
MapHeapEarly ==
  /\ pc = "identity" /\ heap_pages < HeapPages
  /\ AllocPage(kernel_directory, KernelHeap, heap_pages)
  /\ heap_pages' = heap_pages + 1
  /\ UNCHANGED <<content, current_directory, ndirs, pc, i, cloning, overrun>>

MapHeap ==
  /\ pc = "identity" /\ i = NPages /\ heap_pages < HeapPages
  /\ AllocPage(kernel_directory, KernelHeap, heap_pages)
  /\ heap_pages' = heap_pages + 1
  /\ UNCHANGED <<content, current_directory, ndirs, pc, i, cloning, overrun>>

\* switch_page_directory(kernel_directory), create_heap, and the call of
\* clone_directory; fork calls it with the directory of the running task.
StartClone(from) ==
  /\ ndirs < MaxDirs
  /\ ndirs' = ndirs + 1
  /\ src' = from /\ dir' = ndirs' /\ number' = 0 /\ table' = None
  /\ pc' = "clone"

EnablePaging ==
  /\ pc = "identity" /\ i = NPages /\ heap_pages = HeapPages
  /\ current_directory' = kernel_directory
  /\ StartClone(kernel_directory) /\ i' = 0
  /\ UNCHANGED <<frames, tables, page, content, ntables, heap_pages, overrun>>

-----------------------------------------------------------------------------
(* clone_directory and clone_table *)

\* What the processor walks is not the pointer that get_page and clone_directory
\* follow: dir->tables and dir->tablesPhysical are two arrays.
Pointer(d, n) == IF n = Low /\ d \in forgotten THEN None ELSE tables[d][n]

SharesAll == TRUE                           \* mutants: no table is copied,
SharesNone == FALSE                         \* or all are
\* The table of the kernel is shared; a number without a table is skipped.
Shares == tables[kernel_directory][number] = Pointer(src, number)

CloneShare ==
  /\ pc = "clone" /\ number \in TableIdx
  /\ Pointer(src, number) = None \/ Shares
  /\ tables' = [tables EXCEPT ![dir][number] = Pointer(src, number)]
  /\ number' = number + 1
  /\ UNCHANGED <<frames, page, content, current_directory, ndirs, ntables,
                 heap_pages, pc, i, src, dir, table, overrun>>

\* What lies two pages behind the new table: nothing of this module where it
\* was placed at the end of what the heap has given out; else perhaps another
\* table, or a directory.  Tables 1 and 2 and the kernel's directory were placed
\* before there was a heap.
ClearsNothing == UNCHANGED <<page, overrun>>

ClearsEntry ==
  \E t \in 3..ntables :
    /\ Frees
    /\ page' = [page EXCEPT ![t][0] = Unmapped]
    /\ hit' = hit \cup {t} /\ UNCHANGED forgotten

ClearsPointer ==
  \E d \in 2..ndirs :
    /\ Frees
    /\ forgotten' = forgotten \cup {d} /\ UNCHANGED <<page, hit>>

CloneTable ==
  /\ pc = "clone" /\ number \in TableIdx
  /\ Pointer(src, number) # None /\ ~Shares
  /\ ntables < MaxTables
  /\ ntables' = ntables + 1 /\ table' = ntables'
  /\ ClearsNothing \/ ClearsEntry \/ ClearsPointer
  /\ i' = 0 /\ pc' = "clone_table"
  /\ UNCHANGED <<frames, tables, content, current_directory, ndirs, heap_pages,
                 src, dir, number>>

\* Mutant: copy_page_physical is left out.
ClonePageBlank ==
  /\ pc = "clone_table" /\ i < NPages
  /\ IF page[tables[src][number]][i].frame = 0
     THEN UNCHANGED <<frames, page>>
     ELSE AllocFrame(table, i)
  /\ i' = i + 1
  /\ UNCHANGED <<tables, content, current_directory, ndirs, ntables, heap_pages,
                 pc, cloning, overrun>>

ClonePage ==
  /\ pc = "clone_table" /\ i < NPages
  /\ LET from == page[tables[src][number]][i].frame IN
     IF from = 0
     THEN UNCHANGED <<frames, page, content>>
     ELSE /\ AllocFrame(table, i)
          /\ content' = [content EXCEPT ![page'[table][i].frame] =
                           content[from]]
  /\ i' = i + 1
  /\ UNCHANGED <<tables, current_directory, ndirs, ntables, heap_pages, pc,
                 cloning, overrun>>

CloneTableDone ==
  /\ pc = "clone_table" /\ i = NPages
  /\ tables' = [tables EXCEPT ![dir][number] = table]
  /\ number' = number + 1 /\ pc' = "clone" /\ i' = 0
  /\ UNCHANGED <<frames, page, content, current_directory, ndirs, ntables,
                 heap_pages, src, dir, table, overrun>>

\* initialise_paging goes on to switch to its clone; fork does not.
CloneDone ==
  /\ pc = "clone" /\ number \notin TableIdx
  /\ current_directory' = IF src = kernel_directory THEN dir
                          ELSE current_directory
  /\ pc' = "run"
  /\ src' = None /\ dir' = None /\ number' = 0 /\ table' = None
  /\ UNCHANGED <<frames, tables, page, content, ndirs, ntables, heap_pages, i,
                 overrun>>

-----------------------------------------------------------------------------
(* The running kernel *)

ForkClone ==
  /\ pc = "run"
  /\ StartClone(current_directory)
  /\ UNCHANGED <<frames, tables, page, content, current_directory, ntables,
                 heap_pages, i, overrun>>

\* switch_task loads the directory of another task.
Switch(d) ==
  /\ pc = "run" /\ d \in 2..ndirs
  /\ current_directory' = d
  /\ UNCHANGED <<frames, tables, page, content, ndirs, ntables, heap_pages, pc,
                 i, cloning, overrun>>

\* move_stack maps the pages of a new stack in the current directory.
MapStack(p) ==
  /\ pc = "run"
  /\ AllocPage(current_directory, Stack, p)
  /\ UNCHANGED <<content, current_directory, ndirs, heap_pages, pc, i, cloning,
                 overrun>>

HeapTable(k) == KernelHeap + (k \div NPages)

\* One page of expand, in the kernel's directory.
GrowHeap ==
  /\ pc = "run" /\ HeapTable(heap_pages) < Stack
  /\ AllocPage(kernel_directory, HeapTable(heap_pages), heap_pages % NPages)
  /\ heap_pages' = heap_pages + 1
  /\ UNCHANGED <<content, current_directory, ndirs, pc, i, cloning, overrun>>

\* One page of contract.
ShrinkHeap ==
  /\ pc = "run" /\ Frees /\ heap_pages > 1
  /\ LET k == heap_pages - 1 IN
     /\ FreeFrame(tables[kernel_directory][HeapTable(k)], k % NPages)
     /\ heap_pages' = k
  /\ UNCHANGED <<tables, content, current_directory, ndirs, ntables, pc, i,
                 cloning, overrun>>

\* The processor stores through the current directory.
Write(n, p, v) ==
  /\ pc = "run" /\ tables[current_directory][n] # None
  /\ LET entry == page[tables[current_directory][n]][p] IN
     /\ entry.present
     /\ content' = [content EXCEPT ![entry.frame] = v]
  /\ UNCHANGED <<frames, tables, page, current_directory, ndirs, ntables,
                 heap_pages, pc, i, cloning, overrun>>

-----------------------------------------------------------------------------
Next ==
  \/ MakeHeapTables \/ MapIdentity \/ MapHeap \/ EnablePaging
  \/ CloneShare \/ CloneTable \/ ClonePage \/ CloneTableDone \/ CloneDone
  \/ ForkClone \/ GrowHeap \/ ShrinkHeap
  \/ \E d \in Dir : Switch(d)
  \/ \E p \in Page : MapStack(p)
  \/ \E n \in TableIdx, p \in Page, v \in Value : Write(n, p, v)

Spec == Init /\ [][Next]_vars

-----------------------------------------------------------------------------
\* No frame but frame 0, which stands for none, is given to two pages, in one
\* table or in two, whatever was cloned, freed and allocated.
FramesExclusive ==
  \A t, u \in Table : \A p, q \in Page :
    page[t][p].frame # 0 /\ page[t][p].frame = page[u][q].frame =>
      t = u /\ p = q

\* Below 0x400000 physical and virtual addresses are the same, in every
\* directory that is complete, from the moment paging is enabled: page tables,
\* the bitmap and copy_page_physical rely on it (paging.c:122).  Only after a
\* pointer was overrun can there be a clone that has nothing there.
IdentityMapped ==
  current_directory # None =>
    \A d \in Dir : d < ndirs \/ (d = ndirs /\ pc = "run") =>
      IF tables[d][Low] = None THEN forgotten # {}
      ELSE \A p \in Page : page[tables[d][Low]][p] = Mapped(p)

Private(d, n) ==
  tables[d][n] # None /\ tables[d][n] # tables[kernel_directory][n]

Seen(d, n, p) == content[page[tables[d][n]][p].frame]

\* A fork copies the address space: every page that the parent has a frame for
\* the child has too, in a table of its own or a shared one, and finds there
\* what the parent has.  If frames ran out it shows frame 0, with whatever
\* was copied there last; a first page can be lost to an overrun.
CloneIsCopy ==
  pc = "clone" /\ number \notin TableIdx =>
    \A n \in TableIdx : Pointer(src, n) # None =>
      /\ tables[dir][n] # None
      /\ \A p \in Page : page[tables[src][n]][p].frame # 0 =>
           LET copy == page[tables[dir][n]][p] IN
           \/ copy.present /\ (copy.frame # 0 => Seen(dir, n, p) = Seen(src, n, p))
           \/ p = 0 /\ tables[dir][n] \in hit

\* What a task does while it runs changes nothing in the private pages of the
\* others: fork spawns "a new one with a different memory space" (task.h:31).
MemorySpacesApart ==
  [][pc = "run" =>
       \A d \in Dir \ {current_directory} : \A n \in TableIdx : Private(d, n) =>
         \A p \in Page : page[tables[d][n]][p].frame # 0 =>
           Seen(d, n, p)' = Seen(d, n, p)]_vars

\* The heap is one for all tasks: a page by which it grows or shrinks in one of
\* them is there or gone in every directory at once, as far as its first table
\* reaches, which the kernel had before it was cloned.  (The next tables are the
\* kernel's alone: paging.c:279 shares what is there when it looks.)
HeapSeenEverywhere ==
  pc = "run" =>
    \A d \in 2..ndirs : \A k \in 0..(heap_pages - 1) :
      HeapTable(k) = KernelHeap =>
        /\ tables[d][KernelHeap] # None
        /\ page[tables[d][KernelHeap]][k]
             = page[tables[kernel_directory][KernelHeap]][k]

=============================================================================
