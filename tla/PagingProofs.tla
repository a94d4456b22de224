---------------------------- MODULE PagingProofs ----------------------------
(***************************************************************************)
(* Proofs about paging, for any number of frames, pages, tables and        *)
(* directories: no frame is given out twice, although free_frame forgets   *)
(* the wrong one; what initialise_paging maps to itself stays so; a clone  *)
(* is a copy; tasks keep out of each other's memory and share the heap.    *)
(***************************************************************************)
EXTENDS Paging, WellFoundedInduction, TLAPS

-----------------------------------------------------------------------------
(* Frames *)

Entry == [frame : Nat, present : BOOLEAN]

\* Every frame that an entry names has its bit set; frame 0 counts as none.
FrameInv ==
  /\ page \in [Table -> [Page -> Entry]]
  /\ \A t \in Table : \A p \in Page :
       page[t][p].frame # 0 => page[t][p].frame \in frames
  /\ FramesExclusive

LEMMA MappedFacts ==
  ASSUME NEW f \in Nat
  PROVE  Mapped(f) \in Entry /\ Mapped(f).frame = f
  BY DEF Mapped, Entry

LEMMA NatMin ==
  ASSUME NEW S \in SUBSET Nat, S # {}
  PROVE  \E x \in S : \A y \in S : x <= y
<1>1. PICK x \in S : \A y \in S : ~ (<<y, x>> \in OpToRel(<, Nat))
  BY NatLessThanWellFounded, WFMin
<1>2. ASSUME NEW y \in S PROVE x <= y
  <2>1. ~(y < x)
    BY <1>1 DEF OpToRel
  <2>2. QED
    BY <2>1
<1>3. QED
  BY <1>2

\* What first_frame returns is free, and the first that is, or else 0.
LEMMA FirstFrameFacts ==
  /\ FirstFrame \in Nat
  /\ Unused = {} => FirstFrame = 0
  /\ Unused # {} => FirstFrame \in Unused /\ \A g \in Unused : FirstFrame <= g
<1> DEFINE first(f) == \A g \in Unused : f <= g
<1>1. Unused \in SUBSET Nat
  BY DEF Unused, Frame
<1>2. CASE Unused = {}
  BY <1>2 DEF FirstFrame
<1>3. CASE Unused # {}
  <2>1. \E f \in Unused : first(f)
    BY <1>1, <1>3, NatMin
  <2>2. FirstFrame = CHOOSE f \in Unused : first(f)
    BY <1>3 DEF FirstFrame
  <2>3. FirstFrame \in Unused /\ first(FirstFrame)
    BY <2>1, <2>2
  <2>4. QED
    BY <1>1, <1>3, <2>3
<1>4. QED
  BY <1>2, <1>3

\* One entry changes, if any.
LEMMA OneEntry ==
  ASSUME page \in [Table -> [Page -> Entry]], NEW t, NEW p, NEW e \in Entry,
         page' = [page EXCEPT ![t][p] = e]
  PROVE  /\ page' \in [Table -> [Page -> Entry]]
         /\ \A u \in Table : \A q \in Page :
              page'[u][q] = IF u = t /\ q = p THEN e ELSE page[u][q]
<1>1. \A u \in Table :
        page'[u] = IF u = t THEN [page[t] EXCEPT ![p] = e] ELSE page[u]
  OBVIOUS
<1>2. \A u \in Table : \A q \in Page :
        page'[u][q] = IF u = t /\ q = p THEN e ELSE page[u][q]
  BY <1>1
<1>3. \A u \in Table : page'[u] \in [Page -> Entry]
  BY <1>1
<1>4. page' = [u \in Table |-> page'[u]]
  OBVIOUS
<1>5. QED
  BY <1>2, <1>3, <1>4

\* What alloc_frame does to an entry without a frame.
LEMMA AllocEntry ==
  ASSUME FrameInv, NEW t, NEW p, AllocFrame(t, p), page[t][p].frame = 0
  PROVE  /\ page' \in [Table -> [Page -> Entry]]
         /\ frames' = frames \cup {FirstFrame}
         /\ \A u \in Table : \A q \in Page :
              page'[u][q] = IF u = t /\ q = p THEN Mapped(FirstFrame)
                                              ELSE page[u][q]
<1>1. page' = [page EXCEPT ![t][p] = Mapped(FirstFrame)]
      /\ frames' = frames \cup {FirstFrame}
  BY DEF AllocFrame
<1>2. Mapped(FirstFrame) \in Entry /\ page \in [Table -> [Page -> Entry]]
  BY FirstFrameFacts, MappedFacts DEF FrameInv
<1>3. QED
  BY <1>1, <1>2, OneEntry

LEMMA AllocStep ==
  ASSUME FrameInv, NEW t, NEW p, AllocFrame(t, p)
  PROVE  FrameInv'
<1>1. CASE page[t][p].frame # 0
  <2>1. page' = page /\ frames' = frames
    BY <1>1 DEF AllocFrame
  <2>2. QED
    BY <2>1 DEF FrameInv, FramesExclusive
<1>2. CASE page[t][p].frame = 0
  <2> DEFINE f == FirstFrame
  <2>1. /\ page' \in [Table -> [Page -> Entry]]
        /\ frames' = frames \cup {f}
        /\ \A u \in Table : \A q \in Page :
             page'[u][q] = IF u = t /\ q = p THEN Mapped(f) ELSE page[u][q]
    BY <1>2, AllocEntry
  <2>2. f \in Nat /\ Mapped(f).frame = f /\ (f = 0 \/ f \notin frames)
    BY FirstFrameFacts, MappedFacts DEF Unused
  <2> HIDE DEF f
  <2>3. \A u \in Table : \A q \in Page :
          page'[u][q].frame = IF u = t /\ q = p THEN f ELSE page[u][q].frame
    <3>1. ASSUME NEW u \in Table, NEW q \in Page, u = t /\ q = p
          PROVE  page'[u][q].frame = f
      BY <2>1, <2>2, <3>1
    <3>2. ASSUME NEW u \in Table, NEW q \in Page, ~(u = t /\ q = p)
          PROVE  page'[u][q].frame = page[u][q].frame
      BY <2>1, <3>2
    <3>3. QED
      BY <3>1, <3>2
  <2>4. \A u \in Table : \A q \in Page :
          page'[u][q].frame # 0 => page'[u][q].frame \in frames'
    BY <2>1, <2>3 DEF FrameInv
  <2>5. FramesExclusive'
    BY <2>2, <2>3 DEF FrameInv, FramesExclusive
  <2>6. QED
    BY <2>1, <2>4, <2>5 DEF FrameInv
<1>3. QED
  BY <1>1, <1>2

\* No entry changes outside the tables.
LEMMA EntryOutside ==
  ASSUME page \in [Table -> [Page -> Entry]], NEW t, NEW p, NEW e,
         ~(t \in Table /\ p \in Page), page' = [page EXCEPT ![t][p] = e]
  PROVE  page' = page
<1>1. CASE t \notin Table
  BY <1>1
<1>2. CASE t \in Table /\ p \notin Page
  <2>1. page[t] \in [Page -> Entry]
    BY <1>2
  <2>2. [page[t] EXCEPT ![p] = e] = page[t]
    BY <1>2, <2>1
  <2>3. page' = [page EXCEPT ![t] = page[t]]
    BY <2>2
  <2>4. QED
    BY <2>3
<1>3. QED
  BY <1>1, <1>2

LEMMA FreeStep ==
  ASSUME FrameInv, NEW t, NEW p, FreeFrame(t, p)
  PROVE  /\ FrameInv'
         /\ \A u \in Table : u # t => \A q \in Page : page'[u][q] = page[u][q]
<1>1. CASE page[t][p].frame = 0
  <2>1. page' = page /\ frames' = frames
    BY <1>1 DEF FreeFrame
  <2>2. QED
    BY <2>1 DEF FrameInv, FramesExclusive
<1>2. CASE page[t][p].frame # 0 /\ t \in Table /\ p \in Page
  <2> DEFINE e == [page[t][p] EXCEPT !.frame = 0]
  <2>1. e \in Entry /\ e.frame = 0 /\ page \in [Table -> [Page -> Entry]]
    BY <1>2 DEF FrameInv, Entry
  <2>2. page' = [page EXCEPT ![t][p] = e] /\ frames' = frames \ {0}
    BY <1>2 DEF FreeFrame, ClearedFrame
  <2> HIDE DEF e
  <2>3. /\ page' \in [Table -> [Page -> Entry]]
        /\ \A u \in Table : \A q \in Page :
             page'[u][q] = IF u = t /\ q = p THEN e ELSE page[u][q]
    BY <2>1, <2>2, OneEntry
  <2>4. \A u \in Table : \A q \in Page :
          page'[u][q].frame = IF u = t /\ q = p THEN 0 ELSE page[u][q].frame
    BY <2>1, <2>3
  <2>5. \A u \in Table : \A q \in Page :
          page'[u][q].frame # 0 => page'[u][q].frame \in frames'
    BY <2>2, <2>4 DEF FrameInv
  <2>6. FramesExclusive'
    BY <2>4 DEF FrameInv, FramesExclusive
  <2>7. QED
    BY <2>3, <2>5, <2>6 DEF FrameInv
<1>3. CASE page[t][p].frame # 0 /\ ~(t \in Table /\ p \in Page)
  <2> DEFINE e == [page[t][p] EXCEPT !.frame = 0]
  <2>1. page' = [page EXCEPT ![t][p] = e]
    BY <1>3 DEF FreeFrame
  <2>2. frames' = frames \ {0}
    BY <1>3 DEF FreeFrame, ClearedFrame
  <2>3. page \in [Table -> [Page -> Entry]]
    BY DEF FrameInv
  <2> HIDE DEF e
  <2>4. page' = page
    BY <1>3, <2>1, <2>3, EntryOutside
  <2>5. FrameInv'
    BY <2>2, <2>4 DEF FrameInv, FramesExclusive
  <2>6. QED
    BY <2>4, <2>5
<1>4. QED
  BY <1>1, <1>2, <1>3

\* What lies behind a new table loses its first entry, at most.
Clears == ClearsNothing \/ ClearsEntry \/ ClearsPointer

LEMMA ClearFacts ==
  ASSUME page \in [Table -> [Page -> Entry]], Clears
  PROVE  /\ page' \in [Table -> [Page -> Entry]]
         /\ hit \subseteq hit' /\ forgotten \subseteq forgotten'
         /\ \A u \in Table : \A q \in Page :
              \/ page'[u][q] = page[u][q]
              \/ q = 0 /\ u \in hit' /\ u \in 3..ntables /\ page'[u][q] = Unmapped
<1>1. CASE ClearsNothing \/ ClearsPointer
  BY <1>1 DEF ClearsNothing, ClearsPointer, overrun
<1>2. CASE ClearsEntry
  <2>1. PICK t \in 3..ntables :
          /\ page' = [page EXCEPT ![t][0] = Unmapped]
          /\ hit' = hit \cup {t} /\ forgotten' = forgotten
    BY <1>2 DEF ClearsEntry
  <2>2. Unmapped \in Entry
    BY DEF Unmapped, Entry
  <2>3. /\ page' \in [Table -> [Page -> Entry]]
        /\ \A u \in Table : \A q \in Page :
             page'[u][q] = IF u = t /\ q = 0 THEN Unmapped ELSE page[u][q]
    BY <2>1, <2>2, OneEntry
  <2>4. QED
    BY <2>1, <2>3
<1>3. QED
  BY <1>1, <1>2 DEF Clears

LEMMA ClearStep ==
  ASSUME FrameInv, Clears, frames' = frames
  PROVE  FrameInv'
<1>1. /\ page' \in [Table -> [Page -> Entry]]
      /\ \A u \in Table : \A q \in Page :
           page'[u][q] = page[u][q] \/ page'[u][q] = Unmapped
  BY ClearFacts DEF FrameInv
<1>2. Unmapped.frame = 0
  BY DEF Unmapped
<1>3. \A u \in Table : \A q \in Page :
        page'[u][q].frame = page[u][q].frame \/ page'[u][q].frame = 0
  BY <1>1, <1>2
<1>4. FramesExclusive'
  BY <1>3 DEF FrameInv, FramesExclusive
<1>5. \A u \in Table : \A q \in Page :
        page'[u][q].frame # 0 => page'[u][q].frame \in frames'
  BY <1>3 DEF FrameInv
<1>6. QED
  BY <1>1, <1>4, <1>5 DEF FrameInv

\* Entries change in alloc_frame and free_frame, and behind a new table.
LEMMA EntrySteps ==
  ASSUME [Next]_vars
  PROVE  \/ UNCHANGED <<frames, page>>
         \/ frames' = frames /\ Clears
         \/ \E t, p : AllocFrame(t, p) \/ FreeFrame(t, p)
<1>1. ASSUME NEW d, NEW n, NEW p, AllocPage(d, n, p)
      PROVE  \E t, q : AllocFrame(t, q)
  BY <1>1 DEF AllocPage
<1>2. CASE MapIdentity \/ MapHeap \/ GrowHeap \/ \E p \in Page : MapStack(p)
  <2>1. \E d, n, p : AllocPage(d, n, p)
    BY <1>2 DEF MapIdentity, MapHeap, GrowHeap, MapStack
  <2>2. QED
    BY <1>1, <2>1
<1>3. CASE ClonePage
  BY <1>3 DEF ClonePage
<1>4. CASE ShrinkHeap
  BY <1>4 DEF ShrinkHeap
<1>5. CASE \/ MakeHeapTables \/ EnablePaging \/ CloneShare
           \/ CloneTableDone \/ CloneDone \/ ForkClone
           \/ \E d \in Dir : Switch(d)
           \/ \E n \in TableIdx, p \in Page, v \in Value : Write(n, p, v)
  BY <1>5 DEF MakeHeapTables, EnablePaging, CloneShare,
     CloneTableDone, CloneDone, ForkClone, Switch, Write
<1>6. CASE CloneTable
  BY <1>6 DEF CloneTable, Clears
<1>7. CASE UNCHANGED vars
  BY <1>7 DEF vars
<1>8. QED
  BY <1>2, <1>3, <1>4, <1>5, <1>6, <1>7 DEF Next

LEMMA NextFrames == FrameInv /\ [Next]_vars => FrameInv'
<1> SUFFICES ASSUME FrameInv, [Next]_vars PROVE FrameInv'
  OBVIOUS
<1>1. CASE UNCHANGED <<frames, page>>
  BY <1>1 DEF FrameInv, FramesExclusive
<1>2. QED
  BY <1>1, EntrySteps, AllocStep, FreeStep, ClearStep

LEMMA InitFrames == Init => FrameInv
<1> SUFFICES ASSUME Init PROVE FrameInv
  OBVIOUS
<1>1. page = [t \in Table |-> [p \in Page |-> Unmapped]]
  BY DEF Init
<1>2. Unmapped \in Entry /\ Unmapped.frame = 0
  BY DEF Unmapped, Entry
<1>3. \A t \in Table : \A p \in Page : page[t][p] = Unmapped
  BY <1>1
<1>4. page \in [Table -> [Page -> Entry]]
  BY <1>1, <1>2
<1>5. QED
  BY <1>2, <1>3, <1>4 DEF FrameInv, FramesExclusive

\* Whatever is cloned, freed and allocated, and though frames run out and freed
\* ones are lost, no two pages ever share a frame other than 0.
THEOREM FramesTheorem == Spec => []FramesExclusive
<1>1. FrameInv => FramesExclusive
  BY DEF FrameInv
<1>2. QED
  BY <1>1, InitFrames, NextFrames, PTL DEF Spec

-----------------------------------------------------------------------------
(* What initialise_paging maps to itself *)

\* The table of the addresses below 0x400000 is the second that is made, and
\* there are frames for all of them, whose bits were cleared.
LowTable == 2
Fits == NPages <= NFrames /\ NPages <= Zeroed

\* Only table number Low is the low table: no other page is ever mapped,
\* copied or freed in it.
TablesInv ==
  /\ tables \in [Dir -> [TableIdx -> Nat]]
  /\ \A d \in Dir : \A n \in TableIdx \ {Low} : tables[d][n] # LowTable
  /\ ntables \in Nat /\ ndirs \in Dir /\ i \in Nat

\* The heap lies above it.
HeapInv ==
  /\ heap_pages \in Nat
  /\ \A k \in 0..(heap_pages - 1) : HeapTable(k) \in TableIdx \ {Low}

\* Of the frames for the low table the first i are in use, and those only.
FirstTaken ==
  \A f \in 0..(NPages - 1) : f \in frames <=> f < i

\* The loop of initialise_paging: its frames are the first ones.
MappingInv ==
  /\ pc = "heap_tables" => ntables = 0 /\ i = 0 /\ tables[1][Low] = None
  /\ pc = "identity" =>
       /\ i <= NPages
       /\ ntables >= (IF i = 0 THEN 1 ELSE 2)
       /\ i = 0 => ntables = 1
       /\ tables[1][Low] = IF i = 0 THEN None ELSE LowTable
  /\ pc \in {"heap_tables", "identity"} =>
       /\ ndirs = 1 /\ current_directory = None
       /\ i < NPages => heap_pages = 0 /\ FirstTaken
       /\ \A p \in Page :
            page[LowTable][p] = IF p < i THEN Mapped(p) ELSE Unmapped

\* A clone of a directory whose pointer was overrun has nothing there.
LowMapped(d) ==
  tables[d][Low] = LowTable \/ (tables[d][Low] = None /\ forgotten # {})

\* From then on: the directories that are complete have the low table.
RunningInv ==
  pc \notin {"heap_tables", "identity"} =>
    /\ ntables >= 2 /\ tables[1][Low] = LowTable
    /\ \A p \in Page : page[LowTable][p] = Mapped(p)
    /\ \A d \in 1..(ndirs - 1) : LowMapped(d)
    /\ current_directory \in 1..ndirs
    /\ pc \in {"clone", "clone_table"} =>
         /\ src \in 1..(ndirs - 1) /\ dir = ndirs
         /\ current_directory < ndirs
         /\ number \in Nat
         /\ number # Low => LowMapped(ndirs)
    /\ pc = "clone_table" => number \in TableIdx \ {Low} /\ table \in Nat /\ table # LowTable
    /\ pc = "run" => LowMapped(ndirs)

IdentityInv == FrameInv /\ TablesInv /\ HeapInv /\ MappingInv /\ RunningInv

LEMMA Indices ==
  /\ 1 \in Dir /\ Dir \subseteq Nat /\ Low \in TableIdx
  /\ KernelHeap \in TableIdx \ {Low} /\ Stack \in TableIdx \ {Low}
  /\ LowTable = 2 /\ LowTable \in Table
  BY SizesAssumption DEF Dir, Low, KernelHeap, TableIdx, LowTable, Table

\* One table of a directory changes.
LEMMA OneTable ==
  ASSUME tables \in [Dir -> [TableIdx -> Nat]],
         NEW d \in Dir, NEW n \in TableIdx, NEW e \in Nat,
         tables' = [tables EXCEPT ![d][n] = e]
  PROVE  /\ tables' \in [Dir -> [TableIdx -> Nat]]
         /\ \A u \in Dir : \A m \in TableIdx :
              tables'[u][m] = IF u = d /\ m = n THEN e ELSE tables[u][m]
<1>1. \A u \in Dir :
        tables'[u] = IF u = d THEN [tables[d] EXCEPT ![n] = e] ELSE tables[u]
  OBVIOUS
<1>2. \A u \in Dir : \A m \in TableIdx :
        tables'[u][m] = IF u = d /\ m = n THEN e ELSE tables[u][m]
  BY <1>1
<1>3. \A u \in Dir : tables'[u] \in [TableIdx -> Nat]
  BY <1>1
<1>4. tables' = [u \in Dir |-> tables'[u]]
  OBVIOUS
<1>5. QED
  BY <1>2, <1>3, <1>4

\* An operation on an entry of another table leaves the low table alone.
LEMMA LowKept ==
  ASSUME FrameInv, NEW t, NEW p, t # LowTable, AllocFrame(t, p) \/ FreeFrame(t, p)
  PROVE  \A q \in Page : page'[LowTable][q] = page[LowTable][q]
<1>1. page \in [Table -> [Page -> Entry]] /\ LowTable \in Table
  BY Indices DEF FrameInv
<1>2. CASE UNCHANGED page
  BY <1>2
<1>3. CASE \E e : page' = [page EXCEPT ![t][p] = e]
  <2>1. PICK e : page' = [page EXCEPT ![t][p] = e]
    BY <1>3
  <2>2. page'[LowTable] = page[LowTable]
    BY <1>1, <2>1
  <2>3. QED
    BY <2>2
<1>4. AllocFrame(t, p) => (UNCHANGED page \/ \E e : page' = [page EXCEPT ![t][p] = e])
  BY DEF AllocFrame
<1>5. FreeFrame(t, p) => (UNCHANGED page \/ \E e : page' = [page EXCEPT ![t][p] = e])
  BY DEF FreeFrame
<1>6. QED
  BY <1>2, <1>3, <1>4, <1>5

\* A page is mapped above 0x400000: the low table stays where and as it is.
LEMMA HighPage ==
  ASSUME FrameInv, TablesInv, ntables >= 2,
         NEW d \in Dir, NEW n \in TableIdx \ {Low}, NEW p, AllocPage(d, n, p)
  PROVE  /\ \A q \in Page : page'[LowTable][q] = page[LowTable][q]
         /\ tables' \in [Dir -> [TableIdx -> Nat]]
         /\ \A u \in Dir : \A m \in TableIdx \ {Low} : tables'[u][m] # LowTable
         /\ \A u \in Dir : tables'[u][Low] = tables[u][Low]
         /\ ntables' \in Nat /\ ntables' >= 2
<1>1. CASE tables[d][n] # None
  <2>1. AllocFrame(tables[d][n], p) /\ UNCHANGED <<tables, ntables>>
    BY <1>1 DEF AllocPage
  <2>2. tables[d][n] # LowTable
    BY DEF TablesInv
  <2>3. \A q \in Page : page'[LowTable][q] = page[LowTable][q]
    BY <2>1, <2>2, LowKept
  <2>4. QED
    BY <2>1, <2>3 DEF TablesInv
<1>2. CASE tables[d][n] = None
  <2>1. /\ ntables' = ntables + 1 /\ AllocFrame(ntables', p)
        /\ tables' = [tables EXCEPT ![d][n] = ntables']
    BY <1>2 DEF AllocPage
  <2>2. ntables' \in Nat /\ ntables' > 2 /\ ntables' # LowTable
    BY <2>1, Indices DEF TablesInv
  <2>3. \A q \in Page : page'[LowTable][q] = page[LowTable][q]
    BY <2>1, <2>2, LowKept
  <2>4. tables \in [Dir -> [TableIdx -> Nat]]
    BY DEF TablesInv
  <2>5. /\ tables' \in [Dir -> [TableIdx -> Nat]]
        /\ \A u \in Dir : \A m \in TableIdx :
             tables'[u][m] = IF u = d /\ m = n THEN ntables' ELSE tables[u][m]
    <3>1. n \in TableIdx /\ ntables' \in Nat
      BY <2>2
    <3>2. tables' = [tables EXCEPT ![d][n] = ntables']
      BY <2>1
    <3>3. QED
      BY <2>4, <3>1, <3>2, OneTable
  <2>6. \A u \in Dir : \A m \in TableIdx \ {Low} : tables'[u][m] # LowTable
    BY <2>2, <2>5 DEF TablesInv
  <2>7. \A u \in Dir : tables'[u][Low] = tables[u][Low]
    <3>1. Low \in TableIdx /\ n # Low
      BY Indices
    <3>2. QED
      BY <2>5, <3>1
  <2>8. QED
    BY <2>2, <2>3, <2>5, <2>6, <2>7
<1>3. QED
  BY <1>1, <1>2

LEMMA MakeHeapTablesStep ==
  ASSUME IdentityInv, MakeHeapTables
  PROVE  TablesInv' /\ HeapInv' /\ MappingInv' /\ RunningInv'
<1>1. /\ pc = "heap_tables" /\ pc' = "identity" /\ ntables' = ntables + 1
      /\ tables' = [tables EXCEPT ![1][KernelHeap] = ntables']
      /\ UNCHANGED <<frames, page, current_directory, ndirs, heap_pages, i>>
  BY DEF MakeHeapTables, kernel_directory
<1>2. /\ ntables = 0 /\ i = 0 /\ tables[1][Low] = None
      /\ tables \in [Dir -> [TableIdx -> Nat]]
  BY <1>1 DEF IdentityInv, MappingInv, TablesInv
<1>3. 1 \in Dir /\ KernelHeap \in TableIdx \ {Low} /\ ntables' = 1
  BY <1>1, <1>2, Indices
<1>4. /\ tables' \in [Dir -> [TableIdx -> Nat]]
      /\ \A u \in Dir : \A m \in TableIdx :
           tables'[u][m] = IF u = 1 /\ m = KernelHeap THEN 1 ELSE tables[u][m]
  BY <1>1, <1>2, <1>3, OneTable
<1>5. TablesInv'
  BY <1>1, <1>3, <1>4, Indices DEF IdentityInv, TablesInv
<1>6. HeapInv'
  BY <1>1 DEF IdentityInv, HeapInv, HeapTable
<1>7. MappingInv'
  BY <1>1, <1>2, <1>3, <1>4, Indices, SizesAssumption DEF IdentityInv, MappingInv, FirstTaken
<1>8. RunningInv'
  BY <1>1 DEF RunningInv
<1>9. QED
  BY <1>5, <1>6, <1>7, <1>8

\* The frame that the loop of initialise_paging gets is that of the page.
LEMMA FirstIsNext ==
  ASSUME Fits, i \in Nat, i < NPages, FirstTaken
  PROVE  FirstFrame = i
<1>1. i \in Unused /\ \A g \in Unused : i <= g
  BY SizesAssumption DEF Fits, Unused, Frame, FirstTaken
<1>2. FirstFrame \in Unused /\ FirstFrame <= i
  BY <1>1, FirstFrameFacts
<1>3. QED
  BY <1>1, <1>2 DEF Unused, Frame

LEMMA MapIdentityStep ==
  ASSUME Fits, IdentityInv, MapIdentity
  PROVE  TablesInv' /\ HeapInv' /\ MappingInv' /\ RunningInv'
<1>1. /\ pc = "identity" /\ i < NPages /\ i' = i + 1
      /\ AllocPage(1, Low, i)
      /\ UNCHANGED <<current_directory, ndirs, heap_pages, pc>>
  BY DEF MapIdentity, kernel_directory
<1>2. /\ i \in Nat /\ ntables \in Nat /\ heap_pages = 0 /\ FirstTaken
      /\ ntables >= (IF i = 0 THEN 1 ELSE 2) /\ (i = 0 => ntables = 1)
      /\ tables[1][Low] = IF i = 0 THEN None ELSE LowTable
      /\ tables \in [Dir -> [TableIdx -> Nat]]
      /\ \A p \in Page :
           page[LowTable][p] = IF p < i THEN Mapped(p) ELSE Unmapped
  BY <1>1 DEF IdentityInv, MappingInv, TablesInv
<1>3. /\ AllocFrame(LowTable, i) /\ ntables' \in Nat /\ ntables' >= 2
      /\ tables' \in [Dir -> [TableIdx -> Nat]]
      /\ tables'[1][Low] = LowTable
      /\ \A u \in Dir : \A m \in TableIdx \ {Low} : tables'[u][m] = tables[u][m]
  <2>1. CASE i = 0
    <3>1. /\ ntables' = LowTable /\ AllocFrame(ntables', i)
          /\ tables' = [tables EXCEPT ![1][Low] = LowTable]
      BY <1>1, <1>2, <2>1, Indices DEF AllocPage
    <3>2. 1 \in Dir /\ Low \in TableIdx /\ LowTable \in Nat
      BY Indices
    <3>3. /\ tables' \in [Dir -> [TableIdx -> Nat]]
          /\ \A u \in Dir : \A m \in TableIdx :
               tables'[u][m] = IF u = 1 /\ m = Low THEN LowTable ELSE tables[u][m]
      BY <1>2, <3>1, <3>2, OneTable
    <3>4. tables'[1][Low] = LowTable
      BY <3>2, <3>3
    <3>5. \A u \in Dir : \A m \in TableIdx \ {Low} : tables'[u][m] = tables[u][m]
      BY <3>3
    <3>6. ntables' \in Nat /\ ntables' >= 2
      BY <3>1, Indices
    <3>7. AllocFrame(LowTable, i)
      BY <3>1
    <3>8. QED
      BY <3>3, <3>4, <3>5, <3>6, <3>7
  <2>2. CASE i # 0
    <3>1. tables[1][Low] = LowTable /\ LowTable # None
      BY <1>2, <2>2, Indices DEF None
    <3>2. QED
      BY <1>1, <1>2, <2>2, <3>1 DEF AllocPage
  <2>3. QED
    BY <2>1, <2>2
<1>4. i \in Page /\ LowTable \in Table
  BY <1>1, <1>2, Indices, SizesAssumption DEF Page
<1>5. page[LowTable][i].frame = 0
  BY <1>2, <1>4 DEF Unmapped
<1>6. FirstFrame = i
  BY <1>1, <1>2, FirstIsNext
<1>7. /\ frames' = frames \cup {i}
      /\ \A q \in Page :
           page'[LowTable][q] = IF q = i THEN Mapped(i) ELSE page[LowTable][q]
  BY <1>3, <1>4, <1>5, <1>6, AllocEntry DEF IdentityInv
<1>8. FirstTaken'
  BY <1>1, <1>2, <1>7, SizesAssumption DEF FirstTaken
<1>9. TablesInv' /\ HeapInv'
  <2>1. i' \in Nat /\ ndirs' \in Dir
    BY <1>1, <1>2 DEF IdentityInv, TablesInv
  <2>2. TablesInv'
    BY <1>3, <2>1 DEF IdentityInv, TablesInv
  <2>3. HeapInv'
    BY <1>1 DEF IdentityInv, HeapInv, HeapTable
  <2>4. QED
    BY <2>2, <2>3
<1>10. MappingInv'
  <2>1. \A p \in Page :
          page'[LowTable][p] = IF p < i' THEN Mapped(p) ELSE Unmapped
    <3>1. ASSUME NEW p \in Page
          PROVE  page'[LowTable][p] = IF p < i' THEN Mapped(p) ELSE Unmapped
      <4>1. p \in Nat /\ (p < i' <=> p < i \/ p = i)
        BY <1>1, <1>2 DEF Page
      <4>2. QED
        BY <1>2, <1>7, <4>1
    <3>2. QED
      BY <3>1
  <2>2. i' <= NPages /\ i' # 0 /\ i' \in Nat
    BY <1>1, <1>2, SizesAssumption
  <2>3. QED
    BY <1>1, <1>2, <1>3, <1>8, <2>1, <2>2 DEF IdentityInv, MappingInv
<1>11. RunningInv'
  BY <1>1 DEF RunningInv
<1>12. QED
  BY <1>9, <1>10, <1>11

\* What holds while paging is on.
LEMMA Running ==
  ASSUME IdentityInv, pc \notin {"heap_tables", "identity"}
  PROVE  /\ TablesInv /\ HeapInv /\ FrameInv /\ ntables >= 2
         /\ \A p \in Page : page[LowTable][p] = Mapped(p)
         /\ tables[1][Low] = LowTable /\ \A d \in 1..(ndirs - 1) : LowMapped(d)
         /\ current_directory \in 1..ndirs /\ ndirs \in Dir
  BY DEF IdentityInv, RunningInv, TablesInv

\* It goes on to hold when the tables below 0x400000 and their pages stay.
LEMMA RunningOn ==
  ASSUME IdentityInv, pc \notin {"heap_tables", "identity"}, TablesInv',
         UNCHANGED <<current_directory, ndirs, pc, src, dir, number, table,
                     overrun>>,
         ntables' >= 2,
         \A p \in Page : page'[LowTable][p] = page[LowTable][p],
         \A d \in Dir : tables'[d][Low] = tables[d][Low]
  PROVE  MappingInv' /\ RunningInv'
<1>1. MappingInv'
  BY DEF MappingInv
<1>2. ndirs \in Dir /\ 1..(ndirs - 1) \subseteq Dir
  BY Running, SizesAssumption DEF Dir
<1>3. RunningInv
  BY DEF IdentityInv
<1>4. RunningInv'
  <2>1. 1 \in Dir
    BY Indices
  <2>2. \A d \in Dir : LowMapped(d)' <=> LowMapped(d)
    BY DEF LowMapped, overrun
  <2>3. QED
    BY <1>2, <1>3, <2>1, <2>2, Running DEF RunningInv
<1>5. QED
  BY <1>1, <1>4

LEMMA MapHeapStep ==
  ASSUME IdentityInv, MapHeap
  PROVE  TablesInv' /\ HeapInv' /\ MappingInv' /\ RunningInv'
<1>1. /\ pc = "identity" /\ i = NPages /\ heap_pages < HeapPages
      /\ AllocPage(1, KernelHeap, heap_pages) /\ heap_pages' = heap_pages + 1
      /\ UNCHANGED <<current_directory, ndirs, i, pc>>
  BY DEF MapHeap, kernel_directory
<1>2. /\ TablesInv /\ HeapInv /\ FrameInv /\ MappingInv
      /\ ntables >= 2 /\ i # 0 /\ tables[1][Low] = LowTable
      /\ \A p \in Page : page[LowTable][p] = IF p < i THEN Mapped(p) ELSE Unmapped
  BY <1>1, SizesAssumption DEF IdentityInv, MappingInv
<1>3. 1 \in Dir /\ KernelHeap \in TableIdx \ {Low}
  BY Indices
<1>4. /\ \A q \in Page : page'[LowTable][q] = page[LowTable][q]
      /\ tables' \in [Dir -> [TableIdx -> Nat]]
      /\ \A u \in Dir : \A m \in TableIdx \ {Low} : tables'[u][m] # LowTable
      /\ \A u \in Dir : tables'[u][Low] = tables[u][Low]
      /\ ntables' \in Nat /\ ntables' >= 2
  BY <1>1, <1>2, <1>3, HighPage
<1>5. TablesInv'
  BY <1>1, <1>2, <1>4 DEF TablesInv
<1>6. HeapInv'
  <2>1. heap_pages \in Nat /\ heap_pages < NPages
    BY <1>1, <1>2, SizesAssumption DEF HeapInv
  <2>2. HeapTable(heap_pages) = KernelHeap
    BY <2>1, SizesAssumption DEF HeapTable, KernelHeap
  <2>3. \A k \in 0..(heap_pages' - 1) : k \in 0..(heap_pages - 1) \/ k = heap_pages
    BY <1>1, <2>1
  <2>4. QED
    BY <1>1, <1>2, <1>3, <2>1, <2>2, <2>3 DEF HeapInv, HeapTable
<1>7. MappingInv'
  BY <1>1, <1>2, <1>3, <1>4, SizesAssumption DEF MappingInv
<1>8. RunningInv'
  BY <1>1 DEF RunningInv
<1>9. QED
  BY <1>5, <1>6, <1>7, <1>8

LEMMA EnablePagingStep ==
  ASSUME IdentityInv, EnablePaging
  PROVE  TablesInv' /\ HeapInv' /\ MappingInv' /\ RunningInv'
<1>1. /\ pc = "identity" /\ i = NPages /\ current_directory' = 1 /\ i' = 0
      /\ ndirs < MaxDirs /\ ndirs' = ndirs + 1 /\ src' = 1 /\ dir' = ndirs'
      /\ number' = 0 /\ pc' = "clone"
      /\ UNCHANGED <<frames, tables, page, ntables, heap_pages>>
  BY DEF EnablePaging, StartClone, kernel_directory
<1>2. /\ TablesInv /\ HeapInv /\ ndirs = 1
      /\ ntables >= 2 /\ tables[1][Low] = LowTable
      /\ \A p \in Page : page[LowTable][p] = IF p < i THEN Mapped(p) ELSE Unmapped
  BY <1>1, SizesAssumption DEF IdentityInv, MappingInv
<1>3. ndirs' = 2 /\ 2 \in Dir
  BY <1>1, <1>2, SizesAssumption DEF Dir
<1>4. TablesInv' /\ HeapInv'
  BY <1>1, <1>2, <1>3 DEF TablesInv, HeapInv, HeapTable
<1>5. MappingInv'
  BY <1>1 DEF MappingInv
<1>6. \A p \in Page : page'[LowTable][p] = Mapped(p)
  BY <1>1, <1>2, SizesAssumption DEF Page
<1>7. RunningInv'
  <2>1. tables'[1][Low] = LowTable /\ \A d \in 1..(ndirs' - 1) : LowMapped(d)'
    BY <1>1, <1>2, <1>3 DEF LowMapped
  <2>2. number' = Low
    BY <1>1 DEF Low
  <2>3. QED
    BY <1>1, <1>2, <1>3, <1>6, <2>1, <2>2 DEF RunningInv
<1>8. QED
  BY <1>4, <1>5, <1>7

\* What the loop of clone_directory knows.
LEMMA Cloning ==
  ASSUME IdentityInv, pc \in {"clone", "clone_table"}
  PROVE  /\ src \in 1..(ndirs - 1) /\ dir = ndirs /\ current_directory < ndirs
         /\ number \in Nat /\ (number # Low => LowMapped(ndirs))
         /\ LowMapped(src) /\ tables[1][Low] = LowTable
         /\ src \in Dir /\ dir \in Dir /\ \A d \in 1..(ndirs - 1) : d # dir
<1>1. /\ src \in 1..(ndirs - 1) /\ dir = ndirs /\ current_directory < ndirs
      /\ number \in Nat /\ (number # Low => LowMapped(ndirs))
  BY DEF IdentityInv, RunningInv
<1>2. /\ ndirs \in Dir /\ \A d \in 1..(ndirs - 1) : LowMapped(d)
      /\ tables[1][Low] = LowTable
  BY Running
<1>3. 1 \in 1..(ndirs - 1) /\ ndirs \in Nat /\ src \in Dir
  BY <1>1, <1>2, SizesAssumption DEF Dir
<1>4. QED
  BY <1>1, <1>2, <1>3

LEMMA CloneShareStep ==
  ASSUME IdentityInv, CloneShare
  PROVE  TablesInv' /\ HeapInv' /\ MappingInv' /\ RunningInv'
<1>1. /\ pc = "clone" /\ number \in TableIdx /\ number' = number + 1
      /\ tables' = [tables EXCEPT ![dir][number] = Pointer(src, number)]
      /\ UNCHANGED <<page, current_directory, ndirs, ntables, heap_pages, pc,
                     i, src, dir, forgotten>>
  BY DEF CloneShare, overrun
<1>2. /\ src \in 1..(ndirs - 1) /\ dir = ndirs /\ current_directory < ndirs
      /\ number \in Nat /\ (number # Low => LowMapped(ndirs))
      /\ LowMapped(src) /\ tables[1][Low] = LowTable
      /\ src \in Dir /\ dir \in Dir /\ \A d \in 1..(ndirs - 1) : d # dir
  BY <1>1, Cloning
<1>3. /\ TablesInv /\ HeapInv /\ ntables >= 2
      /\ \A p \in Page : page[LowTable][p] = Mapped(p)
      /\ \A d \in 1..(ndirs - 1) : LowMapped(d)
      /\ current_directory \in 1..ndirs /\ ndirs \in Dir
  BY <1>1, Running
<1>4. tables \in [Dir -> [TableIdx -> Nat]] /\ Pointer(src, number) \in Nat
  BY <1>1, <1>2, <1>3 DEF TablesInv, Pointer, None
<1>5. /\ tables' \in [Dir -> [TableIdx -> Nat]]
      /\ \A u \in Dir : \A m \in TableIdx :
           tables'[u][m] = IF u = dir /\ m = number THEN Pointer(src, number)
                                                    ELSE tables[u][m]
  BY <1>1, <1>2, <1>4, OneTable
<1>6. \A u \in Dir : \A m \in TableIdx \ {Low} : tables'[u][m] # LowTable
  <2>1. number # Low => Pointer(src, number) = tables[src][number]
    BY DEF Pointer
  <2>2. QED
    BY <1>1, <1>2, <1>3, <1>5, <2>1 DEF TablesInv
<1>7. TablesInv'
  BY <1>1, <1>3, <1>5, <1>6 DEF TablesInv
<1>8. HeapInv'
  BY <1>1, <1>3 DEF HeapInv, HeapTable
<1>9. MappingInv'
  BY <1>1 DEF MappingInv
<1>10. tables'[1][Low] = LowTable /\ \A d \in 1..(ndirs - 1) : LowMapped(d)'
  <2>1. \A d \in 1..(ndirs - 1) : d \in Dir
    BY <1>3, SizesAssumption DEF Dir
  <2>2. \A d \in 1..(ndirs - 1) : tables'[d][Low] = tables[d][Low]
    BY <1>2, <1>5, <2>1, Indices
  <2>3. 1 \in 1..(ndirs - 1)
    BY <1>2, <1>3, SizesAssumption DEF Dir
  <2>4. QED
    BY <1>1, <1>2, <1>3, <2>2, <2>3 DEF LowMapped
<1>11. LowMapped(ndirs)'
  <2>1. CASE number = Low
    BY <1>1, <1>2, <1>5, <2>1, Indices DEF LowMapped, Pointer
  <2>2. CASE number # Low
    BY <1>1, <1>2, <1>5, <2>2, Indices DEF LowMapped
  <2>3. QED
    BY <2>1, <2>2
<1>12. RunningInv'
  BY <1>1, <1>2, <1>3, <1>10, <1>11 DEF RunningInv
<1>13. QED
  BY <1>7, <1>8, <1>9, <1>12

LEMMA CloneTableStep ==
  ASSUME IdentityInv, CloneTable
  PROVE  TablesInv' /\ HeapInv' /\ MappingInv' /\ RunningInv'
<1>1. /\ pc = "clone" /\ pc' = "clone_table" /\ number \in TableIdx
      /\ Pointer(src, number) \notin {None, tables[1][number]} /\ Clears
      /\ ntables' = ntables + 1 /\ table' = ntables' /\ i' = 0
      /\ UNCHANGED <<tables, current_directory, ndirs, heap_pages, src,
                     dir, number>>
  BY DEF CloneTable, Shares, kernel_directory, Clears
<1>2. /\ src \in 1..(ndirs - 1) /\ dir = ndirs /\ current_directory < ndirs
      /\ number \in Nat /\ (number # Low => LowMapped(ndirs))
      /\ LowMapped(src) /\ tables[1][Low] = LowTable
  BY <1>1, Cloning
<1>3. /\ TablesInv /\ HeapInv /\ FrameInv /\ ntables >= 2
      /\ \A p \in Page : page[LowTable][p] = Mapped(p)
      /\ \A d \in 1..(ndirs - 1) : LowMapped(d)
      /\ current_directory \in 1..ndirs /\ ndirs \in Dir
  BY <1>1, Running
<1>4. number # Low
  BY <1>1, <1>2 DEF LowMapped, Pointer
<1>5. ntables' \in Nat /\ ntables' >= 2 /\ table' \in Nat /\ table' # LowTable
  BY <1>1, <1>3, Indices DEF TablesInv
<1>6. TablesInv' /\ HeapInv'
  BY <1>1, <1>3, <1>5 DEF TablesInv, HeapInv, HeapTable
<1>7. MappingInv'
  BY <1>1 DEF MappingInv
<1>8. forgotten \subseteq forgotten' /\ \A p \in Page : page'[LowTable][p] = Mapped(p)
  <2>1. /\ forgotten \subseteq forgotten'
        /\ \A u \in Table : \A q \in Page :
             page'[u][q] = page[u][q] \/ u \in 3..ntables
    BY <1>1, <1>3, ClearFacts DEF FrameInv
  <2>2. LowTable \in Table /\ LowTable \notin 3..ntables
    BY Indices
  <2>3. QED
    BY <1>3, <2>1, <2>2
<1>9. \A d : LowMapped(d) => LowMapped(d)'
  BY <1>1, <1>8 DEF LowMapped
<1>10. RunningInv'
  BY <1>1, <1>2, <1>3, <1>4, <1>5, <1>8, <1>9 DEF RunningInv
<1>11. QED
  BY <1>6, <1>7, <1>10

LEMMA ClonePageStep ==
  ASSUME IdentityInv, ClonePage
  PROVE  TablesInv' /\ HeapInv' /\ MappingInv' /\ RunningInv'
<1>1. /\ pc = "clone_table" /\ i' = i + 1
      /\ UNCHANGED <<tables, current_directory, ndirs, ntables, heap_pages, pc,
                     src, dir, number, table, overrun>>
      /\ UNCHANGED page \/ AllocFrame(table, i)
  BY DEF ClonePage, cloning
<1>2. TablesInv /\ HeapInv /\ FrameInv /\ ntables >= 2
  BY <1>1, Running
<1>3. table # LowTable
  BY <1>1 DEF IdentityInv, RunningInv
<1>4. \A p \in Page : page'[LowTable][p] = page[LowTable][p]
  BY <1>1, <1>2, <1>3, LowKept
<1>5. TablesInv' /\ HeapInv'
  BY <1>1, <1>2 DEF TablesInv, HeapInv, HeapTable
<1>6. \A d \in Dir : tables'[d][Low] = tables[d][Low]
  BY <1>1
<1>7. QED
  BY <1>1, <1>2, <1>4, <1>5, <1>6, RunningOn

LEMMA CloneTableDoneStep ==
  ASSUME IdentityInv, CloneTableDone
  PROVE  TablesInv' /\ HeapInv' /\ MappingInv' /\ RunningInv'
<1>1. /\ pc = "clone_table" /\ pc' = "clone" /\ i' = 0 /\ number' = number + 1
      /\ tables' = [tables EXCEPT ![dir][number] = table]
      /\ UNCHANGED <<page, current_directory, ndirs, ntables, heap_pages, src,
                     dir, forgotten>>
  BY DEF CloneTableDone, overrun
<1>2. /\ src \in 1..(ndirs - 1) /\ dir = ndirs /\ current_directory < ndirs
      /\ number \in Nat /\ (number # Low => LowMapped(ndirs))
      /\ dir \in Dir
  BY <1>1, Cloning
<1>3. /\ TablesInv /\ HeapInv /\ ntables >= 2
      /\ \A p \in Page : page[LowTable][p] = Mapped(p)
      /\ tables[1][Low] = LowTable /\ \A d \in 1..(ndirs - 1) : LowMapped(d)
      /\ current_directory \in 1..ndirs /\ ndirs \in Dir
  BY <1>1, Running
<1>4. number # Low /\ table \in Nat /\ table # LowTable
  BY <1>1 DEF IdentityInv, RunningInv
<1>5. tables \in [Dir -> [TableIdx -> Nat]]
  BY <1>3 DEF TablesInv
<1>6. number \in TableIdx
  BY <1>1 DEF IdentityInv, RunningInv
<1>7. /\ tables' \in [Dir -> [TableIdx -> Nat]]
      /\ \A u \in Dir : \A m \in TableIdx :
           tables'[u][m] = IF u = dir /\ m = number THEN table ELSE tables[u][m]
  BY <1>1, <1>2, <1>4, <1>5, <1>6, OneTable
<1>8. \A u \in Dir : tables'[u][Low] = tables[u][Low]
  BY <1>4, <1>7, Indices
<1>9. \A u \in Dir : \A m \in TableIdx \ {Low} : tables'[u][m] # LowTable
  BY <1>3, <1>4, <1>7 DEF TablesInv
<1>10. TablesInv' /\ HeapInv'
  BY <1>1, <1>3, <1>7, <1>9 DEF TablesInv, HeapInv, HeapTable
<1>11. MappingInv'
  BY <1>1 DEF MappingInv
<1>12. RunningInv'
  <2>1. \A d \in 1..(ndirs - 1) : d \in Dir
    BY <1>3, SizesAssumption DEF Dir
  <2>2. tables'[1][Low] = LowTable /\ \A d \in 1..(ndirs - 1) : LowMapped(d)'
    BY <1>1, <1>3, <1>8, <2>1, Indices DEF LowMapped
  <2>3. LowMapped(ndirs)'
    BY <1>1, <1>2, <1>3, <1>4, <1>8 DEF LowMapped
  <2>4. QED
    BY <1>1, <1>2, <1>3, <2>2, <2>3 DEF RunningInv
<1>13. QED
  BY <1>10, <1>11, <1>12

LEMMA CloneDoneStep ==
  ASSUME IdentityInv, CloneDone
  PROVE  TablesInv' /\ HeapInv' /\ MappingInv' /\ RunningInv'
<1>1. /\ pc = "clone" /\ pc' = "run" /\ number \notin TableIdx
      /\ current_directory' = dir \/ current_directory' = current_directory
      /\ UNCHANGED <<tables, page, ndirs, ntables, heap_pages, i, forgotten>>
  BY DEF CloneDone, overrun
<1>2. dir = ndirs /\ (number # Low => LowMapped(ndirs))
  BY <1>1, Cloning
<1>3. /\ TablesInv /\ HeapInv /\ ntables >= 2
      /\ \A p \in Page : page[LowTable][p] = Mapped(p)
      /\ tables[1][Low] = LowTable /\ \A d \in 1..(ndirs - 1) : LowMapped(d)
      /\ current_directory \in 1..ndirs /\ ndirs \in Dir
  BY <1>1, Running
<1>4. LowMapped(ndirs)
  BY <1>1, <1>2, Indices
<1>5. current_directory' \in 1..ndirs
  BY <1>1, <1>2, <1>3 DEF Dir
<1>6. TablesInv' /\ HeapInv'
  BY <1>1, <1>3 DEF TablesInv, HeapInv, HeapTable
<1>7. MappingInv'
  BY <1>1 DEF MappingInv
<1>8. RunningInv'
  <2>1. \A d : LowMapped(d)' <=> LowMapped(d)
    BY <1>1 DEF LowMapped
  <2>2. QED
    BY <1>1, <1>3, <1>4, <1>5, <2>1 DEF RunningInv
<1>9. QED
  BY <1>6, <1>7, <1>8

LEMMA ForkCloneStep ==
  ASSUME IdentityInv, ForkClone
  PROVE  TablesInv' /\ HeapInv' /\ MappingInv' /\ RunningInv'
<1>1. /\ pc = "run" /\ pc' = "clone" /\ ndirs < MaxDirs /\ ndirs' = ndirs + 1
      /\ src' = current_directory /\ dir' = ndirs' /\ number' = 0
      /\ UNCHANGED <<tables, page, current_directory, ntables, heap_pages, i,
                     forgotten>>
  BY DEF ForkClone, StartClone, overrun
<1>2. /\ TablesInv /\ HeapInv /\ ntables >= 2
      /\ \A p \in Page : page[LowTable][p] = Mapped(p)
      /\ tables[1][Low] = LowTable /\ \A d \in 1..(ndirs - 1) : LowMapped(d)
      /\ current_directory \in 1..ndirs /\ ndirs \in Dir
  BY <1>1, Running
<1>3. LowMapped(ndirs)
  BY <1>1 DEF IdentityInv, RunningInv
<1>4. ndirs' \in Dir /\ ndirs' - 1 = ndirs /\ ndirs \in Nat
  BY <1>1, <1>2, SizesAssumption DEF Dir
<1>5. tables'[1][Low] = LowTable /\ \A d \in 1..(ndirs' - 1) : LowMapped(d)'
  BY <1>1, <1>2, <1>3, <1>4 DEF LowMapped
<1>6. TablesInv' /\ HeapInv'
  BY <1>1, <1>2, <1>4 DEF TablesInv, HeapInv, HeapTable
<1>7. MappingInv'
  BY <1>1 DEF MappingInv
<1>8. /\ src' \in 1..(ndirs' - 1) /\ current_directory' < ndirs'
      /\ current_directory' \in 1..ndirs' /\ number' = Low
  BY <1>1, <1>2, <1>4 DEF Low
<1>9. RunningInv'
  BY <1>1, <1>2, <1>4, <1>5, <1>8 DEF RunningInv
<1>10. QED
  BY <1>6, <1>7, <1>9

LEMMA SwitchStep ==
  ASSUME IdentityInv, NEW d \in Dir, Switch(d)
  PROVE  TablesInv' /\ HeapInv' /\ MappingInv' /\ RunningInv'
<1>1. /\ pc = "run" /\ d \in 2..ndirs /\ current_directory' = d
      /\ UNCHANGED <<tables, page, ndirs, ntables, heap_pages, pc, i, forgotten>>
  BY DEF Switch, overrun
<1>2. TablesInv /\ HeapInv /\ RunningInv /\ ndirs \in Dir
  BY <1>1, Running DEF IdentityInv
<1>3. current_directory' \in 1..ndirs
  BY <1>1, <1>2 DEF Dir
<1>4. TablesInv' /\ HeapInv'
  BY <1>1, <1>2 DEF TablesInv, HeapInv, HeapTable
<1>5. MappingInv'
  BY <1>1 DEF MappingInv
<1>6. RunningInv'
  BY <1>1, <1>2, <1>3 DEF RunningInv, LowMapped
<1>7. QED
  BY <1>4, <1>5, <1>6

LEMMA MapStackStep ==
  ASSUME IdentityInv, NEW p \in Page, MapStack(p)
  PROVE  TablesInv' /\ HeapInv' /\ MappingInv' /\ RunningInv'
<1>1. /\ pc = "run" /\ AllocPage(current_directory, Stack, p)
      /\ UNCHANGED <<current_directory, ndirs, heap_pages, pc, i, src, dir,
                     number, table, overrun>>
  BY DEF MapStack, cloning
<1>2. /\ TablesInv /\ HeapInv /\ FrameInv /\ ntables >= 2
      /\ current_directory \in 1..ndirs /\ ndirs \in Dir
  BY <1>1, Running
<1>3. current_directory \in Dir /\ Stack \in TableIdx \ {Low}
  BY <1>2, Indices, SizesAssumption DEF Dir
<1>4. /\ \A q \in Page : page'[LowTable][q] = page[LowTable][q]
      /\ tables' \in [Dir -> [TableIdx -> Nat]]
      /\ \A u \in Dir : \A m \in TableIdx \ {Low} : tables'[u][m] # LowTable
      /\ \A u \in Dir : tables'[u][Low] = tables[u][Low]
      /\ ntables' \in Nat /\ ntables' >= 2
  BY <1>1, <1>2, <1>3, HighPage
<1>5. TablesInv' /\ HeapInv'
  BY <1>1, <1>2, <1>4 DEF TablesInv, HeapInv, HeapTable
<1>6. QED
  BY <1>1, <1>4, <1>5, RunningOn

LEMMA GrowHeapStep ==
  ASSUME IdentityInv, GrowHeap
  PROVE  TablesInv' /\ HeapInv' /\ MappingInv' /\ RunningInv'
<1>1. /\ pc = "run" /\ HeapTable(heap_pages) < Stack
      /\ AllocPage(1, HeapTable(heap_pages), heap_pages % NPages)
      /\ heap_pages' = heap_pages + 1
      /\ UNCHANGED <<current_directory, ndirs, pc, i, src, dir, number, table,
                     overrun>>
  BY DEF GrowHeap, cloning, kernel_directory
<1>2. TablesInv /\ HeapInv /\ FrameInv /\ ntables >= 2
  BY <1>1, Running
<1>3. heap_pages \in Nat
  BY <1>2 DEF HeapInv
<1>4. HeapTable(heap_pages) \in TableIdx \ {Low}
  <2>1. heap_pages \div NPages \in Nat
    BY <1>3, SizesAssumption
  <2>2. QED
    BY <1>1, <2>1, SizesAssumption DEF HeapTable, KernelHeap, TableIdx, Low
<1>5. 1 \in Dir
  BY Indices
<1>6. /\ \A q \in Page : page'[LowTable][q] = page[LowTable][q]
      /\ tables' \in [Dir -> [TableIdx -> Nat]]
      /\ \A u \in Dir : \A m \in TableIdx \ {Low} : tables'[u][m] # LowTable
      /\ \A u \in Dir : tables'[u][Low] = tables[u][Low]
      /\ ntables' \in Nat /\ ntables' >= 2
  BY <1>1, <1>2, <1>4, <1>5, HighPage
<1>7. TablesInv'
  BY <1>1, <1>2, <1>6 DEF TablesInv
<1>8. HeapInv'
  <2>1. \A k \in 0..(heap_pages' - 1) : k \in 0..(heap_pages - 1) \/ k = heap_pages
    BY <1>1, <1>3
  <2>2. QED
    BY <1>1, <1>2, <1>3, <1>4, <2>1 DEF HeapInv
<1>9. QED
  BY <1>1, <1>6, <1>7, <1>8, RunningOn

LEMMA ShrinkHeapStep ==
  ASSUME IdentityInv, ShrinkHeap
  PROVE  TablesInv' /\ HeapInv' /\ MappingInv' /\ RunningInv'
<1> DEFINE k == heap_pages - 1
           t == tables[1][HeapTable(k)]
<1>1. /\ pc = "run" /\ heap_pages > 1 /\ FreeFrame(t, k % NPages)
      /\ heap_pages' = k
      /\ UNCHANGED <<tables, current_directory, ndirs, ntables, pc, i, src, dir,
                     number, table, overrun>>
  BY DEF ShrinkHeap, cloning, kernel_directory
<1>2. TablesInv /\ HeapInv /\ FrameInv /\ ntables >= 2
  BY <1>1, Running
<1>3. heap_pages \in Nat /\ k \in 0..(heap_pages - 1)
  BY <1>1, <1>2 DEF HeapInv
<1>4. t # LowTable
  BY <1>2, <1>3, Indices DEF HeapInv, TablesInv
<1> HIDE DEF t
<1>5. \A p \in Page : page'[LowTable][p] = page[LowTable][p]
  BY <1>1, <1>2, <1>4, LowKept
<1>6. TablesInv'
  BY <1>1, <1>2 DEF TablesInv
<1>7. HeapInv'
  <2>1. k \in Nat /\ \A j \in 0..(k - 1) : j \in 0..(heap_pages - 1)
    BY <1>1, <1>3
  <2>2. QED
    BY <1>1, <1>2, <2>1 DEF HeapInv, HeapTable
<1>8. \A d \in Dir : tables'[d][Low] = tables[d][Low]
  BY <1>1
<1>9. QED
  BY <1>1, <1>2, <1>5, <1>6, <1>7, <1>8, RunningOn

LEMMA WriteStep ==
  ASSUME IdentityInv,
         UNCHANGED <<frames, tables, page, current_directory, ndirs, ntables,
                     heap_pages, pc, i, cloning, overrun>>
  PROVE  TablesInv' /\ HeapInv' /\ MappingInv' /\ RunningInv'
BY DEF IdentityInv, TablesInv, HeapInv, HeapTable, MappingInv, RunningInv,
   LowMapped, FirstTaken, cloning, overrun

LEMMA NextIdentity == Fits /\ IdentityInv /\ [Next]_vars => IdentityInv'
<1> SUFFICES ASSUME Fits, IdentityInv, [Next]_vars
             PROVE  TablesInv' /\ HeapInv' /\ MappingInv' /\ RunningInv'
  BY NextFrames DEF IdentityInv
<1>1. CASE MakeHeapTables \/ MapIdentity \/ MapHeap \/ EnablePaging
  BY <1>1, MakeHeapTablesStep, MapIdentityStep, MapHeapStep, EnablePagingStep
<1>2. CASE CloneShare \/ CloneTable \/ ClonePage \/ CloneTableDone \/ CloneDone
  BY <1>2, CloneShareStep, CloneTableStep, ClonePageStep, CloneTableDoneStep,
     CloneDoneStep
<1>3. CASE ForkClone \/ GrowHeap \/ ShrinkHeap
  BY <1>3, ForkCloneStep, GrowHeapStep, ShrinkHeapStep
<1>4. CASE (\E d \in Dir : Switch(d)) \/ \E p \in Page : MapStack(p)
  BY <1>4, SwitchStep, MapStackStep
<1>5. CASE \E n \in TableIdx, p \in Page, v \in Value : Write(n, p, v)
  BY <1>5, WriteStep DEF Write
<1>6. CASE UNCHANGED vars
  BY <1>6, WriteStep DEF vars
<1>7. QED
  BY <1>1, <1>2, <1>3, <1>4, <1>5, <1>6 DEF Next

LEMMA InitIdentity == Fits /\ Init => IdentityInv
<1> SUFFICES ASSUME Fits, Init PROVE IdentityInv
  OBVIOUS
<1>1. /\ frames \in SUBSET {f \in Frame : f >= Zeroed} /\ current_directory = None /\ ndirs = 1 /\ ntables = 0
      /\ heap_pages = 0 /\ pc = "heap_tables" /\ i = 0
      /\ tables = [d \in Dir |-> [n \in TableIdx |-> None]]
      /\ page = [t \in Table |-> [p \in Page |-> Unmapped]]
  BY DEF Init
<1>2. /\ tables \in [Dir -> [TableIdx -> Nat]]
      /\ \A d \in Dir : \A n \in TableIdx : tables[d][n] = None
  BY <1>1 DEF None
<1>3. None # LowTable /\ 1 \in Dir /\ Low \in TableIdx
  BY Indices DEF None
<1>4. TablesInv /\ HeapInv
  BY <1>1, <1>2, <1>3 DEF TablesInv, HeapInv
<1>5. \A p \in Page : page[LowTable][p] = Unmapped /\ ~(p < 0)
  BY <1>1, Indices DEF Page
<1>6. MappingInv
  <2>1. FirstTaken
    BY <1>1, SizesAssumption DEF FirstTaken, Fits, Frame
  <2>2. QED
    BY <1>1, <1>2, <1>3, <1>5, <2>1 DEF MappingInv
<1>7. RunningInv
  BY <1>1 DEF RunningInv
<1>8. QED
  BY <1>4, <1>6, <1>7, InitFrames DEF IdentityInv

\* As long as there are frames for the addresses below 0x400000 and their bits
\* were cleared, every directory that is complete maps each of them to itself,
\* from the moment paging is enabled: later maps, clones and frees never touch
\* that table.  Only a clone of a directory that was overrun can lack it.
THEOREM IdentityTheorem == Fits => (Spec => []IdentityMapped)
<1> SUFFICES ASSUME Fits PROVE Spec => []IdentityMapped
  OBVIOUS
<1>1. IdentityInv => IdentityMapped
  <2> SUFFICES ASSUME IdentityInv, current_directory # None, NEW d \in Dir,
                      d < ndirs \/ (d = ndirs /\ pc = "run")
               PROVE  IF tables[d][Low] = None THEN forgotten # {}
                      ELSE \A p \in Page : page[tables[d][Low]][p] = Mapped(p)
    BY DEF IdentityMapped
  <2>1. pc \notin {"heap_tables", "identity"}
    BY DEF IdentityInv, MappingInv
  <2>2. /\ \A p \in Page : page[LowTable][p] = Mapped(p)
        /\ \A e \in 1..(ndirs - 1) : LowMapped(e)
        /\ ndirs \in Dir
    BY <2>1, Running
  <2>3. pc = "run" => LowMapped(ndirs)
    BY <2>1 DEF IdentityInv, RunningInv
  <2>4. LowMapped(d)
    BY <2>2, <2>3 DEF Dir
  <2>5. QED
    BY <2>2, <2>4, Indices DEF LowMapped, None
<1>2. QED
  BY <1>1, InitIdentity, NextIdentity, PTL DEF Spec

-----------------------------------------------------------------------------
(* Whose the tables are *)

\* A table belongs to one number of one directory, or is the kernel's and
\* shared under one number.
Owned ==
  \A d, e \in Dir : \A n, m \in TableIdx :
    tables[d][n] # None /\ tables[d][n] = tables[e][m] =>
      n = m /\ (d = e \/ tables[d][n] = tables[1][n])

OwnInv ==
  /\ ntables \in Nat /\ ntables <= MaxTables /\ ndirs \in Dir
  /\ tables \in [Dir -> [TableIdx -> Nat]]
  /\ \A d \in Dir : \A n \in TableIdx : tables[d][n] <= ntables
  /\ \A t \in Table : t > ntables => \A p \in Page : page[t][p] = Unmapped
  /\ Owned

\* The heap's first table, which the kernel has before it is cloned.
HeapShared(d) == tables[d][KernelHeap] = 1

\* Where initialise_paging and clone_directory stand; the table that is being
\* copied is in no directory yet.
LoopInv ==
  /\ pc \in {"heap_tables", "identity"} => ndirs = 1
  /\ pc = "heap_tables" => ntables = 0
  /\ pc # "heap_tables" => HeapShared(1) /\ \A d \in 1..(ndirs - 1) : HeapShared(d)
  /\ pc \notin {"heap_tables", "identity"} => current_directory \in 1..ndirs
  /\ pc = "run" => HeapShared(ndirs)
  /\ pc \in {"clone", "clone_table"} =>
       /\ src \in 1..(ndirs - 1) /\ dir = ndirs /\ number \in Nat
       /\ number > KernelHeap => HeapShared(ndirs)
  /\ pc = "clone_table" =>
       /\ number \in TableIdx \ {KernelHeap} /\ table \in 1..ntables /\ i \in Nat
       /\ tables[src][number] \notin {None, tables[1][number]}
       /\ \A d \in Dir : \A n \in TableIdx : tables[d][n] # table
       /\ \A p \in Page : p >= i => page[table][p] = Unmapped

\* Page p of table u has what page p of table t has, if it has a frame at all.
Copied(t, u, p) ==
  page[t][p].frame # 0 =>
    \/ /\ page[u][p].present
       /\ page[u][p].frame # 0 =>
            content[page[u][p].frame] = content[page[t][p].frame]
    \/ p = 0 /\ u \in hit

CopyInv ==
  /\ frames \subseteq Frame \cup {0} /\ content \in [Frame -> Value]
  /\ \A t \in Table : \A p \in Page : page[t][p].frame # 0 => page[t][p].present
  /\ pc \in {"clone", "clone_table"} =>
       \A n \in TableIdx : n < number /\ Pointer(src, n) # None =>
         /\ tables[ndirs][n] # None
         /\ \A p \in Page : Copied(tables[src][n], tables[ndirs][n], p)
  /\ pc = "clone_table" =>
       \A p \in Page : p < i => Copied(tables[src][number], table, p)

PInv == HeapInv /\ FrameInv /\ OwnInv /\ LoopInv /\ CopyInv

LEMMA OwnIndices ==
  /\ 1 \in Dir /\ Dir \subseteq Nat /\ TableIdx \subseteq Nat /\ Table \subseteq Nat
  /\ Page \subseteq Nat /\ KernelHeap \in TableIdx /\ Stack \in TableIdx /\ Low \in TableIdx
  /\ KernelHeap = 1 /\ None = 0 /\ kernel_directory = 1
  /\ \A d \in Dir : d >= 1 /\ 1..d \subseteq Dir /\ 1..(d - 1) \subseteq Dir
  /\ \A t \in Nat : t \in Table <=> t >= 1 /\ t <= MaxTables
<1>1. /\ 1 \in Dir /\ Dir \subseteq Nat /\ TableIdx \subseteq Nat
      /\ Table \subseteq Nat /\ Page \subseteq Nat
      /\ KernelHeap \in TableIdx /\ Stack \in TableIdx /\ Low \in TableIdx
  BY SizesAssumption DEF Dir, TableIdx, Table, Page, KernelHeap, Low
<1>2. \A d \in Dir : d >= 1 /\ 1..d \subseteq Dir /\ 1..(d - 1) \subseteq Dir
  BY SizesAssumption DEF Dir
<1>3. \A t \in Nat : t \in Table <=> t >= 1 /\ t <= MaxTables
  BY SizesAssumption DEF Table
<1>. QED BY <1>1, <1>2, <1>3 DEF KernelHeap, None, kernel_directory

\* One slot of a directory is filled: with a table that is in no directory, or
\* with what the kernel has there.
LEMMA OneSlot ==
  ASSUME OwnInv, NEW d \in Dir, NEW n \in TableIdx, NEW v \in Nat,
         tables' = [tables EXCEPT ![d][n] = v],
         d = 1 => tables[1][n] = None,
         \/ v = None \/ (v = tables[1][n] /\ d # 1)
         \/ \A e \in Dir : \A m \in TableIdx : tables[e][m] # v
  PROVE  /\ Owned' /\ tables' \in [Dir -> [TableIdx -> Nat]]
         /\ \A u \in Dir : \A m \in TableIdx :
              tables'[u][m] = IF u = d /\ m = n THEN v ELSE tables[u][m]
<1>1. /\ tables' \in [Dir -> [TableIdx -> Nat]]
      /\ \A u \in Dir : \A m \in TableIdx :
           tables'[u][m] = IF u = d /\ m = n THEN v ELSE tables[u][m]
  BY OneTable DEF OwnInv
<1>2. \A a, b \in Dir : \A m, k \in TableIdx :
        tables[a][m] # None /\ tables[a][m] = tables[b][k] =>
          m = k /\ (a = b \/ tables[a][m] = tables[1][m])
  BY DEF OwnInv, Owned
<1>. USE OwnIndices
<1>3. ASSUME NEW a \in Dir, NEW b \in Dir, NEW m \in TableIdx, NEW k \in TableIdx,
             tables'[a][m] # None, tables'[a][m] = tables'[b][k]
      PROVE  m = k /\ (a = b \/ tables'[a][m] = tables'[1][m])
  <2>1. CASE (a = d /\ m = n) /\ (b = d /\ k = n)
    BY <2>1
  <2>2. CASE ~(a = d /\ m = n) /\ ~(b = d /\ k = n)
    <3>1. tables'[a][m] = tables[a][m] /\ tables'[b][k] = tables[b][k]
      BY <1>1, <2>2
    <3>2. m = k /\ (a = b \/ tables[a][m] = tables[1][m])
      BY <1>2, <1>3, <3>1
    <3>3. tables'[1][m] = IF d = 1 /\ m = n THEN v ELSE tables[1][m]
      BY <1>1
    <3>. QED BY <1>3, <3>1, <3>2, <3>3
  <2>3. CASE (a = d /\ m = n) /\ ~(b = d /\ k = n)
    <3>1. tables'[a][m] = v /\ tables'[b][k] = tables[b][k] /\ v # None
      BY <1>1, <1>3, <2>3
    <3>2. v = tables[1][n] /\ d # 1
      BY <1>3, <3>1
    <3>3. n = k /\ tables'[1][n] = tables[1][n]
      BY <1>1, <1>2, <1>3, <3>1, <3>2
    <3>. QED BY <2>3, <3>1, <3>2, <3>3
  <2>4. CASE ~(a = d /\ m = n) /\ (b = d /\ k = n)
    <3>1. tables'[b][k] = v /\ tables'[a][m] = tables[a][m] /\ v # None
      BY <1>1, <1>3, <2>4
    <3>2. v = tables[1][n] /\ d # 1
      BY <1>3, <3>1
    <3>3. n = m /\ tables'[1][n] = tables[1][n]
      BY <1>1, <1>2, <1>3, <3>1, <3>2
    <3>. QED BY <1>3, <2>4, <3>1, <3>2, <3>3
  <2>. QED BY <2>1, <2>2, <2>3, <2>4
<1>4. Owned'
  BY <1>3 DEF Owned
<1>. QED BY <1>1, <1>4

\* alloc_frame fills an entry that has no frame, or nothing.
LEMMA AllocKeeps ==
  ASSUME FrameInv, NEW t, NEW p, AllocFrame(t, p)
  PROVE  /\ page' \in [Table -> [Page -> Entry]]
         /\ frames' \subseteq frames \cup {FirstFrame}
         /\ \A u \in Table : \A q \in Page :
              \/ page'[u][q] = page[u][q]
              \/ u = t /\ q = p /\ page[u][q].frame = 0
                 /\ page'[u][q] = Mapped(FirstFrame)
<1>1. CASE page[t][p].frame # 0
  BY <1>1 DEF AllocFrame, FrameInv
<1>2. CASE page[t][p].frame = 0
  <2>1. /\ page' \in [Table -> [Page -> Entry]]
        /\ frames' = frames \cup {FirstFrame}
        /\ \A u \in Table : \A q \in Page :
             page'[u][q] = IF u = t /\ q = p THEN Mapped(FirstFrame)
                                             ELSE page[u][q]
    BY <1>2, AllocEntry
  <2>. QED BY <1>2, <2>1
<1>. QED BY <1>1, <1>2

\* A page of an address is mapped: the slots that are filled stay, so do the
\* entries that have a frame, and a new table is nobody else's.
LEMMA AllocPageOwn ==
  ASSUME FrameInv, OwnInv, ndirs' = ndirs,
         NEW d \in Dir, NEW n \in TableIdx, NEW p, AllocPage(d, n, p)
  PROVE  /\ OwnInv' /\ ntables' >= ntables
         /\ \A u \in Dir : \A m \in TableIdx :
              tables'[u][m] = tables[u][m] \/ (tables[u][m] = None /\ u = d /\ m = n)
         /\ frames' \subseteq frames \cup {FirstFrame}
         /\ \A u \in Table : \A q \in Page :
              page'[u][q] = page[u][q] \/ (page[u][q].frame = 0
                 /\ page'[u][q] = Mapped(FirstFrame) /\ u = tables'[d][n])
<1>. USE OwnIndices
<1>1. CASE tables[d][n] # None
  <2>1. AllocFrame(tables[d][n], p) /\ UNCHANGED <<tables, ntables>>
    BY <1>1 DEF AllocPage
  <2>2. /\ frames' \subseteq frames \cup {FirstFrame}
        /\ \A u \in Table : \A q \in Page :
             page'[u][q] = page[u][q] \/ (page[u][q].frame = 0
                /\ page'[u][q] = Mapped(FirstFrame) /\ u = tables[d][n])
    BY <2>1, AllocKeeps
  <2>3. \A t \in Table : t > ntables => t # tables[d][n]
    BY DEF OwnInv
  <2>4. OwnInv'
    <3>1. Owned'
      BY <2>1 DEF OwnInv, Owned
    <3>2. \A t \in Table : t > ntables => \A q \in Page : page'[t][q] = Unmapped
      BY <2>2, <2>3 DEF OwnInv
    <3>. QED BY <2>1, <3>1, <3>2 DEF OwnInv
  <2>. QED BY <2>1, <2>2, <2>4 DEF OwnInv
<1>2. CASE tables[d][n] = None
  <2>. DEFINE made == ntables + 1
  <2>1. /\ ntables < MaxTables /\ ntables' = made
        /\ tables' = [tables EXCEPT ![d][n] = made] /\ AllocFrame(made, p)
    BY <1>2 DEF AllocPage
  <2>2. /\ made \in Nat /\ ntables \in Nat /\ made > ntables /\ made <= MaxTables
        /\ \A e \in Dir : \A m \in TableIdx : tables[e][m] # made
    BY <2>1, SizesAssumption DEF OwnInv
  <2>. HIDE DEF made
  <2>3. /\ Owned' /\ tables' \in [Dir -> [TableIdx -> Nat]]
        /\ \A u \in Dir : \A m \in TableIdx :
             tables'[u][m] = IF u = d /\ m = n THEN made ELSE tables[u][m]
    <3>1. d = 1 => tables[1][n] = None
      BY <1>2
    <3>2. \A e \in Dir : \A m \in TableIdx : tables[e][m] # made
      BY <2>2
    <3>3. tables' = [tables EXCEPT ![d][n] = made] /\ made \in Nat
      BY <2>1, <2>2
    <3>4. PICK v \in Nat : v = made
      BY <3>3
    <3>5. tables' = [tables EXCEPT ![d][n] = v]
      BY <3>3, <3>4
    <3>6. \A e \in Dir : \A m \in TableIdx : tables[e][m] # v
      BY <3>2, <3>4
    <3>7. /\ Owned' /\ tables' \in [Dir -> [TableIdx -> Nat]]
          /\ \A u \in Dir : \A m \in TableIdx :
               tables'[u][m] = IF u = d /\ m = n THEN v ELSE tables[u][m]
      <4>1. d \in Dir /\ n \in TableIdx /\ v \in Nat /\ OwnInv
        BY <3>4
      <4>. QED BY ONLY <3>1, <3>5, <3>6, <4>1, OneSlot
    <3>. QED BY <3>4, <3>7
  <2>4. /\ frames' \subseteq frames \cup {FirstFrame}
        /\ \A u \in Table : \A q \in Page :
             page'[u][q] = page[u][q] \/ (page[u][q].frame = 0
                /\ page'[u][q] = Mapped(FirstFrame) /\ u = made)
    BY <2>1, AllocKeeps
  <2>5. \A t \in Table : t > ntables' => \A q \in Page : page'[t][q] = Unmapped
    BY <2>1, <2>2, <2>4 DEF OwnInv
  <2>6. ntables' <= MaxTables /\ ntables' >= ntables
        /\ \A a \in Dir : \A m \in TableIdx : tables'[a][m] <= ntables'
    <3>1. \A a \in Dir : \A m \in TableIdx :
            tables[a][m] \in Nat /\ tables[a][m] <= ntables
      BY DEF OwnInv
    <3>. QED BY <2>1, <2>2, <2>3, <3>1
  <2>7. OwnInv'
    BY <2>1, <2>2, <2>3, <2>5, <2>6 DEF OwnInv
  <2>8. tables'[d][n] = made
    BY <2>3
  <2>. QED BY <1>2, <2>3, <2>4, <2>6, <2>7, <2>8
<1>. QED BY <1>1, <1>2

\* The frame that is given out is nobody's, or 0.
LEMMA FirstFrameIsNew ==
  FirstFrame = 0 \/ (FirstFrame # 0 /\ FirstFrame \in Frame \ frames)
  BY FirstFrameFacts DEF Unused

\* A page is mapped outside clone_directory.
LEMMA MapStep ==
  ASSUME PInv, NEW d \in Dir, NEW n \in TableIdx, NEW p, AllocPage(d, n, p),
         pc \in {"identity", "run"}, UNCHANGED <<pc, content, current_directory, ndirs>>
  PROVE  OwnInv' /\ LoopInv' /\ CopyInv'
<1>. USE OwnIndices
<1>1. FrameInv /\ OwnInv
  BY DEF PInv
<1>2. /\ OwnInv'
      /\ \A u \in Dir : \A m \in TableIdx :
           tables'[u][m] = tables[u][m] \/ (tables[u][m] = None /\ u = d /\ m = n)
      /\ frames' \subseteq frames \cup {FirstFrame}
      /\ \A u \in Table : \A q \in Page :
           page'[u][q] = page[u][q] \/ (page[u][q].frame = 0
              /\ page'[u][q] = Mapped(FirstFrame) /\ u = tables'[d][n])
  BY <1>1, AllocPageOwn
<1>3. LoopInv'
  <2>1. ASSUME NEW u \in Dir, HeapShared(u) PROVE HeapShared(u)'
    <3>1. tables[u][KernelHeap] # None
      BY <2>1 DEF HeapShared
    <3>2. tables'[u][KernelHeap] = tables[u][KernelHeap]
      BY <1>2, <3>1
    <3>. QED BY <2>1, <3>2 DEF HeapShared
  <2>2. ndirs \in Dir /\ 1..(ndirs - 1) \subseteq Dir
    BY <1>1 DEF OwnInv
  <2>. QED BY <2>1, <2>2 DEF PInv, LoopInv
<1>4. CopyInv'
  <2>1. frames' \subseteq Frame \cup {0} /\ content' \in [Frame -> Value]
    BY <1>2, FirstFrameIsNew DEF PInv, CopyInv
  <2>2. \A t \in Table : \A q \in Page : page'[t][q].frame # 0 => page'[t][q].present
    BY <1>2 DEF PInv, CopyInv, Mapped
  <2>. QED BY <2>1, <2>2 DEF CopyInv
<1>. QED BY <1>2, <1>3, <1>4

LEMMA MakeHeapTablesOwn ==
  ASSUME PInv, MakeHeapTables
  PROVE  OwnInv' /\ LoopInv' /\ CopyInv'
<1>1. /\ pc = "heap_tables" /\ pc' = "identity" /\ ntables = 0 /\ ndirs = 1 /\ ntables' = 1
      /\ tables' = [tables EXCEPT ![1][KernelHeap] = 1]
      /\ UNCHANGED <<frames, page, content, ndirs>>
  BY DEF MakeHeapTables, PInv, LoopInv, kernel_directory
<1>2. OwnInv /\ \A d \in Dir : \A n \in TableIdx : tables[d][n] = 0
  BY <1>1 DEF PInv, OwnInv
<1>3. KernelHeap \in TableIdx /\ 1 \in Dir /\ None = 0
  BY OwnIndices
<1>4. /\ Owned' /\ tables' \in [Dir -> [TableIdx -> Nat]]
      /\ \A u \in Dir : \A m \in TableIdx :
           tables'[u][m] = IF u = 1 /\ m = KernelHeap THEN 1 ELSE tables[u][m]
  <2>1. /\ OwnInv /\ tables[1][KernelHeap] = None
        /\ \A e \in Dir : \A m \in TableIdx : tables[e][m] # 1
    BY <1>2, <1>3
  <2>2. tables' = [tables EXCEPT ![1][KernelHeap] = 1]
    BY <1>1
  <2>3. KernelHeap \in TableIdx /\ 1 \in Dir /\ 1 \in Nat
    BY <1>3
  <2>. QED BY <2>1, <2>2, <2>3, OneSlot
<1>5. \A u \in Dir : \A m \in TableIdx : tables'[u][m] <= 1
  BY <1>2, <1>3, <1>4
<1>6. OwnInv'
  <2>1. \A t \in Table : t > 1 => \A p \in Page : page'[t][p] = Unmapped
    <3>1. \A t \in Table : t > 1 => t > ntables
      BY <1>1, OwnIndices
    <3>. QED BY <1>1, <1>2, <3>1 DEF OwnInv
  <2>2. 1 \in Nat /\ 1 <= MaxTables
    BY SizesAssumption
  <2>. QED BY <1>1, <1>2, <1>4, <1>5, <2>1, <2>2 DEF OwnInv
<1>7. LoopInv'
  BY <1>1, <1>3, <1>4 DEF LoopInv, HeapShared
<1>8. CopyInv'
  BY <1>1 DEF PInv, CopyInv
<1>. QED BY <1>6, <1>7, <1>8

\* clone_directory begins, of a directory that is complete.
LEMMA StartCloneStep ==
  ASSUME PInv, NEW from \in 1..ndirs, StartClone(from), HeapShared(ndirs),
         pc # "heap_tables", current_directory' \in 1..ndirs,
         UNCHANGED <<frames, tables, page, content, ntables>>
  PROVE  OwnInv' /\ LoopInv' /\ CopyInv'
<1>. USE OwnIndices
<1>1. /\ ndirs < MaxDirs /\ ndirs' = ndirs + 1 /\ src' = from /\ dir' = ndirs'
      /\ number' = 0 /\ pc' = "clone"
  BY DEF StartClone
<1>2. ndirs \in Nat /\ ndirs >= 1 /\ ndirs' \in Dir /\ 1..(ndirs - 1) \subseteq Dir
  BY <1>1, SizesAssumption DEF PInv, OwnInv, Dir
<1>3. OwnInv'
  <2>1. Owned'
    BY DEF PInv, OwnInv, Owned
  <2>. QED BY <1>2, <2>1 DEF PInv, OwnInv
<1>4. HeapShared(1) /\ \A d \in 1..(ndirs - 1) : HeapShared(d)
  BY DEF PInv, LoopInv
<1>5. HeapShared(1)' /\ \A d \in 1..(ndirs' - 1) : HeapShared(d)'
  BY <1>1, <1>2, <1>4 DEF HeapShared
<1>6. current_directory' \in 1..ndirs' /\ src' \in 1..(ndirs' - 1) /\ ~(number' > KernelHeap)
  BY <1>1, <1>2
<1>7. LoopInv'
  BY <1>1, <1>5, <1>6 DEF LoopInv
<1>8. CopyInv'
  <2>1. \A n \in TableIdx : ~(n < number')
    BY <1>1
  <2>. QED BY <1>1, <2>1 DEF PInv, CopyInv
<1>. QED BY <1>3, <1>7, <1>8

\* What clone_directory knows.
LEMMA CloneFacts ==
  ASSUME PInv, pc \in {"clone", "clone_table"}
  PROVE  /\ src \in Dir /\ src \in 1..(ndirs - 1) /\ dir = ndirs /\ dir \in Dir
         /\ dir # 1 /\ dir # src /\ number \in Nat /\ ndirs \in Nat
         /\ \A d \in 1..(ndirs - 1) : d \in Dir /\ d # dir /\ HeapShared(d)
         /\ HeapShared(1) /\ HeapShared(src)
         /\ number > KernelHeap => HeapShared(dir)
         /\ current_directory \in 1..ndirs
<1>. USE OwnIndices
<1>1. ndirs \in Dir /\ ndirs \in Nat /\ 1..(ndirs - 1) \subseteq Dir
  BY DEF PInv, OwnInv
<1>2. /\ src \in 1..(ndirs - 1) /\ dir = ndirs /\ number \in Nat
      /\ number > KernelHeap => HeapShared(ndirs)
      /\ \A d \in 1..(ndirs - 1) : HeapShared(d)
      /\ HeapShared(1) /\ current_directory \in 1..ndirs
  BY DEF PInv, LoopInv
<1>. QED BY <1>1, <1>2

\* One more slot of the new directory is done; what was copied before stays.
LEMMA SlotDone ==
  ASSUME PInv, pc \in {"clone", "clone_table"}, NEW v \in Nat, number \in TableIdx,
         v <= ntables,
         tables' = [tables EXCEPT ![dir][number] = v], number' = number + 1,
         pc' = "clone", UNCHANGED <<frames, page, content, current_directory, ndirs,
                                    ntables, src, dir, overrun>>,
         \/ v = None \/ v = tables[1][number]
         \/ \A e \in Dir : \A m \in TableIdx : tables[e][m] # v,
         number = KernelHeap => v = 1,
         Pointer(src, number) # None =>
           v # None /\ \A p \in Page : Copied(tables[src][number], v, p)
  PROVE  OwnInv' /\ LoopInv' /\ CopyInv'
<1>1. /\ Owned' /\ tables' \in [Dir -> [TableIdx -> Nat]]
      /\ \A u \in Dir : \A m \in TableIdx :
           tables'[u][m] = IF u = dir /\ m = number THEN v ELSE tables[u][m]
  <2>1. dir \in Dir /\ dir # 1 /\ OwnInv
    BY CloneFacts DEF PInv
  <2>. QED BY <2>1, OneSlot
<1>. USE OwnIndices, CloneFacts
<1>2. OwnInv'
  BY <1>1 DEF PInv, OwnInv
<1>3. LoopInv'
  <2>1. \A d \in 1..(ndirs - 1) : HeapShared(d)'
    BY <1>1 DEF HeapShared
  <2>2. HeapShared(1)'
    BY <1>1 DEF HeapShared
  <2>3. number' > KernelHeap => HeapShared(dir)'
    BY <1>1 DEF HeapShared
  <2>. QED BY <2>1, <2>2, <2>3 DEF LoopInv
<1>4. CopyInv'
  <2>1. \A u, w, p : Copied(u, w, p)' <=> Copied(u, w, p)
    BY DEF Copied, overrun
  <2>2. ASSUME NEW n \in TableIdx, n < number', Pointer(src, n)' # None
        PROVE  /\ tables'[ndirs][n] # None
               /\ \A p \in Page : Copied(tables'[src][n], tables'[ndirs][n], p)
    <3>1. tables'[src][n] = tables[src][n] /\ n \in Nat
      BY <1>1
    <3>2. Pointer(src, n) # None
      BY <2>2, <3>1 DEF Pointer, overrun
    <3>3. CASE n = number
      <4>1. tables'[ndirs][n] = v
        BY <1>1, <3>3
      <4>. QED BY <3>1, <3>2, <3>3, <4>1
    <3>4. CASE n # number
      <4>1. n < number /\ tables'[ndirs][n] = tables[ndirs][n]
        BY <1>1, <2>2, <3>1, <3>4
      <4>2. /\ tables[ndirs][n] # None
            /\ \A p \in Page : Copied(tables[src][n], tables[ndirs][n], p)
        BY <3>2, <4>1 DEF PInv, CopyInv
      <4>. QED BY <3>1, <4>1, <4>2
    <3>. QED BY <3>3, <3>4
  <2>3. (\A n \in TableIdx : n < number /\ Pointer(src, n) # None =>
           /\ tables[ndirs][n] # None
           /\ \A p \in Page : Copied(tables[src][n], tables[ndirs][n], p))'
    BY <2>1, <2>2
  <2>. QED BY <2>3 DEF PInv, CopyInv
<1>. QED BY <1>2, <1>3, <1>4

LEMMA CloneShareOwn ==
  ASSUME PInv, CloneShare
  PROVE  OwnInv' /\ LoopInv' /\ CopyInv'
<1>1. /\ pc = "clone" /\ number \in TableIdx /\ number' = number + 1 /\ pc' = "clone"
      /\ Pointer(src, number) = None \/ tables[1][number] = Pointer(src, number)
      /\ tables' = [tables EXCEPT ![dir][number] = Pointer(src, number)]
      /\ UNCHANGED <<frames, page, content, current_directory, ndirs, ntables, src,
                     dir, overrun>>
  BY DEF CloneShare, Shares, kernel_directory
<1>2. src \in Dir /\ HeapShared(src)
  BY <1>1, CloneFacts
<1>3. PICK v \in Nat :
        /\ v = Pointer(src, number) /\ v <= ntables
        /\ v # None => v = tables[src][number]
  <2>1. tables[src][number] \in Nat /\ tables[src][number] <= ntables /\ ntables \in Nat
    BY <1>1, <1>2 DEF PInv, OwnInv
  <2>2. Pointer(src, number) \in {0, tables[src][number]}
    BY DEF Pointer, None
  <2>. QED BY <2>1, <2>2 DEF None
<1>4. number = KernelHeap => v = 1
  BY <1>2, <1>3 DEF HeapShared, Pointer, Low, KernelHeap
<1>5. \A t \in Table : \A p \in Page : Copied(t, t, p)
  BY DEF Copied, PInv, CopyInv
<1>6. v # None => v \in Table
  BY <1>3, OwnIndices, SizesAssumption DEF PInv, OwnInv
<1>. QED BY <1>1, <1>3, <1>4, <1>5, <1>6, SlotDone

LEMMA CloneTableOwn ==
  ASSUME PInv, CloneTable
  PROVE  OwnInv' /\ LoopInv' /\ CopyInv'
<1>1. /\ pc = "clone" /\ pc' = "clone_table" /\ number \in TableIdx
      /\ Pointer(src, number) # None /\ Pointer(src, number) # tables[1][number]
      /\ ntables < MaxTables /\ ntables' = ntables + 1 /\ table' = ntables' /\ i' = 0
      /\ UNCHANGED <<frames, tables, content, current_directory, ndirs, src,
                     dir, number>>
      /\ Clears
  BY DEF CloneTable, Shares, kernel_directory, Clears
<1>. USE CloneFacts
<1>2. number # KernelHeap /\ tables[src][number] \notin {None, tables[1][number]}
  BY <1>1 DEF HeapShared, Pointer
<1>3. /\ ntables \in Nat /\ table' \in Nat /\ table' > ntables /\ table' \in Table
      /\ table' \in 1..ntables' /\ ntables' <= MaxTables /\ ntables' \in Nat
  BY <1>1, OwnIndices, SizesAssumption DEF PInv, OwnInv
<1>4. \A d \in Dir : \A n \in TableIdx :
        tables[d][n] \in Nat /\ tables[d][n] <= ntables
  BY DEF PInv, OwnInv
<1>15. /\ hit \subseteq hit' /\ forgotten \subseteq forgotten'
       /\ \A u \in Table : \A q \in Page :
            \/ page'[u][q] = page[u][q]
            \/ q = 0 /\ u \in hit' /\ u \in 3..ntables /\ page'[u][q] = Unmapped
  BY <1>1, ClearFacts DEF PInv, FrameInv
<1>16. \A u \in Table : u > ntables => \A q \in Page : page'[u][q] = Unmapped
  <2>1. \A u \in Table : u > ntables => u \notin 3..ntables
    BY <1>3, OwnIndices
  <2>. QED BY <1>15, <2>1 DEF PInv, OwnInv
<1>5. OwnInv'
  <2>1. \A d \in Dir : \A n \in TableIdx : tables'[d][n] <= ntables'
    BY <1>1, <1>3, <1>4
  <2>2. \A t \in Table : t > ntables' => \A p \in Page : page'[t][p] = Unmapped
    BY <1>1, <1>3, <1>16, OwnIndices
  <2>3. Owned'
    BY <1>1 DEF PInv, OwnInv, Owned
  <2>. QED BY <1>1, <1>3, <2>1, <2>2, <2>3 DEF PInv, OwnInv
<1>6. LoopInv'
  <2>1. \A d \in Dir : \A n \in TableIdx : tables'[d][n] # table'
    BY <1>1, <1>3, <1>4
  <2>2. \A p \in Page : page'[table'][p] = Unmapped
    BY <1>3, <1>16
  <2>3. \A d \in 1..(ndirs - 1) : HeapShared(d)'
    BY <1>1 DEF HeapShared
  <2>4. HeapShared(1)' /\ (number > KernelHeap => HeapShared(dir)')
    BY <1>1 DEF HeapShared
  <2>. QED BY <1>1, <1>2, <1>3, <2>1, <2>2, <2>3, <2>4 DEF LoopInv
<1>7. CopyInv'
  <2>1. Unmapped.frame = 0
    BY DEF Unmapped
  <2>2. \A u \in Table : \A p \in Page : page'[u][p].frame # 0 => page'[u][p].present
    BY <1>15, <2>1 DEF PInv, CopyInv
  <2>3. ASSUME NEW u \in Table, NEW w \in Table, NEW p \in Page, Copied(u, w, p)
        PROVE  Copied(u, w, p)'
    <3>1. page'[u][p].frame # 0 => page'[u][p] = page[u][p]
      BY <1>15, <2>1
    <3>2. page'[w][p] = page[w][p] \/ (p = 0 /\ w \in hit')
      BY <1>15
    <3>. QED BY <1>1, <1>15, <2>3, <3>1, <3>2 DEF Copied
  <2>4. ASSUME NEW n \in TableIdx, n < number, Pointer(src, n)' # None
        PROVE  /\ tables[ndirs][n] # None
               /\ \A p \in Page : Copied(tables[src][n], tables[ndirs][n], p)'
    <3>1. Pointer(src, n) # None /\ tables[src][n] # None
      BY <1>1, <1>15, <2>4 DEF Pointer
    <3>2. /\ tables[ndirs][n] # None
          /\ \A p \in Page : Copied(tables[src][n], tables[ndirs][n], p)
      BY <1>1, <2>4, <3>1 DEF PInv, CopyInv
    <3>3. tables[src][n] \in Table /\ tables[ndirs][n] \in Table
      BY <1>1, <1>3, <1>4, <3>1, <3>2, OwnIndices, SizesAssumption
    <3>4. PICK u \in Table, w \in Table : u = tables[src][n] /\ w = tables[ndirs][n]
      BY <3>3
    <3>. QED BY <1>1, <2>3, <3>2, <3>4
  <2>5. \A p \in Page : ~(p < i')
    BY <1>1, OwnIndices
  <2>6. frames' \subseteq Frame \cup {0} /\ content' \in [Frame -> Value]
    BY <1>1 DEF PInv, CopyInv
  <2>7. (\A n \in TableIdx : n < number /\ Pointer(src, n) # None =>
           /\ tables[ndirs][n] # None
           /\ \A p \in Page : Copied(tables[src][n], tables[ndirs][n], p))'
    BY <1>1, <2>4
  <2>. QED BY <2>2, <2>5, <2>6, <2>7 DEF CopyInv
<1>. QED BY <1>5, <1>6, <1>7

LEMMA CloneTableDoneOwn ==
  ASSUME PInv, CloneTableDone
  PROVE  OwnInv' /\ LoopInv' /\ CopyInv'
<1>1. /\ pc = "clone_table" /\ pc' = "clone" /\ i = NPages /\ number' = number + 1
      /\ tables' = [tables EXCEPT ![dir][number] = table]
      /\ UNCHANGED <<frames, page, content, current_directory, ndirs, ntables, src,
                     dir, overrun>>
  BY DEF CloneTableDone
<1>2. /\ number \in TableIdx /\ number # KernelHeap /\ table \in 1..ntables
      /\ \A d \in Dir : \A n \in TableIdx : tables[d][n] # table
  BY <1>1 DEF PInv, LoopInv
<1>3. table \in Nat /\ table <= ntables /\ table # None
  BY <1>2, OwnIndices DEF PInv, OwnInv
<1>4. \A p \in Page : Copied(tables[src][number], table, p)
  <2>1. \A p \in Page : p < i
    BY <1>1, SizesAssumption DEF Page
  <2>. QED BY <1>1, <2>1 DEF PInv, CopyInv
<1>5. pc \in {"clone", "clone_table"}
  BY <1>1
<1>. QED BY <1>1, <1>2, <1>3, <1>4, <1>5, SlotDone

LEMMA CloneDoneOwn ==
  ASSUME PInv, CloneDone
  PROVE  OwnInv' /\ LoopInv' /\ CopyInv'
<1>1. /\ pc = "clone" /\ number \notin TableIdx /\ pc' = "run"
      /\ current_directory' \in {dir, current_directory}
      /\ UNCHANGED <<frames, tables, page, content, ndirs, ntables>>
  BY DEF CloneDone
<1>. USE CloneFacts
<1>2. HeapShared(dir)
  BY <1>1, SizesAssumption DEF TableIdx, KernelHeap
<1>3. OwnInv'
  BY <1>1 DEF PInv, OwnInv, Owned
<1>4. \A d \in 1..(ndirs - 1) : HeapShared(d)'
  BY <1>1 DEF HeapShared
<1>5. HeapShared(1)' /\ HeapShared(ndirs)'
  BY <1>1, <1>2 DEF HeapShared
<1>6. LoopInv'
  BY <1>1, <1>4, <1>5 DEF LoopInv
<1>7. CopyInv'
  BY <1>1 DEF PInv, CopyInv
<1>. QED BY <1>3, <1>6, <1>7

\* Steps that change entries without a frame or contents, outside the clone.
LEMMA PlainStep ==
  ASSUME PInv, pc \in {"identity", "run"} /\ pc' = pc,
         UNCHANGED <<tables, ndirs, ntables>>,
         current_directory' = current_directory \/
           (pc = "run" /\ current_directory' \in 1..ndirs),
         frames' \subseteq frames, content' \in [Frame -> Value],
         \A t \in Table : \A p \in Page :
           page'[t][p] = page[t][p] \/ (t <= ntables /\ page'[t][p].frame = 0)
  PROVE  OwnInv' /\ LoopInv' /\ CopyInv'
<1>1. OwnInv'
  <2>1. Owned'
    BY DEF PInv, OwnInv, Owned
  <2>2. \A t \in Table : t > ntables => \A p \in Page : page'[t][p] = Unmapped
    <3>1. \A t \in Table : t > ntables => ~(t <= ntables) /\ \A p \in Page : page[t][p] = Unmapped
      BY OwnIndices DEF PInv, OwnInv
    <3>. QED BY <3>1
  <2>. QED BY <2>1, <2>2 DEF PInv, OwnInv
<1>2. LoopInv'
  BY DEF PInv, LoopInv, HeapShared
<1>3. CopyInv'
  BY DEF PInv, CopyInv
<1>. QED BY <1>1, <1>2, <1>3

\* clone_table copies a page into a frame that no page has.
LEMMA ClonePageOwn ==
  ASSUME PInv, ClonePage
  PROVE  OwnInv' /\ LoopInv' /\ CopyInv'
<1>. DEFINE t == tables[src][number]
            from == page[t][i].frame
<1>1. /\ pc = "clone_table" /\ i < NPages /\ i' = i + 1
      /\ UNCHANGED <<tables, current_directory, ndirs, ntables, pc, src, dir, number,
                     table, overrun>>
      /\ \/ from = 0 /\ UNCHANGED <<frames, page, content>>
         \/ /\ from # 0 /\ AllocFrame(table, i)
            /\ content' = [content EXCEPT ![page'[table][i].frame] = content[from]]
  BY DEF ClonePage, cloning
<1>2. /\ number \in TableIdx /\ number # KernelHeap /\ table \in 1..ntables /\ i \in Nat
      /\ t # None /\ t # tables[1][number]
      /\ \A d \in Dir : \A n \in TableIdx : tables[d][n] # table
      /\ \A p \in Page : p >= i => page[table][p] = Unmapped
  BY <1>1 DEF PInv, LoopInv
<1>3. /\ src \in Dir /\ dir \in Dir /\ dir = ndirs /\ number \in Nat
      /\ \A d \in 1..(ndirs - 1) : d \in Dir
  BY <1>1, CloneFacts
<1>4. /\ table \in Table /\ table \in Nat /\ table <= ntables /\ ntables \in Nat
      /\ i \in Page /\ Page \subseteq Nat /\ 1 \in Dir /\ Low \in TableIdx
  BY <1>1, <1>2, OwnIndices, SizesAssumption DEF PInv, OwnInv, Page
<1>5. \A d \in Dir : \A n \in TableIdx : tables[d][n] # None => tables[d][n] \in Table
  <2>. SUFFICES ASSUME NEW d \in Dir, NEW n \in TableIdx, tables[d][n] # None
                PROVE  tables[d][n] \in Table
    OBVIOUS
  <2>1. tables[d][n] \in Nat /\ tables[d][n] <= ntables /\ ntables <= MaxTables
    BY DEF PInv, OwnInv
  <2>. QED BY <1>4, <2>1, OwnIndices, SizesAssumption
<1>6. /\ page \in [Table -> [Page -> Entry]] /\ content \in [Frame -> Value]
      /\ frames \subseteq Frame \cup {0}
      /\ \A u \in Table : \A p \in Page : page[u][p].frame # 0 =>
           page[u][p].frame \in frames /\ page[u][p].present
  BY DEF PInv, FrameInv, CopyInv
<1>7. t \in Table /\ t # table
  BY <1>2, <1>3, <1>5
<1>. HIDE DEF t, from
<1>8. (\A u \in Table : \A p \in Page :
         ~(u = table /\ p = i) => page'[u][p] = page[u][p]) => OwnInv' /\ LoopInv'
  <2>. SUFFICES ASSUME \A u \in Table : \A p \in Page :
                         ~(u = table /\ p = i) => page'[u][p] = page[u][p]
                PROVE  OwnInv' /\ LoopInv'
    OBVIOUS
  <2>1. OwnInv'
    BY <1>1, <1>4, OwnIndices DEF PInv, OwnInv, Owned
  <2>2. \A p \in Page : p >= i' => page'[table][p] = Unmapped
    BY <1>1, <1>2, <1>4
  <2>3. LoopInv'
    BY <1>1, <1>2, <1>4, <2>2 DEF PInv, LoopInv, HeapShared
  <2>. QED BY <2>1, <2>3
<1>9. CASE from = 0
  <2>1. UNCHANGED <<frames, page, content>>
    BY <1>1, <1>9
  <2>2. \A p \in Page : p < i + 1 => p < i \/ p = i
    BY <1>2, <1>4
  <2>3. Copied(t, table, i)
    BY <1>9 DEF Copied, from
  <2>5. \A u, w : \A p \in Page : Copied(u, w, p)' <=> Copied(u, w, p)
    BY <1>1, <2>1 DEF Copied, overrun
  <2>6. CopyInv'
    BY <1>1, <2>1, <2>2, <2>3, <2>5 DEF PInv, CopyInv, t, Pointer, overrun
  <2>. QED BY <1>8, <2>1, <2>6
<1>10. CASE from # 0
  <2>. DEFINE f == FirstFrame
              CopiedNow(u, w, p) ==
                page'[u][p].frame # 0 =>
                  \/ /\ page'[w][p].present
                     /\ page'[w][p].frame # 0 =>
                          content'[page'[w][p].frame] = content'[page'[u][p].frame]
                  \/ p = 0 /\ w \in hit'
  <2>1. page[table][i] = Unmapped /\ Unmapped.frame = 0 /\ AllocFrame(table, i)
    BY <1>1, <1>2, <1>4, <1>10 DEF Unmapped
  <2>2. /\ page' \in [Table -> [Page -> Entry]]
        /\ frames' = frames \cup {f}
        /\ \A u \in Table : \A q \in Page :
             page'[u][q] = IF u = table /\ q = i THEN Mapped(f) ELSE page[u][q]
    BY <2>1, AllocEntry DEF PInv
  <2>3. /\ f \in Nat /\ (f = 0 \/ f \in Frame \ frames)
        /\ Mapped(f).frame = f /\ Mapped(f).present
    BY FirstFrameFacts, FirstFrameIsNew DEF Mapped
  <2>. HIDE DEF f
  <2>4. content' = [content EXCEPT ![f] = content[from]]
    BY <1>1, <1>4, <1>10, <2>2, <2>3
  <2>5. from \in frames /\ from \in Frame /\ page[t][i].frame = from
    BY <1>4, <1>6, <1>7, <1>10 DEF from
  <2>6. /\ content' \in [Frame -> Value] /\ frames' \subseteq Frame \cup {0}
    BY <1>6, <2>2, <2>3, <2>4, <2>5
  <2>7. \A u \in Table : \A p \in Page : page'[u][p].frame # 0 => page'[u][p].present
    BY <1>6, <2>2, <2>3
  <2>8. \A g : g \in frames /\ g # 0 => content'[g] = content[g]
    <3>1. ASSUME NEW g, g \in frames, g # 0 PROVE content'[g] = content[g]
      <4>1. g # f /\ g \in Frame
        BY <1>6, <2>3, <3>1
      <4>. QED BY <1>6, <2>4, <4>1
    <3>. QED BY <3>1
  <2>9. ASSUME NEW u \in Table, NEW w \in Table, NEW p \in Page,
               ~(u = table /\ p = i), ~(w = table /\ p = i), Copied(u, w, p)
        PROVE  CopiedNow(u, w, p)
    <3>1. page'[u][p] = page[u][p] /\ page'[w][p] = page[w][p]
      BY <2>2, <2>9
    <3>2. ASSUME NEW x \in Table, page[x][p].frame # 0
          PROVE  content'[page[x][p].frame] = content[page[x][p].frame]
      BY <1>6, <2>8, <3>2
    <3>. QED BY <1>1, <2>9, <3>1, <3>2 DEF Copied, overrun
  <2>10. CopiedNow(t, table, i)
    <3>1. page'[table][i] = Mapped(f) /\ page'[t][i] = page[t][i]
      BY <1>4, <1>7, <2>2
    <3>2. f # 0 => content'[f] = content[from] /\ content'[from] = content[from]
      BY <1>6, <1>10, <2>3, <2>4, <2>5, <2>8
    <3>. QED BY <2>3, <2>5, <3>1, <3>2
  <2>11. ASSUME NEW n \in TableIdx, n < number, Pointer(src, n) # None
         PROVE  /\ tables[ndirs][n] # None
                /\ \A p \in Page : CopiedNow(tables[src][n], tables[ndirs][n], p)
    <3>1. /\ tables[ndirs][n] # None /\ tables[src][n] # None
          /\ \A p \in Page : Copied(tables[src][n], tables[ndirs][n], p)
      BY <1>1, <2>11 DEF PInv, CopyInv, Pointer
    <3>2. /\ tables[src][n] \in Table \ {table} /\ tables[ndirs][n] \in Table \ {table}
      BY <1>2, <1>3, <1>5, <2>11, <3>1
    <3>. QED BY <2>9, <3>1, <3>2
  <2>12. ASSUME NEW p \in Page, p < i' PROVE CopiedNow(t, table, p)
    <3>1. CASE p = i
      BY <2>10, <3>1
    <3>2. CASE p # i
      <4>1. p < i
        BY <1>1, <1>4, <2>12, <3>2
      <4>2. Copied(t, table, p)
        BY <1>1, <4>1 DEF PInv, CopyInv, t
      <4>. QED BY <1>4, <1>7, <2>9, <3>2, <4>2
    <3>. QED BY <3>1, <3>2
  <2>13. CopyInv'
    <3>1. \A n \in TableIdx : n < number' /\ Pointer(src, n)' # None =>
            /\ tables'[ndirs'][n] # None
            /\ \A p \in Page : CopiedNow(tables'[src'][n], tables'[ndirs'][n], p)
      BY <1>1, <2>11 DEF Pointer, overrun
    <3>2. \A p \in Page : p < i' => CopiedNow(tables'[src'][number'], table', p)
      BY <1>1, <2>12 DEF t
    <3>. QED BY <2>6, <2>7, <3>1, <3>2 DEF CopyInv, Copied
  <2>. QED BY <1>8, <2>2, <2>13
<1>. QED BY <1>9, <1>10

\* free_frame leaves entries without a frame alone.
LEMMA FreeKeeps ==
  ASSUME FrameInv, OwnInv, NEW t, NEW p, FreeFrame(t, p)
  PROVE  /\ frames' \subseteq frames
         /\ \A u \in Table : \A q \in Page :
              page'[u][q] = page[u][q]
                \/ (u = t /\ u <= ntables /\ page'[u][q].frame = 0)
<1>1. CASE page[t][p].frame = 0
  BY <1>1 DEF FreeFrame
<1>2. CASE page[t][p].frame # 0
  <2>. DEFINE e == [page[t][p] EXCEPT !.frame = 0]
  <2>1. page' = [page EXCEPT ![t][p] = e] /\ frames' = frames \ {0}
    BY <1>2 DEF FreeFrame, ClearedFrame
  <2>2. page \in [Table -> [Page -> Entry]]
    BY DEF FrameInv
  <2>3. CASE t \in Table /\ p \in Page
    <3>1. e \in Entry /\ e.frame = 0
      BY <2>2, <2>3 DEF Entry
    <3>. HIDE DEF e
    <3>2. \A u \in Table : \A q \in Page :
            page'[u][q] = IF u = t /\ q = p THEN e ELSE page[u][q]
      BY <2>1, <2>2, <3>1, OneEntry
    <3>3. t <= ntables
      <4>1. t \in Nat /\ ntables \in Nat
        BY <2>3, OwnIndices DEF OwnInv
      <4>2. Unmapped.frame = 0
        BY DEF Unmapped
      <4>. QED BY <1>2, <2>3, <4>1, <4>2 DEF OwnInv
    <3>. QED BY <2>1, <3>1, <3>2, <3>3
  <2>4. CASE ~(t \in Table /\ p \in Page)
    <3>. HIDE DEF e
    <3>1. page' = page
      BY <2>1, <2>2, <2>4, EntryOutside
    <3>. QED BY <2>1, <3>1
  <2>. QED BY <2>3, <2>4
<1>. QED BY <1>1, <1>2

\* The heap is where it has tables.
LEMMA NextHeap == HeapInv /\ [Next]_vars => HeapInv'
<1>. SUFFICES ASSUME HeapInv, [Next]_vars PROVE HeapInv'
  OBVIOUS
<1>1. heap_pages \in Nat /\ \A k \in 0..(heap_pages - 1) : HeapTable(k) \in TableIdx \ {Low}
  BY DEF HeapInv
<1>2. CASE UNCHANGED heap_pages
  BY <1>2 DEF HeapInv, HeapTable
<1>3. CASE ShrinkHeap
  <2>1. heap_pages' = heap_pages - 1 /\ heap_pages > 1
    BY <1>3 DEF ShrinkHeap
  <2>2. heap_pages' \in Nat /\ \A k \in 0..(heap_pages' - 1) : k \in 0..(heap_pages - 1)
    BY <1>1, <2>1
  <2>. QED BY <1>1, <2>2 DEF HeapInv, HeapTable
<1>4. CASE MapHeap \/ GrowHeap
  <2>1. heap_pages' = heap_pages + 1
    BY <1>4 DEF MapHeap, GrowHeap
  <2>2. HeapTable(heap_pages) \in TableIdx \ {Low}
    <3>1. heap_pages \div NPages \in Nat
      BY <1>1, SizesAssumption
    <3>2. CASE GrowHeap
      BY <3>1, <3>2, SizesAssumption DEF GrowHeap, HeapTable, KernelHeap, TableIdx, Low
    <3>3. CASE MapHeap
      <4>1. heap_pages < NPages
        BY <1>1, <3>3, SizesAssumption DEF MapHeap
      <4>2. HeapTable(heap_pages) = KernelHeap
        BY <1>1, <4>1, SizesAssumption DEF HeapTable, KernelHeap
      <4>. QED BY <4>2, Indices
    <3>. QED BY <1>4, <3>2, <3>3
  <2>3. heap_pages' \in Nat
        /\ \A k \in 0..(heap_pages' - 1) : k \in 0..(heap_pages - 1) \/ k = heap_pages
    BY <1>1, <2>1
  <2>. QED BY <1>1, <2>2, <2>3 DEF HeapInv, HeapTable
<1>. QED
  BY <1>2, <1>3, <1>4 DEF Next, vars, MakeHeapTables, MapIdentity, EnablePaging, CloneShare,
     CloneTable, ClonePage, CloneTableDone, CloneDone, ForkClone, Switch, MapStack, Write

LEMMA NextOwn == PInv /\ [Next]_vars => PInv'
<1>. SUFFICES ASSUME PInv, [Next]_vars PROVE PInv'
  OBVIOUS
<1>1. FrameInv /\ FrameInv' /\ OwnInv /\ heap_pages \in Nat
  BY NextFrames DEF PInv, HeapInv
<1>2. HeapInv'
  BY NextHeap DEF PInv
<1>3. SUFFICES OwnInv' /\ LoopInv' /\ CopyInv'
  BY <1>1, <1>2 DEF PInv
<1>4. CASE MapIdentity
  BY <1>4, OwnIndices, MapStep DEF MapIdentity
<1>5. CASE MapHeap
  BY <1>5, OwnIndices, MapStep DEF MapHeap
<1>6. CASE GrowHeap
  <2>1. /\ pc = "run" /\ AllocPage(1, HeapTable(heap_pages), heap_pages % NPages)
        /\ UNCHANGED <<pc, content, current_directory, ndirs>>
        /\ HeapTable(heap_pages) < Stack
    BY <1>6 DEF GrowHeap, kernel_directory
  <2>2. HeapTable(heap_pages) \in TableIdx
    <3>1. heap_pages \div NPages \in Nat
      BY <1>1, SizesAssumption
    <3>. QED BY <2>1, <3>1, SizesAssumption DEF HeapTable, KernelHeap, TableIdx
  <2>3. 1 \in Dir
    BY OwnIndices
  <2>. QED BY <2>1, <2>2, <2>3, MapStep
<1>7. CASE \E p \in Page : MapStack(p)
  <2>1. PICK p \in Page : MapStack(p)
    BY <1>7
  <2>2. current_directory \in Dir /\ Stack \in TableIdx
    BY <2>1, OwnIndices DEF MapStack, PInv, OwnInv, LoopInv
  <2>3. /\ pc = "run" /\ AllocPage(current_directory, Stack, p)
        /\ UNCHANGED <<pc, content, current_directory, ndirs>>
    BY <2>1 DEF MapStack
  <2>. QED BY <2>2, <2>3, MapStep
<1>8. CASE EnablePaging
  <2>1. /\ pc = "identity" /\ StartClone(1) /\ current_directory' = 1
        /\ UNCHANGED <<frames, tables, page, content, ntables>>
    BY <1>8 DEF EnablePaging, kernel_directory
  <2>2. ndirs = 1 /\ 1 \in 1..ndirs /\ HeapShared(ndirs)
    BY <2>1 DEF PInv, LoopInv
  <2>. QED BY <2>1, <2>2, StartCloneStep
<1>9. CASE ForkClone
  <2>1. /\ pc = "run" /\ StartClone(current_directory)
        /\ UNCHANGED <<frames, tables, page, content, current_directory, ntables>>
    BY <1>9 DEF ForkClone
  <2>2. current_directory \in 1..ndirs /\ HeapShared(ndirs)
    BY <2>1 DEF PInv, LoopInv
  <2>. QED BY <2>1, <2>2, StartCloneStep
<1>10. CASE ShrinkHeap
  <2>1. PICK t, p : FreeFrame(t, p)
    BY <1>10 DEF ShrinkHeap
  <2>2. /\ pc = "run" /\ UNCHANGED <<tables, content, current_directory, ndirs, ntables, pc>>
    BY <1>10 DEF ShrinkHeap
  <2>3. /\ frames' \subseteq frames
        /\ \A u \in Table : \A q \in Page :
             page'[u][q] = page[u][q] \/ (u <= ntables /\ page'[u][q].frame = 0)
    BY <1>1, <2>1, FreeKeeps
  <2>. QED BY <2>2, <2>3, PlainStep DEF PInv, CopyInv
<1>11. CASE \E d \in Dir : Switch(d)
  <2>1. /\ pc = "run" /\ current_directory' \in 1..ndirs
        /\ UNCHANGED <<frames, tables, page, content, ndirs, ntables, pc>>
    BY <1>1, <1>11, OwnIndices DEF Switch, OwnInv
  <2>. QED BY <2>1, PlainStep DEF PInv, CopyInv
<1>12. CASE \E n \in TableIdx, p \in Page, v \in Value : Write(n, p, v)
  <2>1. /\ pc = "run" /\ \E f : \E v \in Value : content' = [content EXCEPT ![f] = v]
        /\ UNCHANGED <<frames, tables, page, current_directory, ndirs, ntables, pc>>
    BY <1>12 DEF Write
  <2>2. content' \in [Frame -> Value]
    BY <2>1 DEF PInv, CopyInv
  <2>. QED BY <2>1, <2>2, PlainStep
<1>13. CASE UNCHANGED vars
  BY <1>1, <1>13 DEF vars, cloning, PInv, OwnInv, Owned, LoopInv, HeapShared, CopyInv, Copied,
     Pointer, overrun
<1>. QED
  BY <1>4, <1>5, <1>6, <1>7, <1>8, <1>9, <1>10, <1>11, <1>12, <1>13,
     MakeHeapTablesOwn, CloneShareOwn, CloneTableOwn, ClonePageOwn, CloneTableDoneOwn,
     CloneDoneOwn DEF Next

LEMMA InitOwn == Init => PInv
<1>. SUFFICES ASSUME Init PROVE PInv
  OBVIOUS
<1>1. /\ frames \subseteq Frame /\ content = [f \in Frame |-> Blank] /\ ndirs = 1 /\ ntables = 0
      /\ heap_pages = 0 /\ pc = "heap_tables"
      /\ tables = [d \in Dir |-> [n \in TableIdx |-> None]]
      /\ page = [t \in Table |-> [p \in Page |-> Unmapped]]
  BY DEF Init
<1>2. /\ tables \in [Dir -> [TableIdx -> Nat]]
      /\ \A d \in Dir : \A n \in TableIdx : tables[d][n] = 0
      /\ \A t \in Table : \A p \in Page : page[t][p] = Unmapped /\ page[t][p].frame = 0
  BY <1>1 DEF None, Unmapped
<1>3. OwnInv
  BY <1>1, <1>2, OwnIndices, SizesAssumption DEF OwnInv, Owned
<1>4. LoopInv
  BY <1>1 DEF LoopInv
<1>5. CopyInv
  BY <1>1, <1>2, ValuesAssumption DEF CopyInv
<1>6. HeapInv
  BY <1>1 DEF HeapInv
<1>. QED BY <1>3, <1>4, <1>5, <1>6, InitFrames DEF PInv

LEMMA PInvariance == Spec => []PInv
  BY InitOwn, NextOwn, PTL DEF Spec

\* fork copies: when clone_directory returns, every page that the parent has a
\* frame for the child has, with the same contents where there was a frame for
\* the copy, but for first pages that the clearing of a later table has lost.
THEOREM CloneTheorem == Spec => []CloneIsCopy
<1>1. PInv => CloneIsCopy
  <2>. SUFFICES ASSUME PInv, pc = "clone", number \notin TableIdx,
                       NEW n \in TableIdx, Pointer(src, n) # None
                PROVE  /\ tables[dir][n] # None
                       /\ \A p \in Page : page[tables[src][n]][p].frame # 0 =>
                            LET copy == page[tables[dir][n]][p] IN
                            \/ copy.present
                               /\ (copy.frame # 0 => Seen(dir, n, p) = Seen(src, n, p))
                            \/ p = 0 /\ tables[dir][n] \in hit
    BY DEF CloneIsCopy
  <2>1. dir = ndirs /\ number \in Nat
    BY CloneFacts
  <2>2. n < number
    BY <2>1, SizesAssumption DEF TableIdx
  <2>3. /\ tables[ndirs][n] # None
        /\ \A p \in Page : Copied(tables[src][n], tables[ndirs][n], p)
    BY <2>2 DEF PInv, CopyInv
  <2>. QED BY <2>1, <2>3 DEF Copied, Seen
<1>. QED BY <1>1, PInvariance, PTL

\* Whatever a task does, maps, stores or makes of the heap, the private pages
\* of the other tasks keep their contents.
THEOREM SpacesTheorem == Spec => MemorySpacesApart
<1>. DEFINE Apart == pc = "run" =>
       \A d \in Dir \ {current_directory} : \A n \in TableIdx : Private(d, n) =>
         \A p \in Page : page[tables[d][n]][p].frame # 0 =>
           Seen(d, n, p)' = Seen(d, n, p)
<1>1. ASSUME PInv, Next, pc = "run", NEW d \in Dir \ {current_directory}, NEW n \in TableIdx,
             Private(d, n), NEW p \in Page, page[tables[d][n]][p].frame # 0
      PROVE  Seen(d, n, p)' = Seen(d, n, p)
  <2>. DEFINE t == tables[d][n]
              f == page[t][p].frame
  <2>1. /\ t # None /\ t # tables[1][n] /\ t \in Table /\ f # 0 /\ 1 \in Dir
        /\ \A e \in Dir : \A m \in TableIdx : tables[e][m] = t => e = d /\ m = n
        /\ FrameInv /\ OwnInv
    <3>1. t # None /\ t # tables[1][n]
      BY <1>1 DEF Private, kernel_directory
    <3>2. t \in Nat /\ t <= ntables /\ ntables \in Nat /\ ntables <= MaxTables
      BY <1>1 DEF PInv, OwnInv
    <3>3. t \in Table
      BY <3>1, <3>2, OwnIndices, SizesAssumption
    <3>4. /\ d \in Dir /\ FrameInv /\ OwnInv /\ 1 \in Dir
          /\ \A e \in Dir : \A m \in TableIdx : t # None /\ t = tables[e][m] =>
               n = m /\ (d = e \/ t = tables[1][n])
      <4>1. Owned /\ FrameInv /\ OwnInv
        BY <1>1 DEF PInv, OwnInv
      <4>. QED BY <1>1, <4>1, OwnIndices DEF Owned
    <3>. QED BY <1>1, <3>1, <3>3, <3>4
  <2>. HIDE DEF t
  <2>2. SUFFICES ASSUME TRUE PROVE /\ tables'[d][n] = t /\ page'[t][p].frame = f /\ content'[f] = content[f]
    BY DEF Seen, t, f
  <2>3. ASSUME NEW e \in Dir, NEW m \in TableIdx, NEW q, AllocPage(e, m, q),
               UNCHANGED <<ndirs, content>>
        PROVE  tables'[d][n] = t /\ page'[t][p].frame = f /\ content'[f] = content[f]
    BY <2>1, <2>3, AllocPageOwn DEF t
  <2>4. CASE \E q \in Page : MapStack(q)
    <3>1. PICK q \in Page : MapStack(q)
      BY <2>4
    <3>2. current_directory \in Dir /\ Stack \in TableIdx
      BY <1>1, <2>1, OwnIndices DEF PInv, OwnInv, LoopInv
    <3>. QED BY <2>3, <3>1, <3>2 DEF MapStack
  <2>5. CASE GrowHeap
    <3>1. heap_pages \div NPages \in Nat
      BY <1>1, SizesAssumption DEF PInv, HeapInv
    <3>2. HeapTable(heap_pages) \in TableIdx
      BY <2>5, <3>1, SizesAssumption DEF GrowHeap, HeapTable, KernelHeap, TableIdx
    <3>. QED BY <2>1, <2>3, <2>5, <3>2 DEF GrowHeap, kernel_directory
  <2>6. CASE ShrinkHeap
    <3>. DEFINE h == HeapTable(heap_pages - 1)
    <3>1. PICK q : FreeFrame(tables[1][h], q)
      BY <2>6 DEF ShrinkHeap, kernel_directory
    <3>2. heap_pages - 1 \in 0..(heap_pages - 1)
      BY <1>1, <2>6 DEF ShrinkHeap, PInv, HeapInv
    <3>3. h \in TableIdx
      BY <1>1, <3>2 DEF PInv, HeapInv
    <3>4. tables[1][h] # t
      BY <2>1, <3>3
    <3>5. page'[t][p] = page[t][p]
      BY <2>1, <3>1, <3>4, FreeKeeps
    <3>. QED BY <2>6, <3>5 DEF ShrinkHeap, t
  <2>7. CASE \E m \in TableIdx, q \in Page, v \in Value : Write(m, q, v)
    <3>1. PICK m \in TableIdx, q \in Page, v \in Value : Write(m, q, v)
      BY <2>7
    <3>. DEFINE u == tables[current_directory][m]
    <3>2. current_directory \in Dir
      BY <1>1, OwnIndices DEF PInv, OwnInv, LoopInv
    <3>3. u # t /\ u # None
      BY <1>1, <2>1, <3>1, <3>2 DEF Write
    <3>4. u \in Table
      <4>1. u \in Nat /\ u <= ntables /\ ntables \in Nat /\ ntables <= MaxTables
        BY <3>2, <2>1 DEF OwnInv
      <4>. QED BY <3>3, <4>1, OwnIndices, SizesAssumption
    <3>5. content' = [content EXCEPT ![page[u][q].frame] = v] /\ UNCHANGED <<tables, page>>
      BY <3>1 DEF Write
    <3>6. page[u][q].frame # f
      BY <2>1, <3>3, <3>4 DEF FrameInv, FramesExclusive
    <3>7. content \in [Frame -> Value]
      BY <1>1 DEF PInv, CopyInv
    <3>. QED BY <3>5, <3>6, <3>7 DEF t
  <2>8. CASE UNCHANGED <<tables, page, content>>
    BY <2>8 DEF t
  <2>. QED BY <1>1, <2>4, <2>5, <2>6, <2>7, <2>8 DEF Next, MakeHeapTables, MapIdentity, MapHeap,
     EnablePaging, CloneShare, CloneTable, ClonePage, CloneTableDone, CloneDone, ForkClone, Switch
<1>2. PInv /\ [Next]_vars => [Apart]_vars
  BY <1>1
<1>. QED BY <1>2, PInvariance, PTL DEF Spec, MemorySpacesApart

\* As far as the heap's first table reaches, which the kernel had when its
\* directory was cloned, every task's directory shows all of it, and the same.
THEOREM HeapTheorem == Spec => []HeapSeenEverywhere
<1>1. PInv => HeapSeenEverywhere
  <2>. SUFFICES ASSUME PInv, pc = "run", NEW d \in 2..ndirs
                PROVE  /\ tables[d][KernelHeap] # None
                       /\ tables[d][KernelHeap] = tables[1][KernelHeap]
    BY DEF HeapSeenEverywhere, kernel_directory
  <2>1. HeapShared(1) /\ HeapShared(d)
    BY OwnIndices DEF PInv, OwnInv, LoopInv
  <2>. QED BY <2>1 DEF HeapShared, None
<1>. QED BY <1>1, PInvariance, PTL

=============================================================================
