---------------------------- MODULE HeapContract ----------------------------
(***************************************************************************)
(* The calls under which the heap of src/kheap.c keeps its promises.       *)
(* alloc cuts blocks out of the first hole of its index whichever hole its *)
(* search found, expand grows a hole that may not be the last thing in the *)
(* heap, free leaves the footer of a hole it absorbs on the right alone    *)
(* and looks beyond the end of the heap, contract rounds wrongly: a caller *)
(* that keeps the six clauses below meets none of this.  Waived names the  *)
(* clauses that callers do not keep.                                       *)
(***************************************************************************)
EXTENDS Heap

CONSTANT Waived

ASSUME WaivedAssumption == Waived \subseteq {"A1", "A2", "A3", "F1", "F2", "F3"}

\* The hole a request will be cut out of, and its size, grown if need be.
Source(size, align) ==
  LET bare == size + Overhead
      growth == ExpandTo(end - Start + bare) - (end - Start)
  IN IF Found(bare, align) THEN [at |-> Chosen, size |-> SizeAt(mem, Chosen)]
     ELSE IF index = <<>> THEN [at |-> end, size |-> growth]
     ELSE [at |-> Chosen, size |-> SizeAt(mem, Chosen) + growth]

\* A1: if a hole serves the request, the first of the index does.
A1(size, align) ==
  Found(size + Overhead, align) => Fits(mem, Chosen, size + Overhead, align)

\* A2: if none does, there is none but one that reaches the end of the heap.
A2(size, align) ==
  ~Found(size + Overhead, align) =>
    \/ index = <<>>
    \/ Len(index) = 1 /\ Chosen + SizeAt(mem, Chosen) = end

\* A3: in front of an aligned block, and behind it, is room for a hole; behind
\* it there may also be nothing.
A3(size, align) ==
  align =>
    LET bare == size + Overhead
        from == Source(size, align)
        front == Page - (from.at % Page) - Hdr
    IN /\ front >= Overhead
       /\ from.size >= bare + Overhead
       /\ from.size - front = bare \/ from.size - front >= bare + Overhead

After(p) == p - Hdr + SizeAt(mem, p - Hdr)

\* F1: the block is not the last thing in the heap.
F1(p) == After(p) < end

\* F2: if the last hole follows it, both start below the size to which the
\* heap contracts at most.
F2(p) ==
  LET before == p - Hdr - Ftr
      first == IF Unifies(mem, before) THEN At(mem, before).header ELSE p - Hdr
  IN HoleAt(mem, After(p)) => first - Start + Overhead <= MinSize

\* F3: no other hole follows it.
F3(p) ==
  HoleAt(mem, After(p)) => After(p) + SizeAt(mem, After(p)) = end

Keeps(clause, holds) == clause \in Waived \/ holds

ContractNext ==
  \/ \E size \in Sizes, align \in Aligns :
       /\ Keeps("A1", A1(size, align)) /\ Keeps("A2", A2(size, align))
       /\ Keeps("A3", A3(size, align))
       /\ CallAlloc(size, align)
  \/ Expand
  \/ Take
  \/ \E p \in DOMAIN live :
       /\ Keeps("F1", F1(p)) /\ Keeps("F2", F2(p)) /\ Keeps("F3", F3(p))
       /\ Free(p)

ContractSpec == Init /\ [][ContractNext]_vars

\* The calls the kernel makes as it is: nothing in it reaches kfree.
AllocOnly ==
  \/ \E size \in Sizes, align \in Aligns : CallAlloc(size, align)
  \/ Expand
  \/ Take

AllocOnlySpec == Init /\ [][AllocOnly]_vars

-----------------------------------------------------------------------------
\* The addresses met by stepping from Start over one size after the other.
Boundaries ==
  LET nth[n \in 0..(end - Start)] ==
        IF n = 0 THEN Start
        ELSE LET a == nth[n - 1] IN IF a < end THEN a + SizeAt(mem, a) ELSE a
  IN Range(nth)

Headers == Boundaries \ {end}

\* No ASSERT of the heap stops the kernel and the heap touches no page without
\* a frame.
NeverStops == status = "ok"

\* The heap is tiled: stepping over blocks and holes by their sizes meets a
\* header each time and ends at end exactly.
Tiled ==
  /\ end \in Boundaries
  /\ \A a \in Headers : mem[a].kind = "header" /\ mem[a].size >= Overhead

\* The index lists every hole once: no memory is lost to the search.
IndexComplete ==
  /\ Range(index) = {a \in Headers : mem[a].is_hole}
  /\ \A i, j \in 1..Len(index) : index[i] = index[j] => i = j

\* A caller's block is the whole inside of a block header and its footer, and
\* nothing the heap writes lands in it.
BlocksIntact ==
  \A p \in DOMAIN live :
    LET own == p - Hdr IN
    /\ own \in Headers /\ ~mem[own].is_hole
    /\ live[p] + Overhead <= mem[own].size
    /\ mem[own + mem[own].size - Ftr] = Footer(own)
    /\ \A a \in p..(p + live[p] - 1) : mem[a] = Zero

A == INSTANCE Allocator WITH Low <- Start, High <- MaxAddr

\* The heap is an allocator: blocks handed out were free and aligned.
IsAllocator == A!Spec

-----------------------------------------------------------------------------
(* What the comments of the code promise and it does not do *)

Cells(p, size) == p..(p + size - 1)

\* "Find the smallest hole that will fit." (kheap.c:190): the block handed out
\* lies in it, and so shares no cell with a block in use.
HandsOutHole ==
  [][\A p \in DOMAIN live' : p \notin DOMAIN live \/ live'[p] # live[p] =>
       \A q \in DOMAIN live : Cells(p, live'[p]) \cap Cells(q, live[q]) = {}]_vars

=============================================================================
