-------------------------------- MODULE Heap --------------------------------
(***************************************************************************)
(* The kernel heap of src/kheap.c: create_heap, alloc with its search,     *)
(* expansion and splitting, free with its unification and contraction.     *)
(*                                                                         *)
(* Memory is an array of cells.  A header is one cell and a footer is one  *)
(* cell; a cell that is neither holds zero words, which no magic number    *)
(* test accepts (callers store zeroes in their blocks).  Page is the page  *)
(* size in cells and arithmetic on u32 is arithmetic modulo Word.  end is  *)
(* end_address; mapped is the set of pages that have a frame.  An access   *)
(* to another page sets status to "stray": the processor faults, or reads  *)
(* and writes frame 0 if the page has lost its frame to contract.          *)
(*                                                                         *)
(* live is history: the blocks callers hold, by the address they were      *)
(* given.  Bounds: requests have a size in Sizes, and no request is made   *)
(* that could take the heap past MaxAddr, where expand asserts.            *)
(***************************************************************************)
EXTENDS Integers, OrderedArray

CONSTANTS Page, Start, InitialSize, MinSize, MaxAddr, Word, Sizes, Aligns

Hdr == 1
Ftr == 1
Overhead == Hdr + Ftr

ASSUME LayoutAssumption ==
  /\ Page \in Nat /\ Page > Overhead /\ Start \in Nat \ {0}
  /\ InitialSize \in Nat \ {0} /\ MinSize \in Nat /\ MaxAddr \in Nat /\ Word \in Nat
  /\ Start % Page = 0 /\ InitialSize % Page = 0 /\ MinSize % Page = 0
  /\ MinSize <= InitialSize /\ Start + InitialSize <= MaxAddr /\ 2 * MaxAddr < Word
  /\ Sizes \subseteq Nat /\ Aligns \subseteq BOOLEAN

VARIABLES mem, index, end, mapped, req, status, live

vars == <<mem, index, end, mapped, req, status, live>>

Addr == 0..(MaxAddr - 1)
PageOf(a) == a \div Page
Sub(a, b) == (a - b) % Word
Signed(n) == IF n >= Word \div 2 THEN n - Word ELSE n

Hole(n) == [kind |-> "header", is_hole |-> TRUE, size |-> n]
Block(n) == [kind |-> "header", is_hole |-> FALSE, size |-> n]
Footer(h) == [kind |-> "footer", header |-> h]
Zero == [kind |-> "zero", is_hole |-> FALSE, size |-> 0]

\* Memory outside the model's range reads as zero and cannot be written.
At(m, a) == IF a \in Addr THEN m[a] ELSE Zero
Put(m, a, c) == IF a \in Addr THEN [m EXCEPT ![a] = c] ELSE m
SizeAt(m, a) == IF At(m, a).kind = "header" THEN At(m, a).size ELSE 0
HoleAt(m, a) == At(m, a).kind = "header" /\ At(m, a).is_hole
KeyIn(m) == [a \in 0..(Word - 1) |-> SizeAt(m, a)]

Touched(S) == IF \A a \in S : PageOf(a) \in mapped THEN "ok" ELSE "stray"

None == [size |-> 0, align |-> FALSE, pending |-> FALSE]

\* create_heap: one hole, whose footer is not written.
Init ==
  /\ mem = [a \in Addr |-> IF a = Start THEN Hole(InitialSize) ELSE Zero]
  /\ index = <<Start>>
  /\ end = Start + InitialSize
  /\ mapped = 0..PageOf(Start + InitialSize - 1)
  /\ req = None /\ status = "ok" /\ live = <<>>

-----------------------------------------------------------------------------
(* find_smallest_hole, expand and contract *)

\* The cells skipped so that the data of a block in the hole at a is aligned.
Offset(a) == IF a + Hdr >= Page THEN (Page - (a + Hdr)) % Page ELSE 0

Fits(m, a, size, align) ==
  IF align THEN Signed(SizeAt(m, a)) - Offset(a) >= size ELSE SizeAt(m, a) >= size

Found(size, align) == \E i \in 1..Len(index) : Fits(mem, index[i], size, align)

\* The page boundary after n, one page too far when n is on one already.
ExpandTo(n) == IF n >= Page THEN (n \div Page) * Page + Page ELSE n

\* new_size & 0x1000 keeps one bit of the size, not its page.
ContractTo(n) ==
  LET rounded == IF (n \div Page) % 2 = 1 THEN 2 * Page ELSE n
  IN IF rounded < MinSize THEN MinSize ELSE rounded

BackedLate(old, new) == (PageOf(old) + 1)..PageOf(new - 1)   \* mutant
\* The pages to which expand gives frames.
Backed(old, new) == PageOf(old)..PageOf(new - 1)

\* The pages whose frames contract frees: from the last one down, as long as
\* the offset is above (not at) the new size.
Released(old, new) ==
  {PageOf(Start + old - k * Page) : k \in {k \in 1..(old \div Page) :
                                             new < old - k * Page}}

-----------------------------------------------------------------------------
(* alloc *)

Bare == req.size + Overhead

CallAlloc(size, align) ==
  /\ status = "ok" /\ ~req.pending
  /\ \/ Found(size + Overhead, align)
     \/ Start + ExpandTo(end - Start + size + Overhead) <= MaxAddr
  /\ req' = [size |-> size, align |-> align, pending |-> TRUE]
  /\ UNCHANGED <<mem, index, end, mapped, status, live>>

\* No hole fits: the heap grows, and the hole that starts last is taken to be
\* the one that reaches its end.
Expand ==
  /\ status = "ok" /\ req.pending /\ ~Found(Bare, req.align)
  /\ LET new == Start + ExpandTo(end - Start + Bare)
         last == Max(Range(index))
         hole == IF index = <<>> THEN end ELSE last
         size == IF index = <<>> THEN new - end
                 ELSE SizeAt(mem, last) + (new - end)
     IN IF new > MaxAddr
        THEN status' = "assert" /\ UNCHANGED <<mem, index, end, mapped>>
        ELSE /\ mem' = Put(Put(mem, hole, Hole(size)),
                           hole + size - Ftr, Footer(hole))
             /\ index' = IF index = <<>> THEN <<hole>> ELSE index
             /\ end' = new
             /\ mapped' = mapped \cup Backed(end, new)
             /\ UNCHANGED status
  /\ UNCHANGED <<req, live>>

BlockSizeExact(hole_size, bare) == bare     \* mutant: leaves a tiny hole
BlockSize(hole_size, bare) ==
  IF Sub(hole_size, bare) < Overhead THEN hole_size ELSE bare

KeptAll(split) == index                     \* mutant: the hole stays listed
\* The index without the hole used, unless its front remains one.
Kept(split) == IF split THEN index ELSE Tail(index)

\* The search succeeded; the block is cut out of the FIRST hole of the index,
\* not out of the hole the search found (iterator is still 0).
Chosen == Head(index)

Take ==
  /\ status = "ok" /\ req.pending /\ Found(Bare, req.align)
  /\ LET orig == Chosen
         orig_size == SizeAt(mem, orig)
         new_size == BlockSize(orig_size, Bare)
         size == Sub(new_size, Overhead)
         split == req.align /\ orig >= Page
         front == Sub(Page - (orig % Page), Hdr)
         block == IF split THEN orig + front ELSE orig
         rest == Sub(IF split THEN Sub(orig_size, front) ELSE orig_size,
                     new_size)
         hole == block + Hdr + size + Ftr
         hole_footer == (hole + rest - Ftr) % Word
         fronted == IF split
                    THEN Put(Put(mem, orig, Hole(front)), block - Ftr,
                             Footer(orig))
                    ELSE mem
         blocked == Put(Put(fronted, block, Block(new_size)),
                        block + Hdr + size, Footer(block))
         cut == IF rest = 0 THEN blocked
                ELSE IF hole_footer < end
                     THEN Put(Put(blocked, hole, Hole(rest)), hole_footer,
                              Footer(hole))
                     ELSE Put(blocked, hole, Hole(rest))
         p == block + Hdr
         used == p..(p + req.size - 1)
     IN /\ index' = IF rest = 0 THEN Kept(split)
                    ELSE Inserted(Kept(split), hole, KeyIn(cut))
        /\ mem' = [a \in Addr |-> IF a \in used THEN Zero ELSE cut[a]]
        /\ live' = [q \in DOMAIN live \cup {p} |->
                      IF q = p THEN req.size ELSE live[q]]
        /\ status' = Touched({block, block + Hdr + size} \cup used
                               \cup (IF rest = 0 THEN {} ELSE {hole}))
  /\ req' = None
  /\ UNCHANGED <<end, mapped>>

-----------------------------------------------------------------------------
(* free *)

UnifiesAny(m, a) == At(m, a).kind = "footer"   \* mutant: is_hole not asked
\* The cell left of a header is the footer of a hole.
Unifies(m, a) == At(m, a).kind = "footer" /\ HoleAt(m, At(m, a).header)

Free(p) ==
  /\ status = "ok" /\ ~req.pending
  /\ p \in DOMAIN live
  /\ live' = [q \in DOMAIN live \ {p} |-> live[q]]
  /\ LET own == p - Hdr
         footer == own + SizeAt(mem, own) - Ftr
         freed == Put(mem, own, Hole(SizeAt(mem, own)))
         \* Unify left
         left == Unifies(freed, own - Ftr)
         header == IF left THEN At(freed, own - Ftr).header ELSE own
         lefted == IF left
                   THEN Put(Put(freed, footer, Footer(header)), header,
                            Hole((SizeAt(freed, header) + SizeAt(freed, own))
                                   % Word))
                   ELSE freed
         \* Unify right: the footer of the hole on the right is not rewritten
         next == footer + Ftr
         right == HoleAt(lefted, next)
         joined == IF right
                   THEN Put(lefted, header,
                            Hole((SizeAt(lefted, header) + SizeAt(lefted, next))
                                   % Word))
                   ELSE lefted
         last == IF right THEN next + SizeAt(lefted, next) - Ftr ELSE footer
         unlisted == IF right THEN Removed(index, next) ELSE index
         \* Contract
         old == end - Start
         new == ContractTo(Sub(header, Start))
         shrinks == last + Ftr = end
         size == Sub(SizeAt(joined, header), old - new)
         exists == size > 0
         shrunk == IF shrinks /\ exists
                   THEN Put(Put(joined, header, Hole(size)),
                            header + size - Ftr, Footer(header))
                   ELSE joined
         listed == IF shrinks /\ ~exists THEN Removed(unlisted, next)
                   ELSE unlisted
     IN IF \/ At(mem, own).kind # "header" \/ At(mem, footer).kind # "footer"
           \/ right /\ next \notin Range(index)
           \/ shrinks /\ Sub(header, Start) >= old
        THEN status' = "assert" /\ UNCHANGED <<mem, index, end, mapped>>
        ELSE /\ mem' = shrunk
             /\ index' = IF left THEN listed
                         ELSE Inserted(listed, header, KeyIn(shrunk))
             /\ end' = IF shrinks THEN Start + new ELSE end
             /\ mapped' = IF shrinks THEN mapped \ Released(old, new)
                          ELSE mapped
             /\ status' = Touched({own, footer, next})
  /\ UNCHANGED req

Next == \/ \E size \in Sizes, align \in Aligns : CallAlloc(size, align)
        \/ Expand
        \/ Take
        \/ \E p \in DOMAIN live : Free(p)

Spec == Init /\ [][Next]_vars

=============================================================================
