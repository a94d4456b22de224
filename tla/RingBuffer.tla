----------------------------- MODULE RingBuffer -----------------------------
(***************************************************************************)
(* The ring buffer of src/ring_buffer.c between the keyboard interrupt,    *)
(* which writes, and a task, which reads.  The interrupt handler runs to   *)
(* its end once it has started; the reader can be interrupted between any  *)
(* two of its accesses to what both share.  ring_buffer_read asks nothing  *)
(* before it reads, and its count-- is a load and a store (the Makefile    *)
(* asks for no optimisation).  Counters wrap at Word.                      *)
(*                                                                         *)
(* No code calls the buffer yet, so what a caller of ring_buffer_read does *)
(* around the call is the contract the properties name: it "checks" that   *)
(* count is not zero, and it "masks" interrupts from the check until the   *)
(* call returns.  Callers is the set of the callers a run looks at; caller *)
(* is the one there is.                                                    *)
(***************************************************************************)
EXTENDS Integers, Sequences

CONSTANTS
  Size, Word, Item, NoItem,
  Callers,
  MaxGap                         \* bound of the history counter unread

ASSUME ParametersAssumption ==
  /\ Size \in Nat \ {0} /\ Word \in Nat /\ Word > Size
  /\ NoItem \notin Item /\ Callers \subseteq SUBSET {"checks", "masks"}
  /\ MaxGap \in Nat

VARIABLES
  data, head, tail, count,       \* the ring_buffer
  caller,                        \* what the caller of ring_buffer_read does
  pc, item, loaded,              \* the reader's locals and a register
  unread, taken                  \* history: items written less items read,
                                 \* and the last one read

buffer == <<data, head, tail, count, caller>>
vars == <<buffer, pc, item, loaded, unread, taken>>

Slot == 0..(Size - 1)

\* ring_buffer_create; fresh memory holds no item.
Init ==
  /\ data = [s \in Slot |-> NoItem] /\ head = 0 /\ tail = 0 /\ count = 0
  /\ pc = "idle" /\ item = NoItem /\ loaded = 0
  /\ unread = 0 /\ taken = NoItem /\ caller \in Callers

-----------------------------------------------------------------------------
(* ring_buffer_write, in the interrupt handler *)

AlmostFull == count > Size              \* mutant: off by one
Full == count >= Size

NextTailFixed == tail                   \* mutant: tail does not move
NextTail == (tail + 1) % Size
MoreNever == count                      \* mutant: count++ is left out
More == (count + 1) % Word

Interruptible == "masks" \notin caller \/ pc = "idle"

Write(v) ==
  /\ Interruptible /\ ~Full /\ unread < MaxGap
  /\ data' = [data EXCEPT ![tail] = v]
  /\ tail' = NextTail
  /\ count' = More
  /\ unread' = unread + 1
  /\ UNCHANGED <<caller, head, pc, item, loaded, taken>>

Drop ==
  /\ Interruptible /\ Full
  /\ UNCHANGED vars

-----------------------------------------------------------------------------
(* The caller, a task *)

Call ==
  /\ pc = "idle" /\ unread > -MaxGap
  /\ "checks" \in caller => count > 0
  /\ pc' = "item"
  /\ UNCHANGED <<buffer, item, loaded, unread, taken>>

FindNone ==
  /\ pc = "idle" /\ "checks" \in caller /\ count = 0
  /\ UNCHANGED vars

-----------------------------------------------------------------------------
(* ring_buffer_read *)

NextHead == (head + 1) % Size

ReadItem ==
  /\ pc = "item"
  /\ item' = data[head]
  /\ pc' = "head"
  /\ UNCHANGED <<buffer, loaded, unread, taken>>

StoreHead ==
  /\ pc = "head"
  /\ head' = NextHead
  /\ taken' = item /\ unread' = unread - 1
  /\ pc' = "count"
  /\ UNCHANGED <<caller, data, tail, count, item, loaded>>

LoadCount ==
  /\ pc = "count"
  /\ loaded' = count
  /\ pc' = "store"
  /\ UNCHANGED <<buffer, item, unread, taken>>

StoreCount ==
  /\ pc = "store"
  /\ count' = (loaded - 1) % Word
  /\ pc' = "idle"
  /\ UNCHANGED <<caller, data, head, tail, item, loaded, unread, taken>>

Next ==
  \/ \E v \in Item : Write(v)
  \/ Drop
  \/ Call \/ FindNone
  \/ ReadItem \/ StoreHead \/ LoadCount \/ StoreCount

Spec == Init /\ [][Next]_vars

-----------------------------------------------------------------------------
\* What count stands for: it lags behind head while a read is finished.
Occupied == IF pc \in {"count", "store"} THEN count - 1 ELSE count

Contents == [k \in 1..Occupied |-> data[(head + k - 1) % Size]]

\* Type invariant.
TypeOK ==
  /\ data \in [Slot -> Item \cup {NoItem}]
  /\ head \in Slot /\ tail \in Slot /\ count \in 0..(Word - 1)
  /\ caller \in Callers /\ pc \in {"idle", "item", "head", "count", "store"}
  /\ item \in Item \cup {NoItem} /\ loaded \in 0..(Word - 1)
  /\ unread \in Int /\ taken \in Item \cup {NoItem}

\* The caller for whom the buffer is one: it checks, with interrupts off.
Disciplined == caller = {"checks", "masks"}

\* head, tail and count, updated at different moments and by different actors,
\* describe the same region of data for a disciplined caller: count is the
\* number of unread items, never more than the size, and leads from head to
\* tail.  (Without "masks" it is not: an interrupt between the load and the
\* store of count-- has its count++ undone.)
CountSpansBuffer ==
  Disciplined => /\ Occupied = unread /\ unread \in 0..Size
                 /\ (head + unread) % Size = tail

\* What the lost count++ cannot do to a caller that only checks, with interrupts
\* on: count falls behind the items there are and never gets ahead of them.  So
\* it does not underflow (at 2^32 - 1 it would stop all writing for good), and
\* a read that it allows finds an item someone wrote.
CountIsBacked ==
  "checks" \in caller => /\ Occupied \in 0..Size /\ Occupied <= unread
                         /\ pc = "head" => item \in Item

Fifo == INSTANCE LossyFifo WITH queue <- Contents

\* For a disciplined caller the buffer implements a bounded queue that may drop
\* what it is given: items come out in the order of the writes, none twice.
IsFifo ==
  /\ Fifo!Init
  /\ [][Disciplined => [Fifo!Next]_<<Contents, taken>>]_vars

=============================================================================
