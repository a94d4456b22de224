-------------------------- MODULE RingBufferProofs --------------------------
(***************************************************************************)
(* Proofs about RingBuffer, for every size, word, set of items and set of  *)
(* callers.                                                                *)
(*                                                                         *)
(* Backed is inductive for a caller that checks, with interrupts on or off: *)
(* it adds to CountIsBacked what the reader knows of count and which slots *)
(* have been written.  Tight is inductive for a disciplined caller: an     *)
(* item the reader has loaded still lies at head, and a count it has       *)
(* loaded is still the count.                                              *)
(***************************************************************************)
EXTENDS RingBuffer, SequenceTheorems, TLAPS

USE ParametersAssumption

\* The slots that hold an item: all, or those before tail as long as tail has
\* not come around.
Written ==
  \/ \A s \in Slot : data[s] \in Item
  \/ /\ tail = head + unread
     /\ \A s \in Slot : s < tail => data[s] \in Item

Backed ==
  "checks" \in caller =>
    /\ count <= Size /\ Occupied <= unread
    /\ pc # "idle" => count > 0
    /\ pc = "head" => item \in Item
    /\ pc = "store" => loaded \in 1..count
    /\ Written

Tight ==
  Disciplined =>
    /\ Occupied = unread /\ (head + unread) % Size = tail
    /\ pc = "head" => item = data[head]
    /\ pc = "store" => loaded = count

BInv == TypeOK /\ Backed
IInv == BInv /\ Tight

-----------------------------------------------------------------------------

\* The two ways to wrap, as operators: head and tail, and the counters.
Wrap(x) == x % Size
Counted(x) == x % Word

LEMMA WrapType ==
  ASSUME NEW x \in Int
  PROVE  Wrap(x) \in 0..(Size - 1)
  BY SMT DEF Wrap

LEMMA WrapHere ==
  ASSUME NEW h \in 0..(Size - 1)
  PROVE  Wrap(h) = h
  BY SMT DEF Wrap

\* Within one round an index wraps at most once.
LEMMA WrapsOnce ==
  ASSUME NEW h \in 0..(Size - 1), NEW n \in 0..Size
  PROVE  Wrap(h + n) = IF h + n < Size THEN h + n ELSE h + n - Size
  BY SMT DEF Wrap

\* Moving either end by one is moving the distance by one.
LEMMA WrapNext ==
  ASSUME NEW h \in 0..(Size - 1), NEW n \in 0..(Size - 1)
  PROVE  /\ Wrap(Wrap(h + 1) + n) = Wrap(h + (n + 1))
         /\ Wrap(Wrap(h + n) + 1) = Wrap(h + (n + 1))
<1>1. /\ {1, n, n + 1} \subseteq 0..Size
      /\ Wrap(h + 1) \in 0..(Size - 1) /\ Wrap(h + n) \in 0..(Size - 1)
  BY WrapType
<1>2. /\ Wrap(h + 1) = IF h + 1 < Size THEN h + 1 ELSE h + 1 - Size
      /\ Wrap(h + n) = IF h + n < Size THEN h + n ELSE h + n - Size
      /\ Wrap(h + (n + 1)) = IF h + (n + 1) < Size THEN h + (n + 1)
                                                   ELSE h + (n + 1) - Size
  BY <1>1, WrapsOnce
<1>3. /\ Wrap(Wrap(h + 1) + n) = IF Wrap(h + 1) + n < Size
           THEN Wrap(h + 1) + n ELSE Wrap(h + 1) + n - Size
      /\ Wrap(Wrap(h + n) + 1) = IF Wrap(h + n) + 1 < Size
           THEN Wrap(h + n) + 1 ELSE Wrap(h + n) + 1 - Size
  BY <1>1, WrapsOnce
<1>4. QED
  BY <1>1, <1>2, <1>3

\* Two indices within one round are different slots.
LEMMA WrapDiffers ==
  ASSUME NEW h \in 0..(Size - 1), NEW n \in 0..(Size - 1), NEW k \in 0..(n - 1)
  PROVE  Wrap(h + k) # Wrap(h + n)
  BY WrapsOnce

LEMMA CountedType ==
  ASSUME NEW x \in Int
  PROVE  Counted(x) \in 0..(Word - 1)
  BY SMT DEF Counted

\* Counters below Word do not wrap.
LEMMA NoWrap ==
  ASSUME NEW x \in 0..(Word - 1)
  PROVE  Counted(x) = x
  BY SMT DEF Counted

LEMMA TightIs ==
  /\ Tight <=> (Disciplined => /\ Occupied = unread /\ Wrap(head + unread) = tail
                               /\ pc = "head" => item = data[head]
                               /\ pc = "store" => loaded = count)
  /\ Tight' <=> (Disciplined' => /\ Occupied' = unread'
                                 /\ Wrap(head' + unread') = tail'
                                 /\ pc' = "head" => item' = data'[head']
                                 /\ pc' = "store" => loaded' = count')
  BY DEF Tight, Wrap, Disciplined

LEMMA ContentsAre ==
  /\ Contents = [k \in 1..Occupied |-> data[Wrap(head + k - 1)]]
  /\ Contents' = [k \in 1..Occupied' |-> data'[Wrap(head' + k - 1)]]
  BY DEF Contents, Wrap

-----------------------------------------------------------------------------
(* Types *)

\* The type invariant of the ring buffer, whatever its callers do: head and tail
\* stay inside data, though both move in interrupts.
THEOREM TypeCorrect == Spec => []TypeOK
<1>1. Init => TypeOK
  BY DEF Init, TypeOK, Slot
<1>2. TypeOK /\ [Next]_vars => TypeOK'
  <2> SUFFICES ASSUME TypeOK, [Next]_vars PROVE TypeOK'
    OBVIOUS
  <2> USE DEF TypeOK, buffer, Slot
  <2>1. /\ Wrap(tail + 1) \in Slot /\ Wrap(head + 1) \in Slot
        /\ Counted(count + 1) \in 0..(Word - 1)
        /\ Counted(loaded - 1) \in 0..(Word - 1)
    <3>1. {tail + 1, head + 1, count + 1, loaded - 1} \subseteq Int
      OBVIOUS
    <3>2. QED
      BY <3>1, WrapType, CountedType
  <2>2. ASSUME NEW v \in Item, Write(v) PROVE TypeOK'
    BY <2>1, <2>2 DEF Write, NextTail, More, Wrap, Counted
  <2>3. CASE Drop \/ FindNone \/ UNCHANGED vars
    BY <2>3 DEF Drop, FindNone, vars
  <2>4. CASE Call
    BY <2>4 DEF Call
  <2>5. CASE ReadItem
    BY <2>5 DEF ReadItem
  <2>6. CASE StoreHead
    BY <2>6, <2>1 DEF StoreHead, NextHead, Wrap
  <2>7. CASE LoadCount
    BY <2>7 DEF LoadCount
  <2>8. CASE StoreCount
    BY <2>8, <2>1 DEF StoreCount, Counted
  <2>9. QED
    BY <2>2, <2>3, <2>4, <2>5, <2>6, <2>7, <2>8 DEF Next
<1>3. QED
  BY <1>1, <1>2, PTL DEF Spec

-----------------------------------------------------------------------------
(* Callers that check *)

\* A write makes the slot at tail one of those that hold an item.
LEMMA WriteKeepsWritten ==
  ASSUME TypeOK, Written, NEW v \in Item, Write(v)
  PROVE  Written'
<1>1. /\ data' = [data EXCEPT ![tail] = v] /\ tail' = Wrap(tail + 1)
      /\ unread' = unread + 1 /\ head' = head
  BY DEF Write, NextTail, Wrap
<1>2. CASE \A s \in Slot : data[s] \in Item
  BY <1>1, <1>2 DEF Written, TypeOK
<1>3. CASE /\ tail = head + unread
           /\ \A s \in Slot : s < tail => data[s] \in Item
  <2>1. /\ tail \in 0..(Size - 1) /\ 1 \in 0..Size
    BY DEF TypeOK, Slot
  <2>2. tail' = IF tail + 1 < Size THEN tail + 1 ELSE tail + 1 - Size
    BY <1>1, <2>1, WrapsOnce
  <2>3. CASE tail + 1 < Size
    <3>1. tail' = head' + unread'
      BY <1>1, <1>3, <2>2, <2>3 DEF TypeOK, Slot
    <3>2. \A s \in Slot : s < tail' => data'[s] \in Item
      BY <1>1, <1>3, <2>2, <2>3 DEF TypeOK, Slot
    <3>3. QED
      BY <3>1, <3>2 DEF Written, Slot
  <2>4. CASE ~(tail + 1 < Size)
    <3>1. \A s \in Slot : s < tail \/ s = tail
      BY <2>1, <2>4 DEF Slot
    <3>2. \A s \in Slot : data'[s] \in Item
      BY <1>1, <1>3, <3>1 DEF TypeOK
    <3>3. QED
      BY <3>2 DEF Written, Slot
  <2>5. QED
    BY <2>3, <2>4
<1>4. QED
  BY <1>2, <1>3 DEF Written

LEMMA WriteKeepsBacked ==
  ASSUME BInv, NEW v \in Item, Write(v)
  PROVE  Backed' /\ count' = count + 1 /\ Occupied' = Occupied + 1
<1> USE DEF BInv
<1>1. /\ count \in 0..(Size - 1) /\ count' = Counted(count + 1)
      /\ unread' = unread + 1
      /\ UNCHANGED <<caller, head, pc, item, loaded, taken>>
  BY DEF Write, Full, More, Counted, TypeOK
<1>2. count' = count + 1
  <2>1. count + 1 \in 0..(Word - 1)
    BY <1>1
  <2>2. QED
    BY <1>1, <2>1, NoWrap
<1>3. Occupied' = Occupied + 1
  BY <1>1, <1>2 DEF Occupied
<1>4. Occupied \in Int /\ unread \in Int /\ loaded \in Int
  BY DEF Occupied, TypeOK
<1>5. ASSUME "checks" \in caller PROVE Written'
  BY <1>5, WriteKeepsWritten DEF Backed
<1>6. QED
  BY <1>1, <1>2, <1>3, <1>4, <1>5 DEF Backed

\* head moves over a slot that holds an item.
LEMMA StoreHeadKeepsWritten ==
  ASSUME TypeOK, Written, StoreHead, unread > 0
  PROVE  Written'
<1>1. /\ head' = Wrap(head + 1) /\ unread' = unread - 1
      /\ UNCHANGED <<data, tail>>
  BY DEF StoreHead, NextHead, Wrap
<1>2. CASE \A s \in Slot : data[s] \in Item
  BY <1>1, <1>2 DEF Written
<1>3. CASE /\ tail = head + unread
           /\ \A s \in Slot : s < tail => data[s] \in Item
  <2>1. head \in 0..(Size - 1) /\ 1 \in 0..Size /\ head + 1 < Size
    BY <1>3 DEF TypeOK, Slot
  <2>2. head' = head + 1
    BY <1>1, <2>1, WrapsOnce
  <2>3. tail' = head' + unread'
    BY <1>1, <1>3, <2>2 DEF TypeOK, Slot
  <2>4. QED
    BY <1>1, <1>3, <2>3 DEF Written
<1>4. QED
  BY <1>2, <1>3 DEF Written

LEMMA StoreHeadKeepsBacked ==
  ASSUME BInv, StoreHead
  PROVE  Backed'
<1>1. /\ pc = "head" /\ pc' = "count" /\ unread' = unread - 1
      /\ UNCHANGED <<caller, data, tail, count, item, loaded>>
  BY DEF StoreHead
<1>2. unread \in Int /\ count \in Int
  BY DEF BInv, TypeOK
<1>3. ASSUME "checks" \in caller PROVE Written' /\ count > 0 /\ count <= unread
  <2>1. count > 0 /\ count <= unread /\ Written
    BY <1>1, <1>3 DEF BInv, Backed, Occupied
  <2>2. QED
    BY <1>2, <2>1, StoreHeadKeepsWritten DEF BInv
<1>4. QED
  BY <1>1, <1>2, <1>3 DEF Backed, Occupied, BInv

\* The count that is stored makes up for the delay, or falls behind.
LEMMA StoreCountKeepsBacked ==
  ASSUME BInv, StoreCount
  PROVE  /\ Backed'
         /\ "checks" \in caller => count' = loaded - 1
<1>1. /\ pc = "store" /\ pc' = "idle" /\ count' = Counted(loaded - 1)
      /\ UNCHANGED <<caller, data, head, tail, item, loaded, unread>>
  BY DEF StoreCount, Counted
<1>2. unread \in Int /\ count \in 0..(Word - 1) /\ loaded \in 0..(Word - 1)
  BY DEF BInv, TypeOK
<1>3. ASSUME "checks" \in caller
      PROVE  /\ loaded \in 1..count /\ count <= Size /\ count - 1 <= unread
             /\ count' = loaded - 1
  <2>1. /\ loaded \in 1..count /\ count <= Size /\ count - 1 <= unread
    BY <1>1, <1>3 DEF BInv, Backed, Occupied
  <2>2. loaded - 1 \in 0..(Word - 1)
    BY <1>2, <2>1
  <2>3. QED
    BY <1>1, <2>1, <2>2, NoWrap
<1>4. ASSUME "checks" \in caller PROVE Written'
  BY <1>1, <1>4 DEF BInv, Backed, Written
<1>5. QED
  BY <1>1, <1>2, <1>3, <1>4 DEF Backed, Occupied

\* The slot the reader loads from has been written: there is an unread item.
LEMMA ReadItemKeepsBacked ==
  ASSUME BInv, ReadItem
  PROVE  Backed'
<1>1. /\ pc = "item" /\ pc' = "head" /\ item' = data[head]
      /\ UNCHANGED <<caller, data, head, tail, count, loaded, unread>>
  BY DEF ReadItem, buffer
<1>2. ASSUME "checks" \in caller PROVE data[head] \in Item /\ Written'
  <2>1. count > 0 /\ count <= unread /\ Written
    BY <1>1, <1>2 DEF BInv, Backed, Occupied
  <2>2. unread \in Int /\ unread > 0 /\ head \in Slot /\ tail \in Slot
    BY <2>1 DEF BInv, TypeOK
  <2>3. data[head] \in Item
    <3>1. CASE \A s \in Slot : data[s] \in Item
      BY <3>1, <2>2
    <3>2. CASE /\ tail = head + unread
               /\ \A s \in Slot : s < tail => data[s] \in Item
      BY <3>2, <2>2 DEF Slot
    <3>3. QED
      BY <2>1, <3>1, <3>2 DEF Written
  <2>4. QED
    BY <1>1, <2>1, <2>3 DEF Written
<1>3. QED
  BY <1>1, <1>2 DEF BInv, Backed, Occupied

LEMMA BackedStep == BInv /\ [Next]_vars => Backed'
<1> SUFFICES ASSUME BInv, [Next]_vars PROVE Backed'
  OBVIOUS
<1>1. ASSUME NEW v \in Item, Write(v) PROVE Backed'
  BY <1>1, WriteKeepsBacked
<1>2. CASE Drop \/ FindNone \/ UNCHANGED vars
  BY <1>2 DEF Drop, FindNone, vars, buffer, BInv, Backed, Written, Occupied
<1>3. CASE Call
  <2>1. /\ pc = "idle" /\ pc' = "item" /\ ("checks" \in caller => count > 0)
        /\ UNCHANGED <<caller, data, head, tail, count, loaded, item, unread>>
    BY <1>3 DEF Call, buffer
  <2>2. Occupied' = Occupied /\ (Written => Written')
    BY <2>1 DEF Occupied, Written
  <2>3. QED
    BY <2>1, <2>2 DEF BInv, Backed
<1>4. CASE ReadItem
  BY <1>4, ReadItemKeepsBacked
<1>5. CASE StoreHead
  BY <1>5, StoreHeadKeepsBacked
<1>6. CASE LoadCount
  <2>1. /\ pc = "count" /\ pc' = "store" /\ loaded' = count
        /\ UNCHANGED <<caller, data, head, tail, count, item, unread>>
    BY <1>6 DEF LoadCount, buffer
  <2>2. count \in Int
    BY DEF BInv, TypeOK
  <2>3. QED
    BY <2>1, <2>2 DEF BInv, Backed, Written, Occupied
<1>7. CASE StoreCount
  BY <1>7, StoreCountKeepsBacked
<1>8. QED
  BY <1>1, <1>2, <1>3, <1>4, <1>5, <1>6, <1>7 DEF Next

LEMMA InitBacked == Init => Backed
<1> SUFFICES ASSUME Init PROVE Backed
  OBVIOUS
<1>1. tail = 0 /\ head = 0 /\ unread = 0 /\ count = 0 /\ pc = "idle"
  BY DEF Init
<1>2. Written
  BY <1>1 DEF Written, Slot
<1>3. QED
  BY <1>1, <1>2 DEF Backed, Occupied

LEMMA AlwaysBacked == Spec => []BInv
<1>1. Init => Backed
  BY InitBacked
<1>2. BInv /\ [Next]_vars => Backed'
  BY BackedStep
<1>3. TypeOK /\ Backed <=> BInv
  BY DEF BInv
<1>4. QED
  BY <1>1, <1>2, <1>3, TypeCorrect, PTL DEF Spec

\* To a caller that checks, with interrupts on or off, count never promises an
\* item that is not there: it does not underflow and what it reads was written.
THEOREM BackedTheorem == Spec => []CountIsBacked
<1>1. BInv => CountIsBacked
  <2> SUFFICES ASSUME BInv, "checks" \in caller
               PROVE  /\ Occupied \in 0..Size /\ Occupied <= unread
                      /\ pc = "head" => item \in Item
    BY DEF CountIsBacked
  <2>1. count \in 0..(Word - 1)
    BY DEF BInv, TypeOK
  <2>2. QED
    BY <2>1 DEF BInv, Backed, Occupied
<1>2. QED
  BY <1>1, AlwaysBacked, PTL

-----------------------------------------------------------------------------
(* Disciplined callers: count, head and tail *)

LEMMA InitTight == Init => Tight
<1> SUFFICES ASSUME Init PROVE Tight
  OBVIOUS
<1>1. Wrap(0 + 0) = 0
  BY WrapsOnce
<1>2. QED
  BY <1>1, TightIs DEF Init, Occupied

\* What a disciplined caller's buffer looks like.
LEMMA SpanFacts ==
  ASSUME IInv, Disciplined
  PROVE  /\ Occupied = unread /\ Occupied \in 0..Size
         /\ Wrap(head + Occupied) = tail
         /\ head \in 0..(Size - 1) /\ count \in 0..Size
         /\ pc = "head" => item = data[head] /\ Occupied > 0
         /\ pc = "store" => loaded = count
         /\ pc \in {"count", "store"} => count > 0
<1>1. "checks" \in caller
  BY DEF Disciplined
<1>2. /\ count \in 0..(Word - 1) /\ head \in 0..(Size - 1)
      /\ count <= Size /\ (pc # "idle" => count > 0)
  BY <1>1 DEF IInv, BInv, TypeOK, Backed, Slot
<1>3. Occupied \in 0..Size /\ (pc = "head" => Occupied = count)
  BY <1>2 DEF Occupied
<1>4. QED
  BY <1>2, <1>3, TightIs DEF IInv

\* A write finds room behind the last unread item, not at head.
LEMMA WriteFacts ==
  ASSUME IInv, Disciplined, NEW v \in Item, Write(v)
  PROVE  /\ Occupied' = Occupied + 1
         /\ Occupied \in 0..(Size - 1) /\ pc' = pc /\ pc = "idle"
         /\ tail = Wrap(head + Occupied) /\ tail' = Wrap(head + (Occupied + 1))
<1>1. /\ count < Size /\ pc = "idle" /\ pc' = pc /\ tail' = Wrap(tail + 1)
  BY DEF Write, Full, NextTail, Interruptible, Wrap, Disciplined, IInv, BInv, TypeOK
<1>2. Occupied \in 0..(Size - 1) /\ tail = Wrap(head + Occupied)
      /\ head \in 0..(Size - 1)
  BY <1>1, SpanFacts DEF Occupied
<1>3. tail' = Wrap(head + (Occupied + 1))
  BY <1>1, <1>2, WrapNext
<1>4. QED
  BY <1>1, <1>2, <1>3, WriteKeepsBacked DEF IInv

\* head moves over one unread item.
LEMMA StoreHeadFacts ==
  ASSUME IInv, Disciplined, StoreHead
  PROVE  /\ Occupied' = Occupied - 1 /\ Occupied \in 1..Size
         /\ head' = Wrap(head + 1) /\ taken' = data[head]
         /\ Wrap(head' + (Occupied - 1)) = tail
<1>1. /\ pc = "head" /\ pc' = "count" /\ count' = count
      /\ head' = Wrap(head + 1) /\ taken' = item
  BY DEF StoreHead, NextHead, Wrap
<1>2. /\ Occupied \in 1..Size /\ head \in 0..(Size - 1) /\ item = data[head]
      /\ Wrap(head + Occupied) = tail /\ count \in 0..Size
  BY <1>1, SpanFacts
<1>3. Occupied' = Occupied - 1
  BY <1>1, <1>2 DEF Occupied
<1>4. Wrap(head' + (Occupied - 1)) = tail
  <2>1. Occupied - 1 \in 0..(Size - 1) /\ Occupied - 1 + 1 = Occupied
    BY <1>2
  <2>2. Wrap(Wrap(head + 1) + (Occupied - 1)) = Wrap(head + (Occupied - 1 + 1))
    BY <1>2, <2>1, WrapNext
  <2>3. QED
    BY <1>1, <1>2, <2>1, <2>2
<1>5. QED
  BY <1>1, <1>2, <1>3, <1>4

\* What the reader does to count at last is to make up its delay.
LEMMA CountFacts ==
  ASSUME IInv, Disciplined, StoreCount
  PROVE  Occupied' = Occupied /\ pc' = "idle"
<1>1. /\ pc = "store" /\ pc' = "idle" /\ "checks" \in caller
  BY DEF StoreCount, Disciplined
<1>2. count' = loaded - 1 /\ loaded = count
  BY <1>1, StoreCountKeepsBacked, SpanFacts DEF IInv
<1>3. QED
  BY <1>1, <1>2 DEF Occupied

LEMMA TightStep == IInv /\ [Next]_vars => Tight'
<1> SUFFICES ASSUME IInv, [Next]_vars, Disciplined' PROVE Tight'
  BY TightIs
<1>1. caller' = caller
  BY DEF Next, Write, Drop, FindNone, Call, ReadItem, StoreHead, LoadCount,
         StoreCount, vars, buffer
<1>2. Disciplined
  BY <1>1 DEF Disciplined
<1>3. ASSUME NEW v \in Item, Write(v) PROVE Tight'
  <2>1. head' = head /\ unread' = unread + 1
    BY <1>3 DEF Write
  <2>2. QED
    BY <1>2, <1>3, <2>1, WriteFacts, SpanFacts, TightIs
<1>4. CASE Drop \/ FindNone \/ UNCHANGED vars
  BY <1>2, <1>4, TightIs DEF IInv, Drop, FindNone, vars, buffer, Occupied
<1>5. CASE Call
  BY <1>2, <1>5, TightIs DEF IInv, Call, buffer, Occupied
<1>6. CASE ReadItem
  BY <1>2, <1>6, TightIs DEF IInv, ReadItem, buffer, Occupied
<1>7. CASE StoreHead
  <2>1. tail' = tail /\ pc' = "count" /\ unread' = unread - 1
    BY <1>7 DEF StoreHead
  <2>2. QED
    BY <1>2, <1>7, <2>1, StoreHeadFacts, SpanFacts, TightIs
<1>8. CASE LoadCount
  BY <1>2, <1>8, TightIs DEF IInv, LoadCount, buffer, Occupied
<1>9. CASE StoreCount
  <2>1. UNCHANGED <<data, head, tail, item, unread>>
    BY <1>9 DEF StoreCount
  <2>2. QED
    BY <1>2, <1>9, <2>1, CountFacts, SpanFacts, TightIs
<1>10. QED
  BY <1>3, <1>4, <1>5, <1>6, <1>7, <1>8, <1>9 DEF Next

\* The inductive invariant.
THEOREM Invariance == Spec => []IInv
<1>1. Init => Tight
  BY InitTight
<1>2. IInv /\ [Next]_vars => Tight'
  BY TightStep
<1>3. BInv /\ Tight <=> IInv
  BY DEF IInv
<1>4. QED
  BY <1>1, <1>2, <1>3, AlwaysBacked, PTL DEF Spec

\* For a caller that checks with interrupts off, count says how many items are
\* unread, at most Size, and leads from head to tail, at every point at which
\* another can look.
THEOREM CountTheorem == Spec => []CountSpansBuffer
<1>1. IInv => CountSpansBuffer
  BY SpanFacts DEF CountSpansBuffer, Wrap
<1>2. QED
  BY <1>1, Invariance, PTL

-----------------------------------------------------------------------------
(* The buffer is a queue *)

LEMMA InitIsInit == Init => Fifo!Init
<1> SUFFICES ASSUME Init PROVE Contents = <<>> /\ taken = NoItem
  BY DEF Fifo!Init
<1>1. Occupied = 0
  BY DEF Init, Occupied
<1>2. Contents = <<>>
  BY <1>1, ContentsAre
<1>3. QED
  BY <1>2 DEF Init

\* What is in the buffer is a sequence, of the length that count gives it.
LEMMA ContentsType ==
  ASSUME IInv, Disciplined
  PROVE  /\ Contents \in Seq(Item \cup {NoItem}) /\ Len(Contents) = Occupied
         /\ Occupied \in 0..Size /\ head \in 0..(Size - 1)
         /\ \A k \in 1..Occupied : Contents[k] = data[Wrap(head + k - 1)]
<1>1. Occupied \in 0..Size /\ head \in 0..(Size - 1)
  BY SpanFacts
<1>2. \A k \in 1..Occupied : data[Wrap(head + k - 1)] \in Item \cup {NoItem}
  <2>1. TAKE k \in 1..Occupied
  <2>2. head + k - 1 \in Int
    BY <1>1
  <2>3. Wrap(head + k - 1) \in Slot
    BY <2>2, WrapType DEF Slot
  <2>4. QED
    BY <2>3 DEF IInv, BInv, TypeOK
<1>3. Contents \in Seq(Item \cup {NoItem}) /\ Len(Contents) = Occupied
  BY <1>1, <1>2, ContentsAre
<1>4. QED
  BY <1>1, <1>3, ContentsAre

LEMMA OneLess ==
  \A c \in Int : c > 0 /\ c <= Size => c - 1 \in 0..Size
  OBVIOUS

\* The same of the next state.
LEMMA ContentsTypeNext ==
  ASSUME IInv', Disciplined'
  PROVE  /\ Contents' \in Seq(Item \cup {NoItem}) /\ Len(Contents') = Occupied'
         /\ Occupied' \in 0..Size /\ head' \in 0..(Size - 1)
         /\ \A k \in 1..Occupied' : Contents'[k] = data'[Wrap(head' + k - 1)]
<1>1. Occupied' \in 0..Size /\ head' \in 0..(Size - 1)
  <2>1. "checks" \in caller'
    BY DEF Disciplined
  <2>2. /\ count' \in 0..(Word - 1) /\ head' \in 0..(Size - 1)
        /\ count' <= Size /\ (pc' # "idle" => count' > 0)
    BY <2>1 DEF IInv, BInv, TypeOK, Backed, Slot
  <2>3. Occupied' = IF pc' \in {"count", "store"} THEN count' - 1 ELSE count'
    BY DEF Occupied
  <2>4. CASE pc' \in {"count", "store"}
    <3>1. pc' # "idle"
      BY <2>4
    <3>2. count' > 0 /\ count' <= Size /\ count' \in Int
      BY <2>2, <3>1
    <3>3. Occupied' = count' - 1
      BY <2>3, <2>4
    <3>4. count' - 1 \in 0..Size
      BY <3>2, OneLess
    <3>5. QED
      BY <2>2, <3>3, <3>4
  <2>5. CASE pc' \notin {"count", "store"}
    BY <2>2, <2>3, <2>5
  <2>6. QED
    BY <2>4, <2>5
<1>2. \A k \in 1..Occupied' : data'[Wrap(head' + k - 1)] \in Item \cup {NoItem}
  <2>1. TAKE k \in 1..Occupied'
  <2>2. head' + k - 1 \in Int
    BY <1>1
  <2>3. Wrap(head' + k - 1) \in Slot
    BY <2>2, WrapType DEF Slot
  <2>4. QED
    BY <2>3 DEF IInv, BInv, TypeOK, Slot
<1>3. Contents' \in Seq(Item \cup {NoItem}) /\ Len(Contents') = Occupied'
  BY <1>1, <1>2, ContentsAre
<1>4. QED
  BY <1>1, <1>3, ContentsAre

\* A write appends: it takes a slot that holds no unread item.
LEMMA WriteIsWrite ==
  ASSUME IInv, IInv', Disciplined, Disciplined', NEW v \in Item, Write(v)
  PROVE  Fifo!Write
<1>1. /\ Occupied' = Occupied + 1 /\ Occupied \in 0..(Size - 1)
      /\ tail = Wrap(head + Occupied) /\ head \in 0..(Size - 1)
  BY WriteFacts, ContentsType
<1>2. UNCHANGED <<head, taken>> /\ data' = [data EXCEPT ![tail] = v]
  BY DEF Write
<1>3. /\ Contents \in Seq(Item \cup {NoItem}) /\ Len(Contents) = Occupied
      /\ \A k \in 1..Occupied : Contents[k] = data[Wrap(head + k - 1)]
  BY ContentsType
<1>4. /\ Contents' \in Seq(Item \cup {NoItem}) /\ Len(Contents') = Occupied + 1
      /\ \A k \in 1..(Occupied + 1) : Contents'[k] = data'[Wrap(head + k - 1)]
  BY ContentsTypeNext, <1>1, <1>2
<1>5. ASSUME NEW k \in 1..Occupied PROVE Contents'[k] = Contents[k]
  <2>1. k - 1 \in 0..(Occupied - 1) /\ head + k - 1 = head + (k - 1)
    BY <1>1
  <2>2. Wrap(head + k - 1) # tail
    BY <1>1, <2>1, WrapDiffers
  <2>3. data'[Wrap(head + k - 1)] = data[Wrap(head + k - 1)]
    <3>1. Wrap(head + k - 1) \in Slot
      BY <1>1, <2>1, WrapType DEF Slot
    <3>2. QED
      BY <1>2, <2>2, <3>1 DEF IInv, BInv, TypeOK
  <2>4. k \in 1..(Occupied + 1)
    BY <1>1
  <2>5. QED
    BY <1>3, <1>4, <2>3, <2>4
<1>6. Contents'[Occupied + 1] = v
  <2>1. head + (Occupied + 1) - 1 = head + Occupied
        /\ Occupied + 1 \in 1..(Occupied + 1)
    BY <1>1
  <2>2. Contents'[Occupied + 1] = data'[tail]
    BY <1>1, <1>4, <2>1
  <2>3. QED
    BY <1>2, <2>2 DEF IInv, BInv, TypeOK
<1>7. Contents' = Append(Contents, v)
  BY <1>1, <1>3, <1>4, <1>5, <1>6
<1>8. QED
  BY <1>1, <1>2, <1>3, <1>7 DEF Fifo!Write

\* The store to head takes the first item out.
LEMMA StoreHeadIsRead ==
  ASSUME IInv, IInv', Disciplined, Disciplined', StoreHead
  PROVE  Fifo!Read
<1>1. /\ Occupied' = Occupied - 1 /\ Occupied \in 1..Size
      /\ head' = Wrap(head + 1) /\ taken' = data[head] /\ data' = data
  BY StoreHeadFacts DEF StoreHead
<1>2. /\ Contents \in Seq(Item \cup {NoItem}) /\ Len(Contents) = Occupied
      /\ head \in 0..(Size - 1)
      /\ \A k \in 1..Occupied : Contents[k] = data[Wrap(head + k - 1)]
  BY ContentsType
<1>3. /\ Contents' \in Seq(Item \cup {NoItem}) /\ Len(Contents') = Occupied - 1
      /\ head' \in 0..(Size - 1)
      /\ \A k \in 1..(Occupied - 1) : Contents'[k] = data[Wrap(head' + k - 1)]
  BY ContentsTypeNext, <1>1
<1>4. ASSUME NEW k \in 1..(Occupied - 1) PROVE Contents'[k] = Contents[k + 1]
  <2>1. /\ k - 1 \in 0..(Size - 1) /\ k + 1 \in 1..Occupied
        /\ head' + k - 1 = head' + (k - 1)
        /\ head + (k + 1) - 1 = head + (k - 1 + 1)
    BY <1>1, <1>2, <1>3
  <2>2. Wrap(head' + (k - 1)) = Wrap(head + (k - 1 + 1))
    BY <1>1, <1>2, <2>1, WrapNext
  <2>3. QED
    BY <1>2, <1>3, <2>1, <2>2
<1>5. Contents # <<>>
  BY <1>1, <1>2, EmptySeq
<1>6. Contents' = Tail(Contents)
  <2>1. /\ Tail(Contents) \in Seq(Item \cup {NoItem})
        /\ Len(Tail(Contents)) = Occupied - 1
        /\ \A k \in 1..Len(Tail(Contents)) : Tail(Contents)[k] = Contents[k + 1]
    BY <1>2, <1>5, HeadTailProperties
  <2>2. \A k \in 1..Len(Contents') : Contents'[k] = Tail(Contents)[k]
    BY <1>3, <1>4, <2>1
  <2>3. QED
    BY <1>3, <2>1, <2>2, SeqEqual
<1>7. taken' = Head(Contents)
  <2>1. Wrap(head) = head
    BY <1>2, WrapHere
  <2>2. head + 1 - 1 = head
    BY <1>2
  <2>3. Contents[1] = data[head]
    <3>1. 1 \in 1..Occupied
      BY <1>1
    <3>2. QED
      BY <1>2, <2>1, <2>2, <3>1
  <2>4. Head(Contents) = Contents[1]
    BY <1>2, <1>5
  <2>5. QED
    BY <1>1, <2>3, <2>4
<1>8. QED
  BY <1>5, <1>6, <1>7 DEF Fifo!Read

\* Every step of the buffer is a write, a read or a stutter of the queue.
LEMMA StepRefines ==
  IInv /\ IInv' /\ [Next]_vars =>
    [Disciplined => [Fifo!Next]_<<Contents, taken>>]_vars
<1> SUFFICES ASSUME IInv, IInv', Next, Disciplined
             PROVE  [Fifo!Next]_<<Contents, taken>>
  OBVIOUS
<1>1. Disciplined'
  BY DEF Next, Write, Drop, FindNone, Call, ReadItem, StoreHead, LoadCount,
         StoreCount, vars, buffer, Disciplined
<1>2. ASSUME NEW v \in Item, Write(v) PROVE Fifo!Write
  BY <1>1, <1>2, WriteIsWrite
<1>3. CASE StoreHead
  BY <1>1, <1>3, StoreHeadIsRead DEF Fifo!Next
<1>4. ASSUME UNCHANGED <<data, head, taken>>, Occupied' = Occupied
      PROVE  UNCHANGED <<Contents, taken>>
  BY <1>4, ContentsAre
<1>5. CASE Drop \/ FindNone
  BY <1>4, <1>5 DEF Drop, FindNone, vars, buffer, Occupied
<1>6. CASE Call
  BY <1>4, <1>6 DEF Call, buffer, Occupied
<1>7. CASE ReadItem
  BY <1>4, <1>7 DEF ReadItem, buffer, Occupied
<1>8. CASE LoadCount
  BY <1>4, <1>8 DEF LoadCount, buffer, Occupied
<1>9. CASE StoreCount
  BY <1>4, <1>9, CountFacts DEF StoreCount
<1>10. QED
  BY <1>2, <1>3, <1>5, <1>6, <1>7, <1>8, <1>9 DEF Next, Fifo!Next

\* For a caller that checks with interrupts off the ring buffer implements a
\* bounded queue that loses only what finds it full: items come out in the order
\* of the writes, none twice.
THEOREM Refinement == Spec => IsFifo
<1>1. Init => Fifo!Init
  BY InitIsInit
<1>2. IInv /\ IInv' /\ [Next]_vars =>
        [Disciplined => [Fifo!Next]_<<Contents, taken>>]_vars
  BY StepRefines
<1>3. Spec => []IInv
  BY Invariance
<1>4. QED
  BY <1>1, <1>2, <1>3, PTL DEF Spec, IsFifo

=============================================================================
