------------------------- MODULE OrderedArrayProofs -------------------------
(***************************************************************************)
(* The loops of the ordered array keep it sorted, and a call leaves what   *)
(* its operator of OrderedArray says: proved for every number of items,    *)
(* every key function and every capacity.                                  *)
(*                                                                         *)
(* The order holds between calls only, so the invariant says how much of   *)
(* it is left at every turn of each loop: while an insertion shifts up,    *)
(* tmp is the item between what is already in place and what is not;       *)
(* after the last turn the array is sorted one cell beyond size, which is  *)
(* added last; after the last turn of a removal it is sorted one cell less *)
(* far, because that turn read past the end.                               *)
(*                                                                         *)
(* LoopInv compares the array with what it was when the call began: cell   *)
(* by cell, which items a loop has moved so far and which it has not.      *)
(***************************************************************************)
EXTENDS OrderedArraySteps, FiniteSetTheorems, SequenceTheorems, TLAPS

USE KeyAssumption, SizeAssumption

\* The first n cells hold items.
Filled(arr, n) == \A c \in 0..(n - 1) : arr[c] \in Item

\* The first n cells are in order.
InOrder(arr, n) ==
  \A i, j \in 0..(n - 1) : i < j => Key[arr[i]] <= Key[arr[j]]

Good(arr, n) == Filled(arr, n) /\ InOrder(arr, n)

Types ==
  /\ array \in [Cell -> Item \cup {NoItem}] /\ size \in Cell
  /\ pc \in {"idle", "scan", "shift_up", "shift_down"}
  /\ iterator \in Cell /\ (pc # "idle" => iterator <= size)
  /\ pc \in {"scan", "shift_up"} => size < MaxSize /\ item \in Item
  /\ pc = "shift_down" => size > 0
  /\ tmp \in Item \cup {NoItem} /\ item \in Item \cup {NoItem}

\* Every item before iterator is smaller than the one to insert.
ScanInv ==
  pc = "scan" =>
    \A c \in 0..(iterator - 1) : Key[array[c]] < Key[item]

\* tmp belongs between cell iterator and the cells behind it.
ShiftUpInv ==
  pc = "shift_up" /\ iterator < size =>
    /\ tmp \in Item /\ Key[array[iterator]] <= Key[tmp]
    /\ \A c \in (iterator + 1)..(size - 1) : Key[tmp] <= Key[array[c]]

\* How far the array is in order.
Extent ==
  CASE pc = "shift_up" /\ iterator = size -> size + 1
    [] pc = "shift_down" /\ iterator = size -> size - 1
    [] OTHER -> size

OrderInv == Good(array, Extent)

IInv == Types /\ ScanInv /\ ShiftUpInv /\ OrderInv

-----------------------------------------------------------------------------

LEMMA InitIInv == Init => IInv
  BY DEF Init, IInv, Types, ScanInv, ShiftUpInv, OrderInv, Good, Filled,
         InOrder, Extent, Cell

LEMMA CallInsertStep ==
  ASSUME IInv, NEW x \in Item, CallInsert(x)
  PROVE  IInv'
<1> USE DEF IInv, CallInsert
<1>1. Types'
  BY DEF Types, Cell
<1>2. OrderInv'
  <2>1. Extent = size /\ Extent' = size /\ array' = array
    BY DEF Extent
  <2>2. QED
    BY <2>1 DEF OrderInv
<1>3. ScanInv' /\ ShiftUpInv'
  BY DEF ScanInv, ShiftUpInv
<1>4. QED
  BY <1>1, <1>2, <1>3

LEMMA ScanStep == ASSUME IInv, Scan PROVE IInv'
<1> USE DEF IInv, Scan
<1>1. Types'
  BY DEF Types, Cell
<1>2. OrderInv'
  <2>1. Extent = size /\ Extent' = size /\ array' = array
    BY DEF Extent
  <2>2. QED
    BY <2>1 DEF OrderInv
<1>3. ScanInv'
  BY DEF ScanInv, Passes, Types, Cell
<1>4. ShiftUpInv'
  BY DEF ShiftUpInv
<1>5. QED
  BY <1>1, <1>2, <1>3, <1>4

LEMMA InsertAtEndStep == ASSUME IInv, InsertAtEnd PROVE IInv'
<1> USE DEF IInv, InsertAtEnd
<1>1. Types'
  BY DEF Types, Cell
<1>2. OrderInv'
  <2>1. Extent = size /\ Extent' = size + 1
    BY DEF Extent
  <2>2. Filled(array, size) /\ InOrder(array, size)
    BY <2>1 DEF OrderInv, Good
  <2>3. \A c \in 0..(size - 1) : array'[c] = array[c]
    BY DEF Types, Cell
  <2>4. array'[size] = item /\ item \in Item
    BY DEF Types, Cell
  <2>5. Filled(array', size + 1)
    BY <2>2, <2>3, <2>4 DEF Filled, Types, Cell
  <2>6. \A c \in 0..(size - 1) : Key[array[c]] <= Key[item]
    BY <2>2, <2>4 DEF ScanInv, Filled, Types, Cell
  <2>7. InOrder(array', size + 1)
    <3> SUFFICES ASSUME NEW i \in 0..size, NEW j \in 0..size, i < j
                 PROVE  Key[array'[i]] <= Key[array'[j]]
      BY DEF InOrder, Types, Cell
    <3>1. CASE j = size
      BY <3>1, <2>3, <2>4, <2>6 DEF Types, Cell
    <3>2. CASE j < size
      BY <3>2, <2>2, <2>3 DEF InOrder, Types, Cell
    <3>3. QED
      BY <3>1, <3>2 DEF Types, Cell
  <2>8. QED
    BY <2>1, <2>5, <2>7 DEF OrderInv, Good
<1>3. ScanInv' /\ ShiftUpInv'
  BY DEF ScanInv, ShiftUpInv
<1>4. QED
  BY <1>1, <1>2, <1>3

LEMMA InsertHereStep == ASSUME IInv, InsertHere PROVE IInv'
<1> USE DEF IInv, InsertHere
<1>1. Types'
  BY DEF Types, Cell
<1>2. Filled(array, size) /\ InOrder(array, size)
  <2>1. Extent = size
    BY DEF Extent
  <2>2. QED
    BY <2>1 DEF OrderInv, Good
<1>3. /\ array'[iterator] = item /\ item \in Item /\ iterator \in 0..(size - 1)
      /\ \A c \in 0..(size - 1) : c # iterator => array'[c] = array[c]
  BY DEF Types, Cell
<1>4. /\ Key[item] <= Key[array[iterator]]
      /\ \A c \in 0..(iterator - 1) : Key[array[c]] <= Key[item]
  BY <1>2, <1>3 DEF ScanInv, Passes, Filled, Types, Cell
<1>5. \A c \in (iterator + 1)..(size - 1) : Key[array[iterator]] <= Key[array[c]]
  BY <1>2, <1>3 DEF InOrder, Types, Cell
<1>6. OrderInv'
  <2>1. Extent' = size
    BY <1>3 DEF Extent, Types, Cell
  <2>2. Filled(array', size)
    BY <1>2, <1>3 DEF Filled
  <2>3. InOrder(array', size)
    <3> SUFFICES ASSUME NEW i \in 0..(size - 1), NEW j \in 0..(size - 1), i < j
                 PROVE  Key[array'[i]] <= Key[array'[j]]
      BY DEF InOrder
    <3>1. CASE i = iterator
      <4>1. Key[array[iterator]] <= Key[array[j]] /\ array'[j] = array[j]
        BY <3>1, <1>3, <1>5 DEF Types, Cell
      <4>2. {Key[item], Key[array[iterator]], Key[array[j]]} \subseteq Nat
        BY <1>2, <1>3 DEF Filled
      <4>3. QED
        BY <3>1, <4>1, <4>2, <1>3, <1>4
    <3>2. CASE j = iterator
      BY <3>2, <1>3, <1>4 DEF Types, Cell
    <3>3. CASE i # iterator /\ j # iterator
      BY <3>3, <1>2, <1>3 DEF InOrder
    <3>4. QED
      BY <3>1, <3>2, <3>3
  <2>4. QED
    BY <2>1, <2>2, <2>3 DEF OrderInv, Good
<1>7. ShiftUpInv'
  <2>1. tmp' = array[iterator] /\ tmp' \in Item /\ UNCHANGED <<iterator, size>>
    BY <1>2, <1>3 DEF Filled
  <2>2. \A c \in (iterator + 1)..(size - 1) : array'[c] = array[c]
    BY <1>3 DEF Types, Cell
  <2>3. QED
    BY <1>3, <1>4, <1>5, <2>1, <2>2 DEF ShiftUpInv
<1>8. ScanInv'
  BY DEF ScanInv
<1>9. QED
  BY <1>1, <1>6, <1>7, <1>8

LEMMA ShiftUpStep == ASSUME IInv, ShiftUp PROVE IInv'
<1> USE DEF IInv, ShiftUp
<1>1. Types'
  BY DEF Types, Cell
<1>2. Filled(array, size) /\ InOrder(array, size)
  <2>1. Extent = size
    BY DEF Extent, Types, Cell
  <2>2. QED
    BY <2>1 DEF OrderInv, Good
<1>3. /\ array'[iterator + 1] = tmp /\ tmp \in Item /\ iterator \in 0..(size - 1)
      /\ \A c \in 0..size : c # iterator + 1 => array'[c] = array[c]
  BY DEF ShiftUpInv, Types, Cell
<1>4. \A c \in 0..iterator : Key[array[c]] <= Key[tmp]
  <2> SUFFICES ASSUME NEW c \in 0..iterator PROVE Key[array[c]] <= Key[tmp]
    OBVIOUS
  <2>1. Key[array[iterator]] <= Key[tmp]
    BY <1>3 DEF ShiftUpInv
  <2>2. c = iterator \/ Key[array[c]] <= Key[array[iterator]]
    BY <1>2, <1>3 DEF InOrder, Types, Cell
  <2>3. {Key[array[c]], Key[array[iterator]], Key[tmp]} \subseteq Nat
    BY <1>2, <1>3 DEF Filled, Types, Cell
  <2>4. QED
    BY <2>1, <2>2, <2>3
<1>5. \A c \in (iterator + 1)..(size - 1) : Key[tmp] <= Key[array[c]]
  BY <1>3 DEF ShiftUpInv
<1>6. \A n \in {size, size + 1} :
        iterator + 1 <= n - 1 /\ (n = size + 1 => iterator + 1 = size)
          => Good(array', n)
  <2> SUFFICES ASSUME NEW n \in {size, size + 1}, iterator + 1 <= n - 1,
                      n = size + 1 => iterator + 1 = size
               PROVE  Good(array', n)
    OBVIOUS
  <2>1. n \in Nat /\ n - 1 <= size
        /\ \A c \in 0..(n - 1) : c # iterator + 1 => c \in 0..(size - 1)
    BY <1>3 DEF Types, Cell
  <2>2. Filled(array', n)
    BY <1>2, <1>3, <2>1 DEF Filled, Types, Cell
  <2>3. InOrder(array', n)
    <3> SUFFICES ASSUME NEW i \in 0..(n - 1), NEW j \in 0..(n - 1), i < j
                 PROVE  Key[array'[i]] <= Key[array'[j]]
      BY DEF InOrder
    <3>1. CASE i = iterator + 1
      <4>1. j \in (iterator + 1)..(size - 1) /\ j # iterator + 1
        BY <3>1, <2>1, <1>3 DEF Types, Cell
      <4>2. QED
        BY <3>1, <4>1, <1>3, <1>5 DEF Types, Cell
    <3>2. CASE j = iterator + 1
      <4>1. i \in 0..iterator /\ i # iterator + 1 /\ i \in 0..size
        BY <3>2, <2>1, <1>3 DEF Types, Cell
      <4>2. QED
        BY <3>2, <4>1, <1>3, <1>4
    <3>3. CASE i # iterator + 1 /\ j # iterator + 1
      <4>1. i \in 0..(size - 1) /\ j \in 0..(size - 1)
        BY <3>3, <2>1
      <4>2. i \in 0..size /\ j \in 0..size
        BY <4>1 DEF Types, Cell
      <4>3. QED
        BY <3>3, <4>1, <4>2, <1>2, <1>3 DEF InOrder
    <3>4. QED
      BY <3>1, <3>2, <3>3
  <2>4. QED
    BY <2>2, <2>3 DEF Good
<1>7. OrderInv'
  <2>1. CASE iterator + 1 = size
    <3>1. Extent' = size + 1
      BY <2>1 DEF Extent, Types, Cell
    <3>2. Good(array', size + 1)
      BY <1>6, <2>1, <1>3 DEF Types, Cell
    <3>3. QED
      BY <3>1, <3>2 DEF OrderInv
  <2>2. CASE iterator + 1 < size
    <3>1. Extent' = size
      BY <2>2 DEF Extent, Types, Cell
    <3>2. Good(array', size)
      BY <1>6, <2>2, <1>3 DEF Types, Cell
    <3>3. QED
      BY <3>1, <3>2 DEF OrderInv
  <2>3. QED
    BY <2>1, <2>2, <1>3 DEF Types, Cell
<1>8. ShiftUpInv'
  <2> SUFFICES ASSUME iterator + 1 < size
               PROVE  /\ tmp' \in Item /\ Key[array'[iterator']] <= Key[tmp']
                      /\ \A c \in (iterator' + 1)..(size' - 1) :
                           Key[tmp'] <= Key[array'[c]]
    BY DEF ShiftUpInv
  <2>1. iterator + 1 \in 0..(size - 1) /\ iterator' = iterator + 1
        /\ size' = size /\ tmp' = array[iterator + 1]
    BY <1>3 DEF Types, Cell
  <2>2. tmp' \in Item /\ Key[array'[iterator']] <= Key[tmp']
    BY <2>1, <1>2, <1>3, <1>5 DEF Filled, Types, Cell
  <2>3. ASSUME NEW c \in (iterator' + 1)..(size' - 1)
        PROVE  Key[tmp'] <= Key[array'[c]]
    <3>1. c \in 0..(size - 1) /\ c \in 0..size /\ iterator + 1 < c
      BY <2>1 DEF Types, Cell
    <3>2. array'[c] = array[c]
      BY <3>1, <2>1, <1>3
    <3>3. Key[array[iterator + 1]] <= Key[array[c]]
      BY <3>1, <2>1, <1>2 DEF InOrder
    <3>4. QED
      BY <3>2, <3>3, <2>1
  <2>4. QED
    BY <2>2, <2>3
<1>9. ScanInv'
  BY DEF ScanInv
<1>10. QED
  BY <1>1, <1>7, <1>8, <1>9

LEMMA InsertDoneStep == ASSUME IInv, InsertDone PROVE IInv'
<1> USE DEF IInv, InsertDone
<1>1. Types'
  BY DEF Types, Cell
<1>2. OrderInv'
  <2>1. Extent = size + 1 /\ Extent' = size + 1 /\ array' = array
    BY DEF Extent
  <2>2. QED
    BY <2>1 DEF OrderInv
<1>3. ScanInv' /\ ShiftUpInv'
  BY DEF ScanInv, ShiftUpInv
<1>4. QED
  BY <1>1, <1>2, <1>3

LEMMA CallRemoveStep ==
  ASSUME IInv, NEW i \in Cell, CallRemove(i)
  PROVE  IInv'
<1> USE DEF IInv, CallRemove
<1>1. Types'
  BY DEF Types, Cell
<1>2. OrderInv'
  <2>1. Extent = size /\ Extent' = size /\ array' = array
    BY DEF Extent, Types, Cell
  <2>2. QED
    BY <2>1 DEF OrderInv
<1>3. ScanInv' /\ ShiftUpInv'
  BY DEF ScanInv, ShiftUpInv
<1>4. QED
  BY <1>1, <1>2, <1>3

LEMMA ShiftDownStep == ASSUME IInv, ShiftDown PROVE IInv'
<1> USE DEF IInv, ShiftDown
<1>1. Types'
  BY DEF Types, Cell
<1>2. Filled(array, size) /\ InOrder(array, size)
  <2>1. Extent = size
    BY DEF Extent, Types, Cell
  <2>2. QED
    BY <2>1 DEF OrderInv, Good
<1>3. /\ array'[iterator] = array[iterator + 1] /\ iterator \in 0..(size - 1)
      /\ \A c \in 0..(size - 1) : c # iterator => array'[c] = array[c]
  BY DEF Types, Cell
<1>4. Extent' \in 0..size /\ (iterator < Extent' => iterator + 1 < size)
  BY <1>3 DEF Extent, Types, Cell
<1>5. \A c \in 0..(Extent' - 1) : \E d \in 0..(size - 1) :
        /\ array'[c] = array[d]
        /\ d = IF c = iterator THEN c + 1 ELSE c
  <2> SUFFICES ASSUME NEW c \in 0..(Extent' - 1)
               PROVE  \E d \in 0..(size - 1) :
                        /\ array'[c] = array[d]
                        /\ d = IF c = iterator THEN c + 1 ELSE c
    OBVIOUS
  <2>1. CASE c = iterator
    <3>1. iterator < Extent'
      BY <2>1, <1>3, <1>4
    <3>2. c + 1 \in 0..(size - 1)
      BY <2>1, <3>1, <1>3, <1>4 DEF Types, Cell
    <3>3. array'[c] = array[c + 1]
      BY <2>1, <1>3
    <3>4. QED
      BY <2>1, <3>2, <3>3
  <2>2. CASE c # iterator
    <3>1. c \in 0..(size - 1)
      <4>1. Extent' \in Nat /\ Extent' <= size /\ size \in Nat
        BY <1>4 DEF Types, Cell
      <4>2. c \in Nat /\ c < Extent'
        BY <4>1
      <4>3. QED
        BY <4>1, <4>2
    <3>2. QED
      BY <2>2, <3>1, <1>3
  <2>3. QED
    BY <2>1, <2>2
<1>6. OrderInv'
  <2>1. Filled(array', Extent')
    BY <1>2, <1>5 DEF Filled
  <2>2. InOrder(array', Extent')
    <3> SUFFICES ASSUME NEW i \in 0..(Extent' - 1), NEW j \in 0..(Extent' - 1),
                        i < j
                 PROVE  Key[array'[i]] <= Key[array'[j]]
      BY DEF InOrder
    <3>1. PICK d \in 0..(size - 1) :
            array'[i] = array[d] /\ d = IF i = iterator THEN i + 1 ELSE i
      BY <1>5
    <3>2. PICK e \in 0..(size - 1) :
            array'[j] = array[e] /\ e = IF j = iterator THEN j + 1 ELSE j
      BY <1>5
    <3>3. d = e \/ d < e
      BY <3>1, <3>2, <1>4
    <3>4. Key[array[d]] \in Nat
      BY <1>2 DEF Filled
    <3>5. QED
      BY <3>1, <3>2, <3>3, <3>4, <1>2 DEF InOrder
  <2>3. QED
    BY <2>1, <2>2 DEF OrderInv, Good
<1>7. ScanInv' /\ ShiftUpInv'
  BY DEF ScanInv, ShiftUpInv
<1>8. QED
  BY <1>1, <1>6, <1>7

LEMMA RemoveDoneStep == ASSUME IInv, RemoveDone PROVE IInv'
<1> USE DEF IInv, RemoveDone
<1>1. Types'
  BY DEF Types, Cell
<1>2. OrderInv'
  <2>1. Extent = size - 1 /\ Extent' = size - 1 /\ array' = array
    BY DEF Extent
  <2>2. QED
    BY <2>1 DEF OrderInv
<1>3. ScanInv' /\ ShiftUpInv'
  BY DEF ScanInv, ShiftUpInv
<1>4. QED
  BY <1>1, <1>2, <1>3

LEMMA StutterStep == ASSUME IInv, UNCHANGED vars PROVE IInv'
  BY DEF IInv, vars, Types, ScanInv, ShiftUpInv, OrderInv, Extent

LEMMA NextStep == IInv /\ [Next]_vars => IInv'
<1> SUFFICES ASSUME IInv, [Next]_vars PROVE IInv'
  OBVIOUS
<1>1. CASE Insertion
  <2>1. ASSUME NEW x \in Item, CallInsert(x) PROVE IInv'
    BY <2>1, CallInsertStep
  <2>2. QED
    BY <1>1, <2>1, ScanStep, InsertAtEndStep, InsertHereStep, ShiftUpStep,
       InsertDoneStep DEF Insertion
<1>2. CASE Removal
  <2>1. ASSUME NEW i \in Cell, CallRemove(i) PROVE IInv'
    BY <2>1, CallRemoveStep
  <2>2. QED
    BY <1>2, <2>1, ShiftDownStep, RemoveDoneStep DEF Removal
<1>3. CASE UNCHANGED vars
  BY <1>3, StutterStep
<1>4. QED
  BY <1>1, <1>2, <1>3 DEF Next

\* The invariant of the loops.
THEOREM Invariance == Spec => []IInv
  BY InitIInv, NextStep, PTL DEF Spec

\* Whatever is inserted and removed, in whatever order and with whatever keys
\* that compare equal, the array is sorted whenever no call runs.
THEOREM SortedTheorem == Spec => []SortedBetweenCalls
<1>1. IInv => SortedBetweenCalls
  <2> SUFFICES ASSUME IInv, pc = "idle" PROVE InOrder(array, size)
    BY DEF SortedBetweenCalls, InOrder
  <2>1. Extent = size
    BY DEF Extent
  <2>2. QED
    BY <2>1 DEF IInv, OrderInv, Good
<1>2. QED
  BY <1>1, Invariance, PTL

-----------------------------------------------------------------------------
(* What the loops make of the content *)

\* No item is in the first n cells twice.
Distinct(arr, n) == \A i, j \in 0..(n - 1) : arr[i] = arr[j] => i = j

\* When the call began the array held what it holds between calls.
Before ==
  /\ was.size = size /\ was.array \in [Cell -> Item \cup {NoItem}]
  /\ Filled(was.array, size) /\ Distinct(was.array, size)

\* item is not in the array yet, and those before cell k are smaller.
Precede(k) ==
  /\ \A c \in 0..(size - 1) : was.array[c] # item
  /\ \A c \in 0..(k - 1) : Key[was.array[c]] < Key[item]

\* item went into cell k; those from there to iterator are a cell further up,
\* and the one that has to move next is in tmp.
Raised(k) ==
  /\ k <= iterator /\ Precede(k) /\ ~(Key[was.array[k]] < Key[item])
  /\ iterator < size => tmp = was.array[iterator]
  /\ \A c \in 0..size :
       \/ c > iterator /\ c = size
       \/ array[c] = IF c = k THEN item
                     ELSE IF k < c /\ c <= iterator THEN was.array[c - 1]
                     ELSE was.array[c]

\* item came out of cell k; those from there to iterator are a cell further down.
Lowered(k) ==
  /\ k <= iterator /\ item = was.array[k]
  /\ \A c \in 0..(size - 1) :
       \/ c < iterator /\ c = size - 1
       \/ array[c] = IF k <= c /\ c < iterator THEN was.array[c + 1]
                     ELSE was.array[c]

LoopInv ==
  /\ pc = "idle" => Distinct(array, size)
  /\ pc # "idle" => Before
  /\ pc = "scan" => array = was.array /\ Precede(iterator)
  /\ pc = "shift_up" => \E k \in 0..(size - 1) : Raised(k)
  /\ pc = "shift_down" => \E k \in 0..(size - 1) : Lowered(k)

\* What insert_ordered_array does to the places of a sequence.
LEMMA InsertFacts ==
  ASSUME NEW s \in Seq(Item), NEW x \in Item, NEW k \in 1..(Len(s) + 1),
         NEW t, t = InsertAt(s, k, x)
  PROVE  /\ t \in Seq(Item) /\ Len(t) = Len(s) + 1
         /\ \A n \in 1..Len(t) : t[n] = IF n < k THEN s[n] ELSE IF n = k THEN x ELSE s[n - 1]
<1>1. Len(s) \in Nat /\ \A n \in 1..Len(s) : s[n] \in Item
  BY EmptySeq, ElementOfSeq
<1>. DEFINE u == SubSeq(s, 1, k - 1)
            v == SubSeq(s, k, Len(s))
<1>2. u \in Seq(Item) /\ Len(u) = k - 1 /\ \A n \in 1..(k - 1) : u[n] = s[n]
  <2>1. 1 \in Int /\ k - 1 \in Int /\ \A n \in 1..(k - 1) : s[n] \in Item
    BY <1>1
  <2>2. /\ u \in Seq(Item) /\ Len(u) = IF 1 <= k - 1 THEN (k - 1) - 1 + 1 ELSE 0
        /\ \A n \in 1..((k - 1) - 1 + 1) : u[n] = s[1 + n - 1]
    BY ONLY <2>1, SubSeqProperties DEF u
  <2>3. k \in Nat /\ k >= 1 /\ (k - 1) - 1 + 1 = k - 1
    BY <1>1
  <2>4. \A n \in 1..(k - 1) : 1 + n - 1 = n
    BY <2>3
  <2>. HIDE DEF u
  <2>. QED BY <2>2, <2>3, <2>4
<1>3. /\ v \in Seq(Item) /\ Len(v) = Len(s) - k + 1
      /\ \A n \in 1..(Len(s) - k + 1) : v[n] = s[k + n - 1]
  <2>1. k \in Int /\ Len(s) \in Int /\ \A n \in k..Len(s) : s[n] \in Item
    BY <1>1
  <2>2. /\ v \in Seq(Item) /\ Len(v) = IF k <= Len(s) THEN Len(s) - k + 1 ELSE 0
        /\ \A n \in 1..(Len(s) - k + 1) : v[n] = s[k + n - 1]
    BY ONLY <2>1, SubSeqProperties DEF v
  <2>3. k \in Nat /\ k <= Len(s) + 1
    BY <1>1
  <2>. HIDE DEF v
  <2>. QED BY <1>1, <2>2, <2>3
<1>4. t = (u \o <<x>>) \o v
  BY DEF InsertAt
<1>. HIDE DEF u, v
<1>5. u \o <<x>> \in Seq(Item) /\ Len(u \o <<x>>) = k
      /\ \A n \in 1..k : (u \o <<x>>)[n] = IF n < k THEN s[n] ELSE x
  BY <1>1, <1>2, ConcatProperties
<1>. DEFINE w == u \o <<x>>
<1>. HIDE DEF w
<1>6. w \in Seq(Item) /\ Len(w) = k /\ t = w \o v /\ \A n \in 1..k : w[n] = IF n < k THEN s[n] ELSE x
  BY <1>4, <1>5 DEF w
<1>7. /\ t \in Seq(Item) /\ Len(t) = Len(w) + Len(v)
      /\ \A n \in 1..(Len(w) + Len(v)) : t[n] = IF n <= Len(w) THEN w[n] ELSE v[n - Len(w)]
  <2>1. w \in Seq(Item) /\ v \in Seq(Item) /\ t = w \o v
    BY <1>3, <1>6
  <2>2. /\ w \o v \in Seq(Item) /\ Len(w \o v) = Len(w) + Len(v)
        /\ \A n \in 1..(Len(w) + Len(v)) :
             (w \o v)[n] = IF n <= Len(w) THEN w[n] ELSE v[n - Len(w)]
    BY ONLY <2>1, ConcatProperties
  <2>. QED BY ONLY <2>1, <2>2
<1>8. Len(t) = Len(s) + 1
  BY <1>1, <1>3, <1>6, <1>7
<1>9. ASSUME NEW n \in 1..Len(t)
      PROVE  t[n] = IF n < k THEN s[n] ELSE IF n = k THEN x ELSE s[n - 1]
  <2>1. CASE n <= k
    BY <1>1, <1>3, <1>6, <1>7, <1>8, <2>1
  <2>2. CASE ~(n <= k)
    <3>1. n - k \in 1..(Len(s) - k + 1) /\ k + (n - k) - 1 = n - 1
      BY <1>1, <1>8, <2>2
    <3>2. v[n - k] = s[n - 1]
      BY <1>3, <3>1
    <3>3. n \in 1..(Len(w) + Len(v)) /\ ~(n <= Len(w)) /\ Len(w) = k /\ n # k /\ ~(n < k)
      BY <1>1, <1>3, <1>6, <1>8, <2>2
    <3>4. t[n] = v[n - k]
      BY <1>7, <3>3
    <3>. QED BY <3>2, <3>3, <3>4
  <2>. QED BY <2>1, <2>2
<1>. QED BY <1>7, <1>8, <1>9

\* What remove_ordered_array does to them.
LEMMA RemoveFacts ==
  ASSUME NEW s \in Seq(Item), NEW k \in 1..Len(s), NEW t, t = RemoveAt(s, k)
  PROVE  /\ t \in Seq(Item) /\ Len(t) = Len(s) - 1
         /\ \A n \in 1..Len(t) : t[n] = IF n < k THEN s[n] ELSE s[n + 1]
<1>1. Len(s) \in Nat /\ \A n \in 1..Len(s) : s[n] \in Item
  BY EmptySeq, ElementOfSeq
<1>. DEFINE u == SubSeq(s, 1, k - 1)
            v == SubSeq(s, k + 1, Len(s))
<1>2. u \in Seq(Item) /\ Len(u) = k - 1 /\ \A n \in 1..(k - 1) : u[n] = s[n]
  <2>1. 1 \in Int /\ k - 1 \in Int /\ \A n \in 1..(k - 1) : s[n] \in Item
    BY <1>1
  <2>2. /\ u \in Seq(Item) /\ Len(u) = IF 1 <= k - 1 THEN (k - 1) - 1 + 1 ELSE 0
        /\ \A n \in 1..((k - 1) - 1 + 1) : u[n] = s[1 + n - 1]
    BY ONLY <2>1, SubSeqProperties DEF u
  <2>3. k \in Nat /\ k >= 1 /\ (k - 1) - 1 + 1 = k - 1
    BY <1>1
  <2>4. \A n \in 1..(k - 1) : 1 + n - 1 = n
    BY <2>3
  <2>. HIDE DEF u
  <2>. QED BY <2>2, <2>3, <2>4
<1>3. v \in Seq(Item) /\ Len(v) = Len(s) - k /\ \A n \in 1..(Len(s) - k) : v[n] = s[k + n]
  <2>1. k + 1 \in Int /\ Len(s) \in Int /\ \A n \in (k + 1)..Len(s) : s[n] \in Item
    BY <1>1
  <2>2. /\ v \in Seq(Item) /\ Len(v) = IF k + 1 <= Len(s) THEN Len(s) - (k + 1) + 1 ELSE 0
        /\ \A n \in 1..(Len(s) - (k + 1) + 1) : v[n] = s[(k + 1) + n - 1]
    BY ONLY <2>1, SubSeqProperties DEF v
  <2>3. k \in Nat /\ k <= Len(s) /\ Len(s) - (k + 1) + 1 = Len(s) - k
    BY <1>1
  <2>. HIDE DEF v
  <2>4. ASSUME NEW n \in 1..(Len(s) - k) PROVE v[n] = s[k + n]
    <3>1. v[n] = s[(k + 1) + n - 1]
      BY <2>2, <2>3
    <3>2. (k + 1) + n - 1 = k + n
      BY <1>1, <2>3
    <3>. QED BY <3>1, <3>2
  <2>5. Len(v) = Len(s) - k
    <3>1. CASE k + 1 <= Len(s)
      BY <2>2, <2>3, <3>1
    <3>2. CASE k = Len(s)
      <4>1. ~(k + 1 <= Len(s)) /\ Len(s) - k = 0
        BY <2>3, <3>2
      <4>. QED BY <2>2, <4>1
    <3>3. k \in Nat /\ Len(s) \in Nat /\ k <= Len(s)
      BY <1>1, <2>3
    <3>4. k + 1 <= Len(s) \/ k = Len(s)
      BY ONLY <3>3
    <3>. QED BY ONLY <3>1, <3>2, <3>4
  <2>. QED BY <2>2, <2>4, <2>5
<1>4. t = u \o v
  BY DEF RemoveAt
<1>. HIDE DEF u, v
<1>5. /\ t \in Seq(Item) /\ Len(t) = Len(u) + Len(v)
      /\ \A n \in 1..(Len(u) + Len(v)) : t[n] = IF n <= Len(u) THEN u[n] ELSE v[n - Len(u)]
  <2>1. u \in Seq(Item) /\ v \in Seq(Item)
    BY <1>2, <1>3
  <2>2. /\ u \o v \in Seq(Item) /\ Len(u \o v) = Len(u) + Len(v)
        /\ \A n \in 1..(Len(u) + Len(v)) :
             (u \o v)[n] = IF n <= Len(u) THEN u[n] ELSE v[n - Len(u)]
    BY ONLY <2>1, ConcatProperties
  <2>. QED BY ONLY <1>4, <2>2
<1>6. Len(t) = Len(s) - 1
  BY <1>1, <1>2, <1>3, <1>5
<1>7. ASSUME NEW n \in 1..Len(t)
      PROVE  t[n] = IF n < k THEN s[n] ELSE s[n + 1]
  <2>1. CASE n < k
    BY <1>1, <1>2, <1>3, <1>5, <1>6, <2>1
  <2>2. CASE ~(n < k)
    <3>1. n - (k - 1) \in 1..(Len(s) - k) /\ k + (n - (k - 1)) = n + 1
      BY <1>1, <1>6, <2>2
    <3>2. v[n - (k - 1)] = s[n + 1]
      BY <1>3, <3>1
    <3>. QED BY <1>1, <1>2, <1>3, <1>5, <1>6, <2>2, <3>2
  <2>. QED BY <2>1, <2>2
<1>. QED BY <1>5, <1>6, <1>7

LEMMA ContentFacts ==
  ASSUME NEW w, NEW n \in Nat, Filled(w, n)
  PROVE  /\ Content(w, n) \in Seq(Item) /\ Len(Content(w, n)) = n
         /\ \A i \in 1..n : Content(w, n)[i] = w[i - 1]
<1>. DEFINE s == Content(w, n)
<1>1. \A i \in 1..n : w[i - 1] \in Item
  <2>1. \A i \in 1..n : i - 1 \in 0..(n - 1)
    OBVIOUS
  <2>. QED BY <2>1 DEF Filled
<1>2. s \in [1..n -> Item] /\ \A i \in 1..n : s[i] = w[i - 1]
  BY <1>1 DEF Content
<1>. HIDE DEF s
<1>3. s \in Seq(Item)
  BY <1>2
<1>4. Len(s) = n
  BY <1>2
<1>. QED BY <1>2, <1>3, <1>4 DEF s

\* A sequence is known by its length and its places.
LEMMA SameSequence ==
  ASSUME NEW n \in Nat, NEW s \in Seq(Item), NEW t \in Seq(Item),
         Len(s) = n, Len(t) = n, \A i \in 1..n : s[i] = t[i]
  PROVE  s = t
  OBVIOUS

\* The scan stops where Passed says.
LEMMA PassedContent ==
  ASSUME NEW w, NEW n \in Nat, Filled(w, n), NEW x \in Item, NEW k \in 0..n,
         \A c \in 0..(k - 1) : Key[w[c]] < Key[x],
         k < n => ~(Key[w[k]] < Key[x])
  PROVE  Passed(Content(w, n), x, Key) = k
<1>. DEFINE s == Content(w, n)
            P == {i \in 1..Len(s) : \A j \in 1..i : Key[s[j]] < Key[x]}
<1>1. Len(s) = n /\ \A i \in 1..n : s[i] = w[i - 1]
  BY ContentFacts
<1>2. Passed(s, x, Key) = Cardinality(P)
  BY DEF Passed
<1>. HIDE DEF s
<1>3. P = 1..k
  <2>1. ASSUME NEW i \in 1..k PROVE i \in P
    <3>1. i \in 1..n /\ \A j \in 1..i : j \in 1..n /\ j - 1 \in 0..(k - 1)
      OBVIOUS
    <3>. QED BY <1>1, <3>1
  <2>2. ASSUME NEW i \in P PROVE i \in 1..k
    <3>1. i \in 1..n /\ \A j \in 1..i : Key[s[j]] < Key[x]
      BY <1>1
    <3>2. ASSUME ~(i <= k) PROVE FALSE
      <4>1. k < n /\ k + 1 \in 1..i /\ k + 1 \in 1..n /\ (k + 1) - 1 = k
        BY <3>1, <3>2
      <4>2. Key[s[k + 1]] < Key[x] /\ s[k + 1] = w[k]
        BY <1>1, <3>1, <4>1
      <4>. QED BY <4>1, <4>2
    <3>. QED BY <3>1, <3>2
  <2>. HIDE DEF P
  <2>. QED BY <2>1, <2>2
<1>. HIDE DEF P
<1>4. Cardinality(1..k) = k
  <2>1. 1 \in Int /\ k \in Int /\ k \in Nat
    OBVIOUS
  <2>2. Cardinality(1..k) = IF 1 > k THEN 0 ELSE k - 1 + 1
    BY ONLY <2>1, FS_Interval
  <2>. QED BY ONLY <2>1, <2>2
<1>. QED BY <1>2, <1>3, <1>4 DEF s

\* The content an insertion is to leave.
LEMMA InsertedContent ==
  ASSUME NEW w, NEW n \in Nat, Filled(w, n), NEW x \in Item, NEW k \in 0..n,
         \A c \in 0..(k - 1) : Key[w[c]] < Key[x],
         k < n => ~(Key[w[k]] < Key[x]),
         NEW v, \A c \in 0..n : v[c] = IF c < k THEN w[c]
                                       ELSE IF c = k THEN x ELSE w[c - 1]
  PROVE  Content(v, n + 1) = Inserted(Content(w, n), x, Key)
<1>. DEFINE s == Content(w, n)
            t == Inserted(s, x, Key)
            u == Content(v, n + 1)
<1>1. s \in Seq(Item) /\ Len(s) = n /\ \A i \in 1..n : s[i] = w[i - 1]
  BY ContentFacts
<1>2. Filled(v, n + 1)
  <2> SUFFICES ASSUME NEW c \in 0..n PROVE v[c] \in Item
    BY DEF Filled
  <2>1. c < k => c \in 0..(n - 1)
    OBVIOUS
  <2>2. c > k => c - 1 \in 0..(n - 1)
    OBVIOUS
  <2>3. v[c] = IF c < k THEN w[c] ELSE IF c = k THEN x ELSE w[c - 1]
    OBVIOUS
  <2>. QED BY <2>1, <2>2, <2>3 DEF Filled
<1>3. u \in Seq(Item) /\ Len(u) = n + 1 /\ \A i \in 1..(n + 1) : u[i] = v[i - 1]
  BY <1>2, ContentFacts
<1>4. t = InsertAt(s, k + 1, x)
  BY PassedContent DEF Inserted
<1>. HIDE DEF s, t, u
<1>5. /\ t \in Seq(Item) /\ Len(t) = n + 1
      /\ \A i \in 1..(n + 1) :
           t[i] = IF i < k + 1 THEN s[i] ELSE IF i = k + 1 THEN x ELSE s[i - 1]
  <2>1. s \in Seq(Item) /\ x \in Item /\ k + 1 \in 1..(Len(s) + 1)
        /\ t = InsertAt(s, k + 1, x)
    BY <1>1, <1>4
  <2>2. /\ t \in Seq(Item) /\ Len(t) = Len(s) + 1
        /\ \A i \in 1..Len(t) :
             t[i] = IF i < k + 1 THEN s[i] ELSE IF i = k + 1 THEN x ELSE s[i - 1]
    BY ONLY <2>1, InsertFacts
  <2>. QED BY <1>1, <2>2
<1>6. ASSUME NEW i \in 1..(n + 1) PROVE u[i] = t[i]
  <2>1. i - 1 \in 0..n
    OBVIOUS
  <2>2. u[i] = IF i - 1 < k THEN w[i - 1] ELSE IF i - 1 = k THEN x ELSE w[(i - 1) - 1]
    BY <1>3, <2>1
  <2>3. t[i] = IF i < k + 1 THEN s[i] ELSE IF i = k + 1 THEN x ELSE s[i - 1]
    BY <1>5
  <2>4. CASE i < k + 1
    BY <1>1, <2>2, <2>3, <2>4
  <2>5. CASE i = k + 1
    BY <2>2, <2>3, <2>5
  <2>6. CASE i > k + 1
    <3>1. i - 1 \in 1..n
      BY <2>6
    <3>2. s[i - 1] = w[(i - 1) - 1]
      BY <1>1, <3>1
    <3>. QED BY <2>2, <2>3, <2>6, <3>2
  <2>. QED BY <2>4, <2>5, <2>6
<1>7. u = t
  <2>1. n + 1 \in Nat
    OBVIOUS
  <2>. QED BY ONLY <1>3, <1>5, <1>6, <2>1, SameSequence
<1>. QED BY <1>7 DEF s, t, u

\* The content a removal is to leave.
LEMMA RemovedContent ==
  ASSUME NEW w, NEW n \in Nat, Filled(w, n), Distinct(w, n), NEW k \in 0..(n - 1),
         NEW v, \A c \in 0..(n - 2) : v[c] = IF c < k THEN w[c] ELSE w[c + 1]
  PROVE  Content(v, n - 1) = Removed(Content(w, n), w[k])
<1>. DEFINE s == Content(w, n)
            t == Removed(s, w[k])
            u == Content(v, n - 1)
            I == {i \in 1..Len(s) : s[i] = w[k]}
<1>0. n - 1 \in Nat /\ n >= 1 /\ k + 1 \in 1..n /\ (k + 1) - 1 = k
  OBVIOUS
<1>1. s \in Seq(Item) /\ Len(s) = n /\ \A i \in 1..n : s[i] = w[i - 1]
  BY ContentFacts
<1>2. u \in Seq(Item) /\ Len(u) = n - 1 /\ \A i \in 1..(n - 1) : u[i] = v[i - 1]
  <2>1. Filled(v, n - 1)
    <3> SUFFICES ASSUME NEW c \in 0..((n - 1) - 1) PROVE v[c] \in Item
      BY DEF Filled
    <3>1. c \in 0..(n - 2) /\ c \in 0..(n - 1) /\ c + 1 \in 0..(n - 1)
      BY <1>0
    <3>2. v[c] = IF c < k THEN w[c] ELSE w[c + 1]
      BY <3>1
    <3>. QED BY <3>1, <3>2 DEF Filled
  <2>. QED BY <1>0, <2>1, ContentFacts
<1>3. I = {k + 1}
  <2>1. k + 1 \in I
    BY <1>0, <1>1
  <2>2. ASSUME NEW i \in I PROVE i = k + 1
    <3>1. i \in 1..n /\ w[i - 1] = w[k]
      BY <1>1
    <3>2. i - 1 \in 0..(n - 1)
      BY <3>1
    <3>3. i - 1 = k
      BY <3>1, <3>2 DEF Distinct
    <3>. QED BY <3>1, <3>3
  <2>. QED BY <2>1, <2>2
<1>4. Min({k + 1}) = k + 1
  BY DEF Min
<1>5. t = RemoveAt(s, k + 1)
  <2>1. \E i \in 1..Len(s) : s[i] = w[k]
    BY <1>3
  <2>2. SelectInSeq(s, LAMBDA y : y = w[k]) = k + 1
    BY <1>3, <1>4 DEF SelectInSeq
  <2>. QED BY <2>1, <2>2 DEF Removed, RemoveFirst
<1>. HIDE DEF s, t, u
<1>6. /\ t \in Seq(Item) /\ Len(t) = n - 1
      /\ \A i \in 1..(n - 1) : t[i] = IF i < k + 1 THEN s[i] ELSE s[i + 1]
  <2>1. s \in Seq(Item) /\ k + 1 \in 1..Len(s) /\ t = RemoveAt(s, k + 1)
    BY <1>0, <1>1, <1>5
  <2>2. /\ t \in Seq(Item) /\ Len(t) = Len(s) - 1
        /\ \A i \in 1..Len(t) : t[i] = IF i < k + 1 THEN s[i] ELSE s[i + 1]
    BY ONLY <2>1, RemoveFacts
  <2>. QED BY <1>1, <2>2
<1>7. ASSUME NEW i \in 1..(n - 1) PROVE u[i] = t[i]
  <2>1. i - 1 \in 0..(n - 2) /\ i \in 1..n /\ i + 1 \in 1..n /\ (i + 1) - 1 = (i - 1) + 1
    OBVIOUS
  <2>2. u[i] = IF i - 1 < k THEN w[i - 1] ELSE w[(i - 1) + 1]
    BY <1>2, <2>1
  <2>3. s[i] = w[i - 1] /\ s[i + 1] = w[(i - 1) + 1]
    BY <1>1, <2>1
  <2>4. i - 1 < k <=> i < k + 1
    OBVIOUS
  <2>. QED BY <1>6, <2>2, <2>3, <2>4
<1>8. u = t
  BY ONLY <1>0, <1>2, <1>6, <1>7, SameSequence
<1>. QED BY <1>8 DEF s, t, u

-----------------------------------------------------------------------------

Loops == IInv /\ LoopInv

LEMMA InitLoops == Init => Loops
  BY InitIInv DEF Init, Loops, LoopInv, Distinct

\* Where a step of a call starts from.
LEMMA LoopFacts ==
  ASSUME Loops, pc # "idle"
  PROVE  /\ size \in 0..MaxSize /\ MaxSize \in Nat /\ Key \in [Item -> Nat]
         /\ iterator \in 0..size /\ array \in [Cell -> Item \cup {NoItem}]
         /\ Filled(was.array, size) /\ Distinct(was.array, size) /\ was.size = size
  BY DEF Loops, IInv, Types, LoopInv, Before, Cell

\* A call begins with the content as it is between calls.
LEMMA CallLoops ==
  ASSUME Loops, pc = "idle", was' = [array |-> array, size |-> size], size' = size
  PROVE  Before' /\ was'.array = array
<1>1. Extent = size
  BY DEF Extent
<1>2. Filled(array, size) /\ Distinct(array, size) /\ array \in [Cell -> Item \cup {NoItem}]
  BY <1>1 DEF Loops, IInv, OrderInv, Good, LoopInv, Types
<1>3. was'.array = array /\ was'.size = size
  OBVIOUS
<1>4. QED
  BY <1>2, <1>3 DEF Before

LEMMA CallInsertLoops ==
  ASSUME Loops, NEW x \in Item, CallInsert(x)
  PROVE  LoopInv'
<1>1. Before' /\ was'.array = array
  BY CallLoops DEF CallInsert
<1>2. pc' = "scan" /\ array' = was'.array
  BY <1>1 DEF CallInsert
<1>3. Precede(iterator)'
  BY <1>1 DEF CallInsert, Precede
<1>4. QED
  BY <1>1, <1>2, <1>3 DEF LoopInv

LEMMA ScanLoops == ASSUME Loops, Scan PROVE LoopInv'
<1>1. size \in 0..MaxSize /\ iterator \in 0..size /\ iterator < size
  BY LoopFacts DEF Scan
<1>2. array = was.array /\ Precede(iterator) /\ Before
  BY DEF Loops, LoopInv, Scan
<1>3. Precede(iterator + 1)
  <2> SUFFICES ASSUME NEW c \in 0..iterator PROVE Key[was.array[c]] < Key[item]
    BY <1>1, <1>2 DEF Precede
  <2>1. CASE c = iterator
    BY <1>2, <2>1 DEF Scan, Passes
  <2>2. CASE c # iterator
    <3>1. c \in 0..(iterator - 1)
      BY <1>1, <2>2
    <3>2. QED
      BY <1>2, <3>1 DEF Precede
  <2>3. QED
    BY <2>1, <2>2
<1>4. pc' = "scan" /\ array' = was'.array /\ Before' /\ Precede(iterator)'
  BY <1>2, <1>3 DEF Scan, Precede, Before
<1>5. QED
  BY <1>4 DEF LoopInv

\* An insertion that put item into cell k, between those that precede it and
\* the others, has left what Inserted says.
LEMMA InsertionEnds ==
  ASSUME Loops, pc # "idle", item \in Item, NEW k \in 0..size, Precede(k),
         k < size => ~(Key[was.array[k]] < Key[item]),
         NEW v, \A c \in 0..size : v[c] = IF c < k THEN was.array[c]
                                          ELSE IF c = k THEN item
                                          ELSE was.array[c - 1]
  PROVE  /\ Distinct(v, size + 1)
         /\ Content(v, size + 1) = Inserted(Content(was.array, was.size), item, Key)
<1>1. /\ size \in Nat /\ was.size = size
      /\ Filled(was.array, size) /\ Distinct(was.array, size)
  BY LoopFacts
<1>2. Content(v, size + 1) = Inserted(Content(was.array, was.size), item, Key)
  <2>1. \A c \in 0..(k - 1) : Key[was.array[c]] < Key[item]
    BY DEF Precede
  <2>2. QED
    BY <1>1, <2>1, InsertedContent
<1>3. ASSUME NEW i \in 0..size, NEW j \in 0..size, v[i] = v[j]
      PROVE  i = j
  <2>1. \A c \in 0..size : /\ c < k => c \in 0..(size - 1)
                           /\ c > k => c - 1 \in 0..(size - 1)
    BY <1>1
  <2>2. \A c \in 0..size : c # k => v[c] # item
    BY <2>1 DEF Precede
  <2>3. CASE i = k \/ j = k
    BY <1>3, <2>2, <2>3
  <2>4. CASE i # k /\ j # k
    <3> DEFINE From(c) == IF c < k THEN c ELSE c - 1
    <3>1. /\ From(i) \in 0..(size - 1) /\ v[i] = was.array[From(i)]
          /\ From(j) \in 0..(size - 1) /\ v[j] = was.array[From(j)]
      BY <2>1, <2>4
    <3>2. From(i) = From(j)
      <4> HIDE DEF From
      <4>1. QED
        BY <1>1, <1>3, <3>1 DEF Distinct
    <3>3. QED
      BY <1>1, <2>4, <3>2
  <2>5. QED
    BY <2>3, <2>4
<1>4. QED
  BY <1>1, <1>2, <1>3 DEF Distinct

LEMMA InsertAtEndLoops ==
  ASSUME Loops, InsertAtEnd
  PROVE  /\ LoopInv'
         /\ Content(array', size') = Inserted(Content(was.array, was.size), item, Key)
<1>1. /\ size \in 0..MaxSize /\ iterator = size /\ size < MaxSize /\ item \in Item
      /\ array \in [Cell -> Item \cup {NoItem}]
  BY LoopFacts DEF InsertAtEnd, Loops, IInv, Types
<1>2. array = was.array /\ Precede(size)
  BY <1>1 DEF Loops, LoopInv, InsertAtEnd
<1>3. \A c \in 0..size : array'[c] = IF c < size THEN was.array[c]
                                     ELSE IF c = size THEN item
                                     ELSE was.array[c - 1]
  BY <1>1, <1>2 DEF InsertAtEnd, Cell
<1>4. /\ Distinct(array', size + 1)
      /\ Content(array', size + 1) = Inserted(Content(was.array, was.size), item, Key)
  <2>1. size \in 0..size /\ pc # "idle" /\ (size < size => ~(Key[was.array[size]] < Key[item]))
    BY <1>1 DEF InsertAtEnd
  <2>2. QED
    BY <1>1, <1>2, <1>3, <2>1, InsertionEnds
<1>5. QED
  BY <1>4 DEF LoopInv, InsertAtEnd

LEMMA InsertHereLoops == ASSUME Loops, InsertHere PROVE LoopInv'
<1>1. /\ size \in 0..MaxSize /\ iterator \in 0..(size - 1) /\ size < MaxSize
      /\ array \in [Cell -> Item \cup {NoItem}]
  BY LoopFacts DEF InsertHere, Loops, IInv, Types
<1>2. array = was.array /\ Precede(iterator) /\ Before
  BY DEF Loops, LoopInv, InsertHere
<1>3. \A c \in 0..size : array'[c] = IF c = iterator THEN item ELSE was.array[c]
  BY <1>1, <1>2 DEF InsertHere, Cell
<1>4. Raised(iterator)'
  BY <1>1, <1>2, <1>3 DEF Raised, Precede, InsertHere, Passes
<1>5. pc' = "shift_up" /\ Before' /\ iterator \in 0..(size' - 1)
  BY <1>1, <1>2 DEF InsertHere, Before
<1>6. \E k \in 0..(size' - 1) : Raised(k)'
  BY <1>4, <1>5 DEF InsertHere, Raised, Precede
<1>7. QED
  BY <1>5, <1>6 DEF LoopInv

LEMMA ShiftUpLoops == ASSUME Loops, ShiftUp PROVE LoopInv'
<1>1. /\ size \in 0..MaxSize /\ iterator \in 0..(size - 1) /\ size < MaxSize
      /\ array \in [Cell -> Item \cup {NoItem}]
  BY LoopFacts DEF ShiftUp, Loops, IInv, Types
<1>2. PICK k \in 0..(size - 1) : Raised(k)
  BY DEF Loops, LoopInv, ShiftUp
<1>3. /\ k <= iterator /\ Precede(k) /\ ~(Key[was.array[k]] < Key[item])
      /\ tmp = was.array[iterator]
  BY <1>1, <1>2 DEF Raised
<1>4. /\ array'[iterator + 1] = was.array[iterator]
      /\ \A c \in 0..size : c # iterator + 1 => array'[c] = array[c]
  BY <1>1, <1>3 DEF ShiftUp, Cell
<1>5. iterator + 1 < size => tmp' = was.array[iterator + 1]
  <2> SUFFICES ASSUME iterator + 1 < size
               PROVE  array[iterator + 1] = was.array[iterator + 1]
    BY DEF ShiftUp
  <2>1. iterator + 1 \in 0..size /\ iterator + 1 # k /\ ~(iterator + 1 <= iterator)
        /\ iterator + 1 # size
    BY <1>1, <1>3
  <2>2. QED
    BY <1>2, <2>1 DEF Raised
<1>6. ASSUME NEW c \in 0..size, ~(c > iterator + 1 /\ c = size)
      PROVE  array'[c] = IF c = k THEN item
                         ELSE IF k < c /\ c <= iterator + 1 THEN was.array[c - 1]
                         ELSE was.array[c]
  <2>1. CASE c = iterator + 1
    <3>1. c # k /\ k < c /\ c <= iterator + 1 /\ c - 1 = iterator
      BY <1>1, <1>3, <2>1
    <3>2. QED
      BY <1>4, <2>1, <3>1
  <2>2. CASE c # iterator + 1
    <3>1. ~(c > iterator /\ c = size) /\ (c <= iterator + 1 <=> c <= iterator)
      BY <1>1, <1>6, <2>2
    <3>2. array[c] = IF c = k THEN item
                     ELSE IF k < c /\ c <= iterator THEN was.array[c - 1]
                     ELSE was.array[c]
      BY <1>2, <3>1 DEF Raised
    <3>3. QED
      BY <1>4, <2>2, <3>1, <3>2
  <2>3. QED
    BY <2>1, <2>2
<1>7. Raised(k)'
  <2>1. /\ iterator' = iterator + 1 /\ size' = size /\ was' = was /\ item' = item
        /\ k <= iterator + 1 /\ Precede(k)'
    BY <1>1, <1>3 DEF ShiftUp, Precede
  <2>2. QED
    BY <1>3, <1>5, <1>6, <2>1 DEF Raised
<1>8. Before /\ pc' = "shift_up" /\ size' = size /\ was' = was
  BY DEF Loops, LoopInv, ShiftUp
<1>9. QED
  BY <1>7, <1>8 DEF LoopInv, Before

LEMMA InsertDoneLoops ==
  ASSUME Loops, InsertDone
  PROVE  /\ LoopInv'
         /\ Content(array', size') = Inserted(Content(was.array, was.size), item, Key)
<1>1. size \in 0..MaxSize /\ iterator = size /\ item \in Item
  BY LoopFacts DEF InsertDone, Loops, IInv, Types
<1>2. PICK k \in 0..(size - 1) : Raised(k)
  BY DEF Loops, LoopInv, InsertDone
<1>3. \A c \in 0..size : array[c] = IF c < k THEN was.array[c]
                                    ELSE IF c = k THEN item ELSE was.array[c - 1]
  BY <1>1, <1>2 DEF Raised
<1>4. /\ Distinct(array, size + 1)
      /\ Content(array, size + 1) = Inserted(Content(was.array, was.size), item, Key)
  <2>1. k \in 0..size /\ pc # "idle" /\ Precede(k) /\ ~(Key[was.array[k]] < Key[item])
    BY <1>1, <1>2 DEF InsertDone, Raised
  <2>2. QED
    BY <1>1, <1>3, <2>1, InsertionEnds
<1>5. QED
  BY <1>4 DEF LoopInv, InsertDone

LEMMA CallRemoveLoops ==
  ASSUME Loops, NEW i \in Cell, CallRemove(i)
  PROVE  LoopInv'
<1>1. Before' /\ was'.array = array
  BY CallLoops DEF CallRemove
<1>2. size \in Nat /\ i \in 0..(size - 1)
  BY DEF Loops, IInv, Types, CallRemove, Cell
<1>3. pc' = "shift_down" /\ array' = was'.array /\ item' = was'.array[i]
      /\ iterator' = i /\ size' = size
  BY <1>1 DEF CallRemove
<1>4. Lowered(i)'
  BY <1>2, <1>3 DEF Lowered
<1>5. \E k \in 0..(size' - 1) : Lowered(k)'
  BY <1>2, <1>3, <1>4 DEF Lowered
<1>6. QED
  BY <1>1, <1>3, <1>5 DEF LoopInv

LEMMA ShiftDownLoops == ASSUME Loops, ShiftDown PROVE LoopInv'
<1>1. /\ size \in 0..MaxSize /\ iterator \in 0..(size - 1)
      /\ array \in [Cell -> Item \cup {NoItem}]
  BY LoopFacts DEF ShiftDown
<1>2. PICK k \in 0..(size - 1) : Lowered(k)
  BY DEF Loops, LoopInv, ShiftDown
<1>3. k <= iterator /\ item = was.array[k]
  BY <1>2 DEF Lowered
<1>4. /\ array'[iterator] = array[iterator + 1]
      /\ \A c \in 0..(size - 1) : c # iterator => array'[c] = array[c]
  BY <1>1 DEF ShiftDown, Cell
<1>5. ASSUME NEW c \in 0..(size - 1), ~(c < iterator + 1 /\ c = size - 1)
      PROVE  array'[c] = IF k <= c /\ c < iterator + 1 THEN was.array[c + 1]
                         ELSE was.array[c]
  <2>1. CASE c = iterator
    <3>1. /\ k <= c /\ c < iterator + 1 /\ iterator + 1 \in 0..(size - 1)
          /\ ~(iterator + 1 < iterator)
      BY <1>1, <1>3, <1>5, <2>1
    <3>2. array[iterator + 1] = was.array[iterator + 1]
      BY <1>2, <3>1 DEF Lowered
    <3>3. QED
      BY <1>4, <2>1, <3>1, <3>2
  <2>2. CASE c # iterator
    <3>1. ~(c < iterator /\ c = size - 1) /\ (c < iterator + 1 <=> c < iterator)
      BY <1>1, <1>5, <2>2
    <3>2. array[c] = IF k <= c /\ c < iterator THEN was.array[c + 1] ELSE was.array[c]
      BY <1>2, <3>1 DEF Lowered
    <3>3. QED
      BY <1>4, <2>2, <3>1, <3>2
  <2>3. QED
    BY <2>1, <2>2
<1>6. Lowered(k)'
  <2>1. /\ iterator' = iterator + 1 /\ size' = size /\ was' = was /\ item' = item
        /\ k <= iterator + 1
    BY <1>1, <1>3 DEF ShiftDown
  <2>2. QED
    BY <1>3, <1>5, <2>1 DEF Lowered
<1>7. Before /\ pc' = "shift_down" /\ size' = size /\ was' = was
  BY DEF Loops, LoopInv, ShiftDown
<1>8. QED
  BY <1>6, <1>7 DEF LoopInv, Before

LEMMA RemoveDoneLoops ==
  ASSUME Loops, RemoveDone
  PROVE  /\ LoopInv'
         /\ Content(array', size') = Removed(Content(was.array, was.size), item)
<1>1. /\ size \in Nat /\ iterator = size /\ was.size = size
      /\ Filled(was.array, size) /\ Distinct(was.array, size)
  BY LoopFacts DEF RemoveDone
<1>2. PICK k \in 0..(size - 1) : Lowered(k)
  BY DEF Loops, LoopInv, RemoveDone
<1>3. \A c \in 0..(size - 2) : array[c] = IF c < k THEN was.array[c]
                                          ELSE was.array[c + 1]
  BY <1>1, <1>2 DEF Lowered
<1>4. Content(array, size - 1) = Removed(Content(was.array, was.size), item)
  <2>1. item = was.array[k]
    BY <1>2 DEF Lowered
  <2>2. QED
    BY <1>1, <1>3, <2>1, RemovedContent
<1>5. ASSUME NEW i \in 0..(size - 2), NEW j \in 0..(size - 2), array[i] = array[j]
      PROVE  i = j
  <2> DEFINE From(c) == IF c < k THEN c ELSE c + 1
  <2>1. /\ From(i) \in 0..(size - 1) /\ array[i] = was.array[From(i)]
        /\ From(j) \in 0..(size - 1) /\ array[j] = was.array[From(j)]
    BY <1>1, <1>3
  <2>2. From(i) = From(j)
    <3> HIDE DEF From
    <3>1. QED
      BY <1>1, <1>5, <2>1 DEF Distinct
  <2>3. QED
    BY <1>1, <2>2
<1>6. Distinct(array, size - 1)
  BY <1>1, <1>5 DEF Distinct
<1>7. QED
  BY <1>4, <1>6 DEF LoopInv, RemoveDone

\* What a step leaves when it ends a call.
EndsAsOperators ==
  pc # "idle" /\ pc' = "idle" =>
    LET before == Content(was.array, was.size) IN
    Content(array', size') = IF pc = "shift_down" THEN Removed(before, item)
                             ELSE Inserted(before, item, Key)

LEMMA LoopsStep == Loops /\ [Next]_vars => LoopInv' /\ EndsAsOperators
<1> SUFFICES ASSUME Loops, [Next]_vars PROVE LoopInv' /\ EndsAsOperators
  OBVIOUS
<1>1. CASE Insertion
  <2>1. ASSUME NEW x \in Item, CallInsert(x) PROVE LoopInv' /\ EndsAsOperators
    BY <2>1, CallInsertLoops DEF CallInsert, EndsAsOperators
  <2>2. CASE Scan
    BY <2>2, ScanLoops DEF Scan, EndsAsOperators
  <2>3. CASE InsertAtEnd
    BY <2>3, InsertAtEndLoops DEF InsertAtEnd, EndsAsOperators
  <2>4. CASE InsertHere
    BY <2>4, InsertHereLoops DEF InsertHere, EndsAsOperators
  <2>5. CASE ShiftUp
    BY <2>5, ShiftUpLoops DEF ShiftUp, EndsAsOperators
  <2>6. CASE InsertDone
    BY <2>6, InsertDoneLoops DEF InsertDone, EndsAsOperators
  <2>7. QED
    BY <1>1, <2>1, <2>2, <2>3, <2>4, <2>5, <2>6 DEF Insertion
<1>2. CASE Removal
  <2>1. ASSUME NEW i \in Cell, CallRemove(i) PROVE LoopInv' /\ EndsAsOperators
    BY <2>1, CallRemoveLoops DEF CallRemove, EndsAsOperators
  <2>2. CASE ShiftDown
    BY <2>2, ShiftDownLoops DEF ShiftDown, EndsAsOperators
  <2>3. CASE RemoveDone
    BY <2>3, RemoveDoneLoops DEF RemoveDone, EndsAsOperators
  <2>4. QED
    BY <1>2, <2>1, <2>2, <2>3 DEF Removal
<1>3. CASE UNCHANGED vars
  BY <1>3 DEF vars, Loops, LoopInv, Before, Precede, Raised, Lowered, EndsAsOperators
<1>4. QED
  BY <1>1, <1>2, <1>3 DEF Next

\* From empty to full, with items that compare equal or not, every call of the
\* ordered array leaves what its operator of OrderedArray says.
THEOREM LoopsTheorem == Spec => LoopsComputeOperators
<1>1. Loops /\ [Next]_vars => Loops'
  BY NextStep, LoopsStep DEF Loops
<1>2. Loops /\ [Next]_vars => [EndsAsOperators]_vars
  BY LoopsStep
<1>3. Spec => [][EndsAsOperators]_vars
  BY <1>1, <1>2, InitLoops, PTL DEF Spec
<1>4. QED
  BY <1>3 DEF LoopsComputeOperators, EndsAsOperators

=============================================================================
