------------------------- MODULE OrderedArraySteps -------------------------
(***************************************************************************)
(* The ordered array of src/ordered_array.c, loop by loop: the scan and    *)
(* the shift of insert_ordered_array, the shift of remove_ordered_array.   *)
(* One step is one iteration.  The items are pointers; Key gives the       *)
(* number by which the array's less_than compares them (for the heap, the  *)
(* size in the header pointed at), which does not change here.             *)
(*                                                                         *)
(* array has a cell more than MaxSize: removing from a full array reads    *)
(* one cell past it.  Nothing in the code keeps an insertion out of a full *)
(* array; callers are taken to keep size below MaxSize, and to insert no   *)
(* pointer twice.  was is history: the content when the call began.        *)
(***************************************************************************)
EXTENDS Naturals, OrderedArray

CONSTANTS Item, Key, MaxSize, NoItem

ASSUME KeyAssumption == Key \in [Item -> Nat]
ASSUME SizeAssumption == MaxSize \in Nat /\ NoItem \notin Item

VARIABLES array, size, pc, item, iterator, tmp, was

vars == <<array, size, pc, item, iterator, tmp, was>>

Cell == 0..MaxSize

Init ==
  /\ array = [c \in Cell |-> NoItem] /\ size = 0
  /\ pc = "idle" /\ item = NoItem /\ iterator = 0 /\ tmp = NoItem
  /\ was = [array |-> array, size |-> 0]

\* insert_ordered_array

CallInsert(x) ==
  /\ pc = "idle" /\ size < MaxSize
  /\ \A c \in 0..(size - 1) : array[c] # x
  /\ item' = x /\ iterator' = 0 /\ pc' = "scan"
  /\ was' = [array |-> array, size |-> size]
  /\ UNCHANGED <<array, size, tmp>>

PassesLarger == Key[item] < Key[array[iterator]]   \* mutant: arguments swapped
Passes == Key[array[iterator]] < Key[item]

Scan ==
  /\ pc = "scan" /\ iterator < size /\ Passes
  /\ iterator' = iterator + 1
  /\ UNCHANGED <<array, size, pc, item, tmp, was>>

InsertAtEnd ==
  /\ pc = "scan" /\ iterator = size
  /\ array' = [array EXCEPT ![size] = item]
  /\ size' = size + 1 /\ pc' = "idle"
  /\ UNCHANGED <<item, iterator, tmp, was>>

InsertHere ==
  /\ pc = "scan" /\ iterator < size /\ ~Passes
  /\ tmp' = array[iterator]
  /\ array' = [array EXCEPT ![iterator] = item]
  /\ pc' = "shift_up"
  /\ UNCHANGED <<size, item, iterator, was>>

ShiftUp ==
  /\ pc = "shift_up" /\ iterator < size
  /\ iterator' = iterator + 1
  /\ array' = [array EXCEPT ![iterator + 1] = tmp]
  /\ tmp' = array[iterator + 1]
  /\ UNCHANGED <<size, pc, item, was>>

InsertDone ==
  /\ pc = "shift_up" /\ iterator = size
  /\ size' = size + 1 /\ pc' = "idle"
  /\ UNCHANGED <<array, item, iterator, tmp, was>>

\* remove_ordered_array

CallRemove(i) ==
  /\ pc = "idle" /\ i < size
  /\ item' = array[i] /\ iterator' = i /\ pc' = "shift_down"
  /\ was' = [array |-> array, size |-> size]
  /\ UNCHANGED <<array, size, tmp>>

\* Mutant: the last item is not moved down.
ShiftDownShort ==
  /\ pc = "shift_down" /\ iterator < size
  /\ array' = IF iterator + 2 < size
              THEN [array EXCEPT ![iterator] = array[iterator + 1]] ELSE array
  /\ iterator' = iterator + 1
  /\ UNCHANGED <<size, pc, item, tmp, was>>

ShiftDown ==
  /\ pc = "shift_down" /\ iterator < size
  /\ array' = [array EXCEPT ![iterator] = array[iterator + 1]]
  /\ iterator' = iterator + 1
  /\ UNCHANGED <<size, pc, item, tmp, was>>

RemoveDone ==
  /\ pc = "shift_down" /\ iterator = size
  /\ size' = size - 1 /\ pc' = "idle"
  /\ UNCHANGED <<array, item, iterator, tmp, was>>

Insertion == \/ \E x \in Item : CallInsert(x)
             \/ Scan \/ InsertAtEnd \/ InsertHere \/ ShiftUp \/ InsertDone
Removal == (\E i \in Cell : CallRemove(i)) \/ ShiftDown \/ RemoveDone

Next == Insertion \/ Removal

Spec == Init /\ [][Next]_vars

-----------------------------------------------------------------------------

\* "It always remains in a sorted state (between calls)" (ordered_array.h:13),
\* as long as the keys stay as they were when the items were inserted.
SortedBetweenCalls ==
  pc = "idle" =>
    \A i, j \in 0..(size - 1) : i < j => Key[array[i]] <= Key[array[j]]

Content(cells, n) == [i \in 1..n |-> cells[i - 1]]

\* The loops leave behind what the operators of OrderedArray say, on which the
\* model of the heap is built: nothing is lost, doubled or misplaced.
LoopsComputeOperators ==
  [][pc # "idle" /\ pc' = "idle" =>
       LET before == Content(was.array, was.size) IN
       Content(array', size') = IF pc = "shift_down" THEN Removed(before, item)
                                ELSE Inserted(before, item, Key)]_vars

=============================================================================
