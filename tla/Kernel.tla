------------------------------- MODULE Kernel -------------------------------
(***************************************************************************)
(* The scheduler of Tasking over the memory of Paging.  In Tasking a task  *)
(* has locals and interrupt frames of its own; here they are words of one  *)
(* page, written through the directory that is loaded in CR3 into whatever *)
(* frame it maps the stack to, and fork makes a second set of them by      *)
(* clone_directory alone, page by page.                                    *)
(*                                                                         *)
(* cr3 is the directory of Paging that is loaded; the one Tasking calls t  *)
(* is number t + 1 here, after the kernel's.  The low memory, the heap and *)
(* a stack are one page each, the low page holds the stack of the boot     *)
(* code.  Every bit of the bitmap is clear, nobody frees (so a new table   *)
(* lies behind all others), and no task exits or counts the list here.     *)
(***************************************************************************)
EXTENDS Tasking

CONSTANTS NFrames, MaxTables

ASSUME MemoryAssumption == NFrames \in Nat /\ MaxTables \in Nat \ {0, 1}

VARIABLES frames, tables, page, content, cr3, ndirs, ntables, heap_pages,
          paging_pc, i, src, dir, number, table

StackTable == 2
BootFrame == 0
Contexts == [parent : Links, irq : Seq(Labels)]
Unstarted == [parent |-> Null, irq |-> <<>>]

P == INSTANCE Paging WITH
       current_directory <- cr3, pc <- paging_pc, NPages <- 1, HeapPages <- 1,
       Stack <- StackTable, MaxDirs <- MaxPid + 1, Value <- Contexts,
       Blank <- Unstarted, Zeroed <- NFrames, Frees <- FALSE,
       hit <- {}, forgotten <- {}

mapping == <<frames, tables, page, ndirs, ntables, heap_pages, paging_pc, i,
             src, dir, number, table>>
kernel_vars == <<vars, mapping, content, cr3>>

KernelInit == Init /\ P!Init

-----------------------------------------------------------------------------
DirectoryOf(t) == t + 1

\* The frame of the stack page of a directory.
StackFrame(d) == IF d = P!None \/ tables[d][StackTable] = P!None
                 THEN BootFrame
                 ELSE page[tables[d][StackTable]][0].frame

\* The running task stores the words of its stack that the step changes.
Store ==
  LET t == Running
      Stored(word, was, is) == IF is = was THEN word ELSE is
  IN content' = [content EXCEPT ![StackFrame(cr3)] =
       [parent |-> Stored(@.parent, parent_task[t], parent_task'[t]),
        irq |-> Stored(@.irq, stack[t], stack'[t])]]

Stores(A) == A /\ Store /\ UNCHANGED <<mapping, cr3>>

\* initialise_paging; ticks can come between its steps.
InitialisePaging ==
  /\ pc = "boot"
  /\ P!MakeHeapTables \/ P!MapIdentity \/ P!MapHeap \/ P!EnablePaging
  /\ UNCHANGED vars

\* clone_directory, called by initialise_paging and by fork.
CloneDirectory ==
  /\ pc \in {"boot", "fork_new"}
  /\ P!CloneShare \/ P!CloneTable \/ P!ClonePage \/ P!CloneTableDone
       \/ P!CloneDone
  /\ UNCHANGED vars

\* move_stack first maps the page of the new stack, then copies the old stack.
MoveStackMap == InitCli /\ P!MapStack(0)

MoveStackCopy ==
  /\ InitPublish
  /\ content' = [content EXCEPT ![StackFrame(cr3)] = content[BootFrame]]
  /\ UNCHANGED <<mapping, cr3>>

\* fork copies the address space before it makes the task_t.
Copied == ndirs = DirectoryOf(next_pid)

ForkDirectory ==
  /\ pc = "fork_new" /\ ~Copied
  /\ P!ForkClone
  /\ UNCHANGED vars

ForkTask == ForkNew /\ Copied /\ paging_pc = "run"

\* switch_task loads CR3 with the directory of the task it jumps to.
LoadNothing == UNCHANGED cr3                           \* mutant
LoadCr3 == cr3' = DirectoryOf(current_directory')

KernelTick == Tick /\ Store /\ LoadCr3 /\ UNCHANGED mapping

BootTick == Stores(TickBeforeTasking)
Return == Stores(IrqReturn)
EndFork == Stores(ForkChild)

KernelInterrupt == KernelTick \/ BootTick
KernelProgress ==
  \/ InitialisePaging \/ MoveStackMap \/ MoveStackCopy \/ Stores(InitFields)
  \/ ForkDirectory \/ CloneDirectory
  \/ Stores(ForkTask) \/ Stores(ForkWalk) \/ Stores(ForkLink)
  \/ Stores(ForkParent) \/ EndFork \/ Return

KernelNext == KernelInterrupt \/ KernelProgress \/ Stores(ForkCli)

KernelSpec == KernelInit /\ [][KernelNext]_kernel_vars

\* The fairness of Tasking, of the composed steps.
KernelFairSpec ==
  /\ KernelSpec
  /\ WF_kernel_vars(KernelProgress) /\ SF_kernel_vars(KernelInterrupt)
  /\ \A t \in Pid : /\ SF_kernel_vars(Return /\ current_task = t)
                    /\ SF_kernel_vars(EndFork /\ current_task = t)

-----------------------------------------------------------------------------
\* What a task left on its stack is there when it runs again, and a new task
\* starts with what its forker had when it called fork: no other task, and no
\* interrupt taken by one, has written to the frame (task.h:31).
StackHoldsTask ==
  \A t \in Created :
    content[StackFrame(DirectoryOf(t))] =
      [parent |-> parent_task[t], irq |-> stack[t]]

=============================================================================
