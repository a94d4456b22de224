------------------------------ MODULE Tasking ------------------------------
(***************************************************************************)
(* The task list of src/task.c under the timer interrupt:                  *)
(* initialise_tasking, switch_task, fork, sys_exit and queue_count.        *)
(*                                                                         *)
(* There is one processor: intr is EFLAGS.IF, pc the point at which it     *)
(* executes, and stack[t] the points at which interrupts have suspended    *)
(* task t (one entry per interrupt frame of t that has not returned).  A   *)
(* task that is not running is what its task_t holds: eip[t] says where a  *)
(* switch to it jumps.  The handlers run with interrupts off up to the     *)
(* "sti; jmp" of switch_task, so a tick is one action; other functions are *)
(* cut wherever two accesses to shared state could be separated, and their *)
(* last step includes the sti that follows it.                             *)
(*                                                                         *)
(* Bounds: MaxPid tasks are created, MaxNest interrupt frames are open on  *)
(* one stack.  Exiting and Watching are the tasks whose programs call      *)
(* sys_exit and queue_watcher.                                             *)
(***************************************************************************)
EXTENDS Naturals, Sequences

CONSTANTS MaxPid, MaxNest, Exiting, Watching

Pid == 1..MaxPid
Null == 0
Garbage == MaxPid + 1          \* what a field of fresh kmalloc memory holds

ASSUME BoundsAssumption == MaxPid \in Nat \ {0} /\ MaxNest \in Nat \ {0}
ASSUME ProgramsAssumption == Exiting \subseteq Pid /\ Watching \subseteq Pid

VARIABLES
  current_task, ready_queue, next_pid,             \* globals of task.c
  current_directory,                               \* global of paging.c, CR3
  next, eip, page_directory, kernel_stack,         \* fields of the task_t's
  intr, pc, stack,                                 \* the processor
  parent_task, new_task, tmp_task, rv,             \* locals of fork, sys_exit
  queue, size,                                     \* locals of queue_count
  count_from, exited                               \* history

globals == <<current_task, ready_queue, next_pid, current_directory>>
fields == <<next, eip, page_directory, kernel_stack>>
forking == <<parent_task, new_task, rv>>
counting == <<queue, size, count_from>>
vars == <<globals, fields, intr, pc, stack, tmp_task, forking, counting,
          exited>>

Labels == {"boot", "init_publish", "init_fields", "user", "irq", "fork_new",
           "fork_walk", "fork_check", "exit_loop", "count", "count_next", "wild"}

\* Task 1 is also the boot code that initialise_tasking turns into a task.
Running == IF current_task = Null THEN 1 ELSE current_task

Created == {t \in Pid : t < next_pid}

Init ==
  /\ current_task = Null /\ ready_queue = Null /\ next_pid = 1
  /\ current_directory = 1
  /\ next = [t \in Pid |-> Garbage] /\ eip = [t \in Pid |-> "none"]
  /\ page_directory = [t \in Pid |-> Garbage]
  /\ kernel_stack = [t \in Pid |-> Garbage]
  /\ intr = TRUE /\ pc = "boot" /\ stack = [t \in Pid |-> <<>>]
  /\ parent_task = [t \in Pid |-> Null] /\ new_task = [t \in Pid |-> Null]
  /\ tmp_task = [t \in Pid |-> Null] /\ rv = [t \in Pid |-> Garbage]
  /\ queue = [t \in Pid |-> Null] /\ size = [t \in Pid |-> 0]
  /\ count_from = [t \in Pid |-> 0] /\ exited = {}

-----------------------------------------------------------------------------
(* initialise_tasking *)

InitCli ==
  /\ pc = "boot"
  /\ intr' = FALSE /\ pc' = "init_publish"
  /\ UNCHANGED <<globals, fields, stack, tmp_task, forking, counting, exited>>

\* The globals point at the task_t before any field of it is written.
InitPublish ==
  /\ pc = "init_publish"
  /\ current_task' = 1 /\ ready_queue' = 1
  /\ pc' = "init_fields"
  /\ UNCHANGED <<next_pid, current_directory, fields, intr, stack, tmp_task,
                 forking, counting, exited>>

InitFields ==
  /\ pc = "init_fields"
  /\ next_pid' = next_pid + 1
  /\ page_directory' = [page_directory EXCEPT ![1] = current_directory]
  /\ next' = [next EXCEPT ![1] = Null]
  /\ kernel_stack' = [kernel_stack EXCEPT ![1] = 1]
  /\ intr' = TRUE /\ pc' = "user"
  /\ UNCHANGED <<current_task, ready_queue, current_directory, eip, stack,
                 tmp_task, forking, counting, exited>>

-----------------------------------------------------------------------------
(* The timer interrupt: irq_handler, timer_callback, switch_task *)

CanInterrupt == intr /\ pc # "wild" /\ Len(stack[Running]) < MaxNest

\* Before tasking is initialised switch_task returns at once, and the handler
\* goes on to its iret with interrupts still off.
TickBeforeTasking ==
  /\ CanInterrupt /\ current_task = Null
  /\ stack' = [stack EXCEPT ![1] = Append(@, pc)]
  /\ intr' = FALSE /\ pc' = "irq"
  /\ UNCHANGED <<globals, fields, tmp_task, forking, counting, exited>>

\* eip = "switch" is the return of read_eip in switch_task, from where the
\* 0x12345 in EAX unwinds the interrupt frame; eip = "fork" is the return of
\* read_eip in fork.  A task_t that holds neither sends the processor astray.
ResumeGoesOn(where) == where                \* mutant: EAX is not 0x12345
Resume(where) == CASE where = "switch" -> "irq"
                   [] where = "fork" -> "fork_check"
                   [] OTHER -> "wild"

SuccessorIsHead(t) == ready_queue           \* mutant: next is not followed
Successor(t) == IF next[t] = Null THEN ready_queue ELSE next[t]

KeepDirectory(succ) == UNCHANGED current_directory   \* mutant: not switched
LoadDirectory(succ) == current_directory' = page_directory[succ]

\* The jump is taken with interrupts on, whatever the resumed code expects.
Tick ==
  /\ CanInterrupt /\ current_task # Null
  /\ stack' = [stack EXCEPT ![current_task] = Append(@, pc)]
  /\ eip' = [eip EXCEPT ![current_task] = "switch"]
  /\ LET succ == Successor(current_task) IN
     IF succ \in Pid
     THEN /\ current_task' = succ
          /\ LoadDirectory(succ)
          /\ pc' = Resume(eip'[succ])
     ELSE /\ pc' = "wild"
          /\ UNCHANGED <<current_task, current_directory>>
  /\ intr' = TRUE
  /\ UNCHANGED <<ready_queue, next_pid, next, page_directory, kernel_stack,
                 tmp_task, forking, counting, exited>>

\* The iret of the interrupt stub: the saved EFLAGS had interrupts on.
IrqReturn ==
  /\ pc = "irq"
  /\ LET frames == stack[Running] IN
     /\ pc' = frames[Len(frames)]
     /\ stack' = [stack EXCEPT ![Running] = SubSeq(frames, 1, Len(frames) - 1)]
  /\ intr' = TRUE
  /\ UNCHANGED <<globals, fields, tmp_task, forking, counting, exited>>

-----------------------------------------------------------------------------
(* fork *)

\* Mutant: fork can be interrupted.
ForkWithoutCli ==
  /\ pc = "user" /\ next_pid <= MaxPid
  /\ intr' = intr /\ pc' = "fork_new"
  /\ parent_task' = [parent_task EXCEPT ![current_task] = current_task]
  /\ UNCHANGED <<globals, fields, stack, tmp_task, new_task, rv, counting,
                 exited>>

ForkCli ==
  /\ pc = "user" /\ next_pid <= MaxPid
  /\ intr' = FALSE /\ pc' = "fork_new"
  /\ parent_task' = [parent_task EXCEPT ![current_task] = current_task]
  /\ UNCHANGED <<globals, fields, stack, tmp_task, new_task, rv, counting,
                 exited>>

WalkFromCurrent == current_task     \* mutant: the walk starts at the forker
WalkFrom == ready_queue

\* clone_directory copies the forker's stack, with the locals written so far,
\* into the address space of the new task, named by its pid.  kernel_stack is
\* written in the forker's task_t.
ForkNew ==
  /\ pc = "fork_new"
  /\ LET new == next_pid IN
     /\ new_task' = [new_task EXCEPT ![current_task] = new]
     /\ parent_task' = [parent_task EXCEPT ![new] = parent_task[current_task]]
     /\ stack' = [stack EXCEPT ![new] = stack[current_task]]
     /\ next' = [next EXCEPT ![new] = Null]
     /\ eip' = [eip EXCEPT ![new] = "none"]
     /\ page_directory' = [page_directory EXCEPT ![new] = new]
     /\ kernel_stack' = [kernel_stack EXCEPT ![current_task] = new]
  /\ next_pid' = next_pid + 1
  /\ tmp_task' = [tmp_task EXCEPT ![current_task] = WalkFrom]
  /\ pc' = "fork_walk"
  /\ UNCHANGED <<current_task, ready_queue, current_directory, intr, rv,
                 counting, exited>>

ForkWalk ==
  /\ pc = "fork_walk" /\ next[tmp_task[current_task]] # Null
  /\ tmp_task' = [tmp_task EXCEPT ![current_task] = next[@]]
  /\ UNCHANGED <<globals, fields, intr, pc, stack, forking, counting, exited>>

\* Mutants: the new task becomes the first one's successor, or the two ends of
\* the link are swapped.
ForkLinkFirst ==
  /\ pc = "fork_walk"
  /\ next' = [next EXCEPT ![ready_queue] = new_task[current_task]]
  /\ pc' = "fork_check"
  /\ UNCHANGED <<globals, eip, page_directory, kernel_stack, intr, stack,
                 tmp_task, forking, counting, exited>>

ForkLinkSwapped ==
  /\ pc = "fork_walk" /\ next[tmp_task[current_task]] = Null
  /\ next' = [next EXCEPT ![new_task[current_task]] = tmp_task[current_task]]
  /\ pc' = "fork_check"
  /\ UNCHANGED <<globals, eip, page_directory, kernel_stack, intr, stack,
                 tmp_task, forking, counting, exited>>

ForkLink ==
  /\ pc = "fork_walk" /\ next[tmp_task[current_task]] = Null
  /\ next' = [next EXCEPT ![tmp_task[current_task]] = new_task[current_task]]
  /\ pc' = "fork_check"
  /\ UNCHANGED <<globals, eip, page_directory, kernel_stack, intr, stack,
                 tmp_task, forking, counting, exited>>

IsNew == current_task = new_task[current_task]   \* mutant: with new_task
IsForker == current_task = parent_task[current_task]

\* The forker comes here from ForkLink, the new task from its first switch.
ForkParent ==
  /\ pc = "fork_check" /\ IsForker
  /\ eip' = [eip EXCEPT ![new_task[current_task]] = "fork"]
  /\ rv' = [rv EXCEPT ![current_task] = new_task[current_task]]
  /\ intr' = TRUE /\ pc' = "user"
  /\ UNCHANGED <<globals, next, page_directory, kernel_stack, stack, tmp_task,
                 parent_task, new_task, counting, exited>>

ForkChild ==
  /\ pc = "fork_check" /\ ~IsForker
  /\ rv' = [rv EXCEPT ![current_task] = 0]
  /\ intr' = TRUE /\ pc' = "user"
  /\ UNCHANGED <<globals, fields, stack, tmp_task, parent_task, new_task,
                 counting, exited>>

-----------------------------------------------------------------------------
(* sys_exit: it returns to its caller, who runs on until the next tick *)

ExitCli ==
  /\ pc = "user" /\ current_task \in Exiting \ exited
  /\ intr' = FALSE /\ pc' = "exit_loop"
  /\ tmp_task' = [tmp_task EXCEPT ![current_task] = ready_queue]
  /\ UNCHANGED <<globals, fields, stack, forking, counting, exited>>

LinkToExiting == current_task               \* mutants: links back to itself,
LinkNothing == Null                         \* or cuts off the rest of the list
LinkPastExiting == next[current_task]

ExitLoop ==
  /\ pc = "exit_loop"
  /\ LET t == tmp_task[current_task] IN
     /\ next' = [next EXCEPT ![t] = LinkPastExiting]
     /\ IF next'[t] # Null /\ t = current_task
        THEN UNCHANGED <<intr, pc, exited>>
        ELSE /\ intr' = TRUE /\ pc' = "user"
             /\ exited' = exited \cup {current_task}
  /\ UNCHANGED <<globals, eip, page_directory, kernel_stack, stack, tmp_task,
                 forking, counting>>

-----------------------------------------------------------------------------
(* queue_watcher: queue_count walks the list with interrupts on *)

SizeFromZero == 0                           \* mutant: the head is not counted
SizeStart == 1

CountStart ==
  /\ pc = "user" /\ current_task \in Watching
  /\ size[current_task] = 0                        \* bound: one call per task
  /\ queue' = [queue EXCEPT ![current_task] = ready_queue]
  /\ size' = [size EXCEPT ![current_task] = SizeStart]
  /\ count_from' = [count_from EXCEPT ![current_task] = next_pid - 1]
  /\ pc' = "count"
  /\ UNCHANGED <<globals, fields, intr, stack, tmp_task, forking, exited>>

\* queue is a pointer to volatile: the test and the advance load the link each.
CountTest ==
  /\ pc = "count" /\ queue[current_task] # Null
  /\ next[queue[current_task]] # Null
  /\ pc' = "count_next"
  /\ UNCHANGED <<globals, fields, intr, stack, tmp_task, forking, counting,
                 exited>>

\* The link can have been cleared in between by an exit: then queue is NULL.
CountStep ==
  /\ pc = "count_next"
  /\ size' = [size EXCEPT ![current_task] = @ + 1]
  /\ queue' = [queue EXCEPT ![current_task] = next[@]]
  /\ pc' = "count"
  /\ UNCHANGED <<globals, fields, intr, stack, tmp_task, forking, count_from,
                 exited>>

CountReturn ==
  /\ pc = "count" /\ queue[current_task] # Null
  /\ next[queue[current_task]] = Null
  /\ pc' = "user"
  /\ UNCHANGED <<globals, fields, intr, stack, tmp_task, forking, counting,
                 exited>>

\* From NULL the walk leads through the words at low addresses, which are mapped
\* and no task_t's, up to one that is 0.  Bound: it counts one of them at most;
\* and a page fault on its way, which stops the machine, is not modelled.
CountAstray ==
  /\ pc = "count" /\ queue[current_task] = Null
  /\ size' \in {size, [size EXCEPT ![current_task] = @ + 1]}
  /\ pc' = "user"
  /\ UNCHANGED <<globals, fields, intr, stack, tmp_task, forking, queue,
                 count_from, exited>>

-----------------------------------------------------------------------------
Interrupt == TickBeforeTasking \/ Tick

\* A call, once made, goes on; whether a program makes one is its choice.
Call == ForkCli \/ ExitCli \/ CountStart
Progress == InitCli \/ InitPublish \/ InitFields \/ IrqReturn \/ ForkNew
              \/ ForkWalk \/ ForkLink \/ ForkParent \/ ForkChild \/ ExitLoop
              \/ CountTest \/ CountStep \/ CountReturn \/ CountAstray

Next == Interrupt \/ Progress \/ Call

Spec == Init /\ [][Next]_vars

\* The PIC holds a timer request until interrupts are on, so a tick comes if
\* interrupts are on again and again.  Ticks are 20 ms apart, thousands of
\* instructions, so a task that is switched to again and again gets through
\* the return from its interrupt and through the end of fork.
FairSpec ==
  /\ Spec
  /\ WF_vars(Progress) /\ SF_vars(Interrupt)
  /\ \A t \in Pid : /\ SF_vars(IrqReturn /\ current_task = t)
                    /\ SF_vars(ForkChild /\ current_task = t)

-----------------------------------------------------------------------------
Links == {Null, Garbage} \cup Pid

\* Type invariant.
TypeOK ==
  /\ current_task \in {Null} \cup Pid /\ ready_queue \in {Null, 1}
  /\ next_pid \in 1..(MaxPid + 1) /\ current_directory \in Links
  /\ next \in [Pid -> Links] /\ page_directory \in [Pid -> Links]
  /\ kernel_stack \in [Pid -> Links]
  /\ eip \in [Pid -> {"none", "switch", "fork"}]
  /\ intr \in BOOLEAN /\ pc \in Labels /\ stack \in [Pid -> Seq(Labels)]
  /\ parent_task \in [Pid -> Links] /\ new_task \in [Pid -> Links]
  /\ tmp_task \in [Pid -> Links] /\ rv \in [Pid -> Links]
  /\ queue \in [Pid -> Links] /\ size \in [Pid -> Nat]
  /\ count_from \in [Pid -> Nat] /\ exited \subseteq Pid

\* A tick at any instant finds a task to switch to whose task_t holds a saved
\* context: fork links its task_t before the context is written and relies on
\* cli ("MUST NOT be interrupted", task.c:195).
ReadyHasContext ==
  intr /\ current_task # Null =>
    LET succ == Successor(current_task) IN
    /\ succ \in Created
    /\ succ # current_task => eip[succ] # "none"

\* The list has no cycle, whatever was forked and exited: a link leads to a
\* younger task.  The walks of fork and queue_count end because of it.
LinksLeadToYounger ==
  \A t \in Created : next[t] = Null \/ next[t] \in {u \in Created : u > t}

\* While no task exits, the ready list is every created task once, in order of
\* creation, whenever another task could look at it.
QueueIsCreationOrder ==
  intr /\ current_task # Null /\ exited = {} =>
    /\ ready_queue = 1
    /\ \A t \in Created : next[t] = IF t + 1 \in Created THEN t + 1 ELSE Null

\* The directory the memory manager works on (current_directory, loaded into
\* CR3) is the running task's, and no two tasks share one.
AddressSpaceFollowsTask ==
  /\ current_task \in Created => current_directory = page_directory[current_task]
  /\ \A t, u \in Created : page_directory[t] = page_directory[u] => t = u

\* fork returns twice: the first return in a forked task gives 0, every other
\* one the pid of the task just created.  Forker and new task run the same
\* code and tell each other apart by a local copied with the stack.
ForkReturnsTwice ==
  [][\A t \in Pid : rv'[t] # rv[t] =>
       rv'[t] = IF t # 1 /\ rv[t] = Garbage THEN 0 ELSE next_pid - 1]_vars

\* A count taken while other tasks fork counts no task twice and misses none
\* that was queued when it began.
CountIsSound ==
  exited = {} =>
    \A t \in Created : size[t] # 0 =>
      /\ size[t] <= next_pid - 1
      /\ (current_task = t /\ pc = "user") => size[t] >= count_from[t]

\* The tasks a walk from ready_queue meets: those that are in every set which
\* holds the head and, with a task, the one its link leads to.
Walked(S) == ({ready_queue} \cup {next[t] : t \in S}) \cap Pid \subseteq S
Queued == {t \in Pid : \A S \in SUBSET Pid : Walked(S) => t \in S}

\* fork appends at the end of the list whatever exits have cut out of it: the
\* youngest task is queued until it exits itself.
YoungestIsQueued ==
  intr /\ current_task # Null /\ next_pid - 1 \notin exited =>
    next_pid - 1 \in Queued

\* A task that has exited and been switched away from never runs again
\* (task.c:254), unless it is the head of the list.
ExitedStaysAway ==
  [][\A t \in exited :
       t # ready_queue /\ current_task # t => current_task' # t]_vars

\* Round robin: every created task runs again and again while none exits.
EveryTaskRuns == \A t \in Pid : []<>(t \in Created => current_task = t)

\* The new task's half of fork returns, provided ticks do not for ever hit the
\* few instructions between a switch and the iret that follows it.
NestingEnds ==
  <>[][pc = "irq" => \A t \in Pid : Len(stack'[t]) <= Len(stack[t])]_vars
ChildReturns ==
  NestingEnds => \A t \in Pid : (eip[t] = "fork") ~> (rv[t] # Garbage)

\* The tasks on the list, whichever links lead to them.
Listed == {t \in Pid : t = ready_queue \/ \E u \in Pid : next[u] = t}

RR == INSTANCE RoundRobin WITH running <- current_task, queued <- Listed

\* While no task exits, the scheduler is round robin: a tick moves on to the
\* next task in order of creation, wherever it hits, and fork queues its new
\* task behind all others.
IsRoundRobin == RR!Spec

\* sys_exit cuts out of the list what lies between its head and the exiting
\* task; it loses neither the head nor a task younger than the one that exits.
ExitSparesYounger ==
  [][pc = "exit_loop" /\ pc' # "exit_loop" =>
       \A t \in Queued : t = ready_queue \/ t > current_task => t \in Queued']_vars

=============================================================================
