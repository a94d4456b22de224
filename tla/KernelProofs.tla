---------------------------- MODULE KernelProofs ----------------------------
(***************************************************************************)
(* Proofs about Tasking, then about Kernel, which extends it.              *)
(*                                                                         *)
(* Tasking, for any number of tasks and any depth of interrupt nesting:    *)
(* the invariants of the ready list, of the saved contexts, of the address *)
(* spaces and of queue_count, what fork returns, how fork and sys_exit     *)
(* leave the list, and that the scheduler is round robin.                  *)
(*                                                                         *)
(* Kernel, for any number of tasks: the scheduler behaves over real memory *)
(* as it does alone, and the stack of a task, which fork makes by copying  *)
(* the address space of the forker, holds what the task put there.  The    *)
(* invariant gives every page table and every frame its number: the interrupted *)
(* are given out one after the other, so the stack of task t is in frame   *)
(* t + 1, and in the copies made by clone_directory all but the stack is   *)
(* shared with the kernel's directory.                                     *)
(***************************************************************************)
EXTENDS Kernel, SequenceTheorems, WellFoundedInduction, TLAPS

\* Where the code of task t itself stands, whatever interrupts it is in; an
\* interrupt and the return from it leave this alone.
CallPoint(t) == IF stack[t] # <<>> THEN stack[t][1]
                ELSE IF t = Running THEN pc
                ELSE IF eip[t] = "fork" THEN "fork_check"
                ELSE "none"

\* The forker is on its way through fork, interrupts off.
Forking == ~intr /\ pc \in {"fork_walk", "fork_check"}

\* The globals, the point of execution and the interrupt flag belong together.
Phase ==
  IF current_task = Null
  THEN /\ ready_queue = Null /\ next_pid = 1
       /\ pc \in {"boot", "init_publish", "irq"}
       /\ intr <=> pc = "boot"
       /\ \A t \in Pid : eip[t] = "none"
  ELSE /\ ready_queue = 1 /\ pc \notin {"boot", "init_publish", "wild"}
       /\ IF pc = "init_fields" THEN current_task = 1 /\ next_pid = 1
          ELSE current_task \in Created
       /\ pc \in {"init_fields", "fork_new", "fork_walk", "exit_loop"} => ~intr
       /\ pc \in {"user", "count", "count_next", "irq"} => intr
       /\ \A t \in Pid : eip[t] # "none" => t \in Created

\* The first frame of a stack interrupts the task's own code, the others
\* interrupt handlers; a task switched away from is in an interrupt.
StackShape ==
  /\ \A t \in Pid : \A n \in 1..Len(stack[t]) : stack[t][n] = "irq" <=> n > 1
  /\ \A t \in Pid : stack[t] # <<>> =>
       stack[t][1] \in IF current_task = Null THEN {"boot"}
                       ELSE {"user", "fork_check", "count", "count_next"}
  /\ pc = "irq" <=> stack[Running] # <<>>
  /\ current_task = Null => Len(stack[1]) <= 1
  /\ \A t \in Pid : t # Running => (eip[t] = "switch" <=> stack[t] # <<>>)

\* Only a task that is being forked has no context.
ContextsSaved ==
  \A t \in Created : t # Running /\ eip[t] = "none" =>
    Forking /\ t = new_task[current_task]

\* The locals of the forker.
ForkLocals ==
  /\ pc = "fork_new" => next_pid <= MaxPid /\ parent_task[current_task] = current_task
  /\ Forking =>
       LET new == new_task[current_task] IN
       /\ parent_task[current_task] = current_task
       /\ new = next_pid - 1 /\ new # current_task /\ new \in Pid
       /\ eip[new] = "none" /\ parent_task[new] = current_task
       /\ rv[new] = Garbage
  /\ pc = "fork_walk" =>
       /\ tmp_task[current_task] \in Created
       /\ tmp_task[current_task] < next_pid - 1
       /\ \A t \in Created : next[t] # next_pid - 1

\* A task that has yet to return from the fork that made it.
Newborn(t) == CallPoint(t) = "fork_check" /\ ~(t = Running /\ ~intr)

Newborns ==
  /\ \A t \in Pid : Newborn(t) => parent_task[t] # t /\ t # 1 /\ rv[t] = Garbage
  /\ \A t \in Pid : t # 1 /\ t \in Created /\ rv[t] = Garbage =>
       Newborn(t) \/ CallPoint(t) = "none"
  /\ \A t \in Pid : t \notin Created => rv[t] = Garbage

\* The locals of sys_exit and queue_count.
WalkLocals ==
  /\ pc = "exit_loop" => tmp_task[current_task] = 1
  /\ \A t \in Pid :
       /\ CallPoint(t) \in {"count", "count_next"} =>
            size[t] # 0 /\ (queue[t] = Null \/ queue[t] \in Created)
       /\ CallPoint(t) = "count_next" => queue[t] # Null

Directories ==
  /\ current_directory = Running
  /\ \A t \in Created : page_directory[t] = t

\* The list in order of creation, but for the task that is not linked yet.
Chain ==
  exited = {} =>
    \A t \in Created :
      next[t] = IF t + 1 \in Created /\ ~(pc = "fork_walk" /\ t + 1 = next_pid - 1)
                THEN t + 1 ELSE Null

\* The task queue_count has come to is the one whose number it has counted to.
Counts ==
  exited = {} =>
    \A t \in Pid : size[t] # 0 =>
      /\ size[t] = queue[t] /\ queue[t] \in Created
      /\ count_from[t] <= next_pid - 1
      /\ CallPoint(t) = "count_next" => next[queue[t]] # Null
      /\ CallPoint(t) \notin {"count", "count_next"} => size[t] >= count_from[t]

IInv ==
  /\ TypeOK /\ Phase /\ StackShape /\ ContextsSaved /\ ForkLocals /\ Newborns
  /\ WalkLocals /\ LinksLeadToYounger /\ Directories /\ Chain /\ Counts

\* What an interrupt does to a stack.
LEMMA AppendFacts ==
  ASSUME NEW s \in Seq(Labels), NEW l \in Labels
  PROVE  /\ Append(s, l) \in Seq(Labels) /\ Append(s, l) # <<>>
         /\ Len(Append(s, l)) = Len(s) + 1
         /\ \A n \in 1..Len(s) : Append(s, l)[n] = s[n]
         /\ Append(s, l)[Len(s) + 1] = l
         /\ Append(s, l)[1] = IF s = <<>> THEN l ELSE s[1]
  OBVIOUS

\* All but the last element of a sequence, whatever its elements are.
LEMMA FrontElements ==
  ASSUME NEW S, NEW s \in Seq(S), s # <<>>
  PROVE  /\ Len(SubSeq(s, 1, Len(s) - 1)) = Len(s) - 1
         /\ \A m \in 1..(Len(s) - 1) : SubSeq(s, 1, Len(s) - 1)[m] = s[m]
<1>. DEFINE n == Len(s) - 1
<1>1. n \in Nat /\ Len(s) \in Nat
  BY EmptySeq
<1>. HIDE DEF n
<1>2. Len(SubSeq(s, 1, n)) = n
  BY <1>1
<1>3. \A m \in 1..n : SubSeq(s, 1, n)[m] = s[m]
  BY <1>1
<1>. QED BY <1>2, <1>3 DEF n

\* The stack after the return from an interrupt.
LEMMA FrontFacts ==
  ASSUME NEW s \in Seq(Labels), s # <<>>,
         NEW f, f = SubSeq(s, 1, Len(s) - 1)
  PROVE  /\ Len(s) \in Nat \ {0} /\ s[Len(s)] \in Labels
         /\ f \in Seq(Labels) /\ Len(f) = Len(s) - 1
         /\ f = <<>> <=> Len(s) = 1
         /\ \A n \in 1..Len(f) : f[n] = s[n]
         /\ f # <<>> => f[1] = s[1]
<1>1. Len(s) \in Nat \ {0} /\ \A n \in 1..Len(s) : s[n] \in Labels
  BY EmptySeq, ElementOfSeq
<1>2. 1 \in Int /\ Len(s) - 1 \in Int /\ \A n \in 1..(Len(s) - 1) : s[n] \in Labels
  BY <1>1
<1>3. f \in Seq(Labels)
  BY <1>2, SubSeqProperties, Zenon
<1>4. Len(f) = Len(s) - 1 /\ \A n \in 1..(Len(s) - 1) : f[n] = s[n]
  BY FrontElements, Zenon
<1>5. f = <<>> <=> Len(f) = 0
  BY <1>3, EmptySeq, Zenon
<1>. QED BY <1>1, <1>3, <1>4, <1>5

\* With tasking on, a tick finds a task with a context to switch to.
LEMMA SuccessorFacts ==
  ASSUME IInv, current_task # Null, pc # "init_fields"
  PROVE  /\ current_task \in Created /\ Running = current_task /\ 1 \in Created
         /\ Successor(current_task) \in Created
         /\ intr => \A t \in Created \ {current_task} : eip[t] # "none"
<1>. USE DEF Null
<1>1. current_task \in Created /\ Running = current_task /\ ready_queue = 1
  BY DEF IInv, Phase, Running
<1>2. 1 \in Created
  BY <1>1, BoundsAssumption DEF IInv, TypeOK, Created, Pid
<1>3. Successor(current_task) \in Created
  BY <1>1, <1>2 DEF IInv, LinksLeadToYounger, Successor
<1>4. intr => \A t \in Created \ {current_task} : eip[t] # "none"
  BY <1>1 DEF IInv, ContextsSaved, Forking
<1>. QED BY <1>1, <1>2, <1>3, <1>4

\* What a tick does: the interrupted task is suspended in its interrupt, and
\* the processor goes to where its successor was left.
LEMMA TickFacts ==
  ASSUME IInv, Tick
  PROVE  /\ pc \in {"user", "count", "count_next", "irq", "fork_check"} /\ intr /\ intr'
         /\ current_task \in Created /\ Running = current_task
         /\ current_task' \in Created /\ Running' = current_task'
         /\ eip'[current_task'] # "none"
         /\ pc' = IF eip'[current_task'] = "switch" THEN "irq" ELSE "fork_check"
         /\ current_directory' = page_directory[current_task']
<1>. USE DEF Null
<1>1. intr /\ intr' /\ current_task # Null /\ pc # "wild"
  BY DEF Tick, CanInterrupt
<1>2. pc \in {"user", "count", "count_next", "irq", "fork_check"}
  BY <1>1 DEF IInv, TypeOK, Phase, Labels
<1>3. /\ current_task \in Created /\ Running = current_task
      /\ Successor(current_task) \in Created
      /\ \A t \in Created \ {current_task} : eip[t] # "none"
  BY <1>1, <1>2, SuccessorFacts
<1>4. /\ current_task' = Successor(current_task)
      /\ current_directory' = page_directory[current_task']
      /\ pc' = Resume(eip'[current_task'])
  BY <1>3 DEF Tick, LoadDirectory, Created
<1>5. /\ eip' = [eip EXCEPT ![current_task] = "switch"]
      /\ eip \in [Pid -> {"none", "switch", "fork"}]
  BY DEF Tick, IInv, TypeOK
<1>6. eip'[current_task'] \in {"switch", "fork"}
  BY <1>3, <1>4, <1>5 DEF Created
<1>7. Running' = current_task'
  BY <1>3, <1>4 DEF Running, Created, Pid
<1>. QED BY <1>1, <1>2, <1>3, <1>4, <1>6, <1>7 DEF Resume

\* While a task runs its own code, it is no interrupt handler's guest.
LEMMA TaskCode ==
  ASSUME IInv, pc \in {"user", "fork_new", "fork_walk", "fork_check",
                       "exit_loop", "count", "count_next"}
  PROVE  /\ current_task \in Created /\ current_task \in Pid
         /\ current_task # Null /\ Running = current_task
         /\ stack[current_task] = <<>>
         /\ next_pid \in Nat /\ next_pid <= MaxPid + 1 /\ MaxPid \in Nat
         /\ ready_queue = 1 /\ 1 \in Created
<1>1. current_task # Null /\ current_task \in Created /\ ready_queue = 1
  BY DEF IInv, Phase
<1>2. current_task \in Pid /\ Running = current_task
  BY <1>1 DEF Created, Running
<1>3. stack[current_task] = <<>>
  BY <1>2 DEF IInv, StackShape
<1>4. next_pid \in 1..(MaxPid + 1) /\ MaxPid \in Nat
  BY BoundsAssumption DEF IInv, TypeOK
<1>5. 1 \in Created
  BY <1>1, <1>4, BoundsAssumption DEF Created, Pid
<1>. QED BY <1>1, <1>2, <1>3, <1>4, <1>5

\* The step of each action, one conjunct of the invariant after the other.
\* initialise_tasking.
LEMMA InitCliStep == ASSUME IInv, InitCli PROVE IInv'
<1>. USE BoundsAssumption DEF IInv, InitCli, Pid, Null, Garbage, Created,
     Running, globals, fields, forking, counting
<1>1. TypeOK'
  BY DEF TypeOK, Links, Labels
<1>2. Phase'
  BY DEF Phase
<1>3. StackShape'
  BY DEF StackShape
<1>4. ContextsSaved'
  BY DEF ContextsSaved, Forking
<1>5. ForkLocals'
  BY DEF ForkLocals, Forking
<1>6. Newborns'
  BY DEF Newborns, Newborn, CallPoint, TypeOK, Phase, Links
<1>7. WalkLocals'
  BY DEF WalkLocals, CallPoint
<1>8. LinksLeadToYounger'
  BY DEF LinksLeadToYounger
<1>9. Directories'
  BY DEF Directories
<1>10. Chain'
  BY DEF Chain
<1>11. Counts'
  BY DEF Counts, CallPoint
<1>. QED BY <1>1, <1>2, <1>3, <1>4, <1>5, <1>6, <1>7, <1>8, <1>9, <1>10, <1>11

LEMMA InitPublishStep == ASSUME IInv, InitPublish PROVE IInv'
<1>. USE BoundsAssumption DEF IInv, InitPublish, Pid, Null, Garbage, Created,
     Running, globals, fields, forking, counting
<1>1. TypeOK'
  <2>1. 1 \in Pid /\ "init_fields" \in Labels
    BY DEF Labels
  <2>. QED BY <2>1 DEF TypeOK
<1>2. Phase'
  BY DEF Phase
<1>3. StackShape'
  BY DEF StackShape, TypeOK, Phase, Links
<1>4. ContextsSaved'
  BY DEF ContextsSaved, Forking, TypeOK, Phase, Links
<1>5. ForkLocals'
  BY DEF ForkLocals, Forking
<1>6. Newborns'
  BY DEF Newborns, Newborn, CallPoint, TypeOK, Phase, Links
<1>7. WalkLocals'
  BY DEF WalkLocals, CallPoint
<1>8. LinksLeadToYounger'
  BY DEF LinksLeadToYounger
<1>9. Directories'
  BY DEF Directories, TypeOK, Phase, Links
<1>10. Chain'
  BY DEF Chain
<1>11. Counts'
  BY DEF Counts, CallPoint
<1>. QED BY <1>1, <1>2, <1>3, <1>4, <1>5, <1>6, <1>7, <1>8, <1>9, <1>10, <1>11

LEMMA InitFieldsStep == ASSUME IInv, InitFields PROVE IInv'
<1>. USE BoundsAssumption DEF IInv, InitFields, Pid, Null, Garbage, Created,
     Running, globals, fields, forking, counting
<1>1. TypeOK'
  <2>1. next_pid = 1 /\ next_pid' \in 1..(MaxPid + 1)
    BY DEF Phase, TypeOK
  <2>2. Running \in Pid /\ 1 \in Links /\ Null \in Links /\ "user" \in Labels
    BY DEF Phase, Links, Labels
  <2>3. /\ page_directory' \in [Pid -> Links] /\ next' \in [Pid -> Links]
        /\ kernel_stack' \in [Pid -> Links]
    BY <2>2 DEF TypeOK
  <2>. QED BY <2>1, <2>2, <2>3 DEF TypeOK
<1>2. Phase'
  BY DEF Phase
<1>3. StackShape'
  BY DEF StackShape
<1>4. ContextsSaved'
  BY DEF ContextsSaved, Forking, TypeOK, Phase, Links
<1>5. ForkLocals'
  BY DEF ForkLocals, Forking
<1>6. Newborns'
  <2>1. current_task = 1 /\ next_pid = 1 /\ next_pid' = 2 /\ pc' = "user"
    BY DEF Phase
  <2>2. \A t \in Pid \ {1} : CallPoint(t)' = CallPoint(t)
    BY <2>1 DEF CallPoint
  <2>3. stack[1] = <<>> /\ CallPoint(1)' = "user"
    BY <2>1 DEF CallPoint, StackShape
  <2>. QED BY <2>1, <2>2, <2>3 DEF Newborns, Newborn
<1>7. WalkLocals'
  BY DEF WalkLocals, CallPoint, TypeOK, Links
<1>8. LinksLeadToYounger'
  BY DEF LinksLeadToYounger, TypeOK, Phase, Links
<1>9. Directories'
  BY DEF Directories, TypeOK, Phase, Links
<1>10. Chain'
  BY DEF Chain, TypeOK, Phase, Links
<1>11. Counts'
  <2>1. Created = {} /\ \A t \in Pid : size[t] = 0 \/ exited # {}
    BY DEF Counts, Phase
  <2>. QED BY <2>1 DEF Counts
<1>. QED BY <1>1, <1>2, <1>3, <1>4, <1>5, <1>6, <1>7, <1>8, <1>9, <1>10, <1>11

\* The timer interrupt and the return from it.  Both leave every CallPoint as
\* it is, which is what the conjuncts about a task's own code need.
LEMMA TickBeforeTaskingStep == ASSUME IInv, TickBeforeTasking PROVE IInv'
<1>. USE BoundsAssumption DEF IInv, TickBeforeTasking, Pid, Null, Garbage,
     Created, Running, globals, fields, forking, counting
<1>1. TypeOK'
  <2>1. 1 \in Pid /\ "irq" \in Labels
    BY DEF Labels
  <2>2. Append(stack[1], pc) \in Seq(Labels)
    BY <2>1, AppendFacts DEF TypeOK
  <2>. QED BY <2>1, <2>2 DEF TypeOK
<1>2. Phase'
  BY DEF CanInterrupt, Phase
<1>3. StackShape'
  <2>1. pc = "boot" /\ pc' = "irq" /\ stack[1] = <<>> /\ current_task' = Null /\ 1 \in Pid
    BY DEF Phase, StackShape, CanInterrupt
  <2>2. stack' = [stack EXCEPT ![1] = <<"boot">>] /\ stack \in [Pid -> Seq(Labels)]
    BY <2>1 DEF TypeOK
  <2>3. stack'[1] = <<"boot">> /\ \A t \in Pid \ {1} : stack'[t] = stack[t]
    BY <2>1, <2>2
  <2>4. stack'[1] # <<>>
    BY <2>3
  <2>6. Len(stack'[1]) = 1 /\ stack'[1][1] = "boot"
    <3>1. Len(<<"boot">>) = 1 /\ <<"boot">>[1] = "boot"
      OBVIOUS
    <3>. QED BY <2>3, <3>1, Zenon
  <2>5. \A t \in Pid : \A n \in 1..Len(stack'[t]) : stack'[t][n] = "irq" <=> n > 1
    BY <2>3, <2>6 DEF StackShape
  <2>. QED BY <2>1, <2>3, <2>4, <2>5, <2>6 DEF StackShape
<1>4. ContextsSaved'
  BY DEF CanInterrupt, ContextsSaved, Forking
<1>5. ForkLocals'
  BY DEF CanInterrupt, ForkLocals, Forking
<1>6. Newborns'
  BY DEF CanInterrupt, Newborns, Newborn, CallPoint
<1>7. WalkLocals'
  BY DEF CanInterrupt, WalkLocals, CallPoint
<1>8. LinksLeadToYounger'
  BY DEF CanInterrupt, LinksLeadToYounger
<1>9. Directories'
  BY DEF CanInterrupt, Directories
<1>10. Chain'
  BY DEF CanInterrupt, Chain, TypeOK, Phase, Links
<1>11. Counts'
  BY DEF CanInterrupt, Counts, CallPoint, TypeOK, Phase, Links
<1>. QED BY <1>1, <1>2, <1>3, <1>4, <1>5, <1>6, <1>7, <1>8, <1>9, <1>10, <1>11

LEMMA TickStep == ASSUME IInv, Tick PROVE IInv'
<1>. DEFINE c == current_task
            s == current_task'
<1>a. /\ pc \in {"user", "count", "count_next", "irq", "fork_check"} /\ intr /\ intr'
      /\ c \in Created /\ c # Null /\ Running = c
      /\ s \in Created /\ s # Null /\ Running' = s
      /\ eip'[s] # "none" /\ current_directory' = page_directory[s]
      /\ pc' = IF eip'[s] = "switch" THEN "irq" ELSE "fork_check"
  BY TickFacts DEF Created, Pid, Null
<1>b. /\ UNCHANGED <<ready_queue, next_pid, next, page_directory, kernel_stack,
                     tmp_task, forking, counting, exited>>
      /\ stack' = [stack EXCEPT ![c] = Append(@, pc)]
      /\ eip' = [eip EXCEPT ![c] = "switch"]
  BY <1>a DEF Tick
<1>c. /\ Append(stack[c], pc) \in Seq(Labels) /\ Append(stack[c], pc) # <<>>
      /\ Len(Append(stack[c], pc)) = Len(stack[c]) + 1
      /\ \A n \in 1..Len(stack[c]) : Append(stack[c], pc)[n] = stack[c][n]
      /\ Append(stack[c], pc)[Len(stack[c]) + 1] = pc
      /\ Append(stack[c], pc)[1] = IF stack[c] = <<>> THEN pc ELSE stack[c][1]
  BY <1>a, AppendFacts DEF IInv, TypeOK, Created
<1>d. /\ c \in Pid /\ s \in Pid /\ stack'[c] = Append(stack[c], pc)
      /\ \A t \in Pid \ {c} : stack'[t] = stack[t] /\ eip'[t] = eip[t]
      /\ eip'[c] = "switch"
  BY <1>a, <1>b DEF IInv, TypeOK, Created
<1>e. \A t \in Pid \ {c} : eip[t] = "switch" <=> stack[t] # <<>>
  BY <1>a DEF IInv, StackShape
<1>f. ASSUME NEW t \in Pid PROVE CallPoint(t)' = CallPoint(t)
  <2>1. CASE t = c
    BY <2>1, <1>a, <1>c, <1>d DEF CallPoint
  <2>2. CASE t # c /\ t = s
    <3>1. eip[t] # "none" /\ eip[t] \in {"none", "switch", "fork"}
      BY <2>2, <1>a, <1>d DEF IInv, TypeOK
    <3>. QED BY <3>1, <2>2, <1>a, <1>d, <1>e DEF CallPoint
  <2>3. CASE t # c /\ t # s
    BY <2>3, <1>a, <1>d DEF CallPoint
  <2>. QED BY <2>1, <2>2, <2>3
<1>. USE DEF IInv, forking, counting
<1>1. TypeOK'
  <2>1. /\ stack' \in [Pid -> Seq(Labels)]
        /\ eip' \in [Pid -> {"none", "switch", "fork"}]
    BY <1>b, <1>c DEF TypeOK
  <2>2. current_directory' \in Links /\ pc' \in Labels /\ intr' \in BOOLEAN
    BY <1>a, <1>d DEF TypeOK, Labels
  <2>. QED BY <2>1, <2>2, <1>b, <1>d DEF TypeOK
<1>2. Phase'
  <2>1. current_task' # Null /\ current_task' \in Created' /\ ready_queue' = 1
    BY <1>a, <1>b DEF Phase, Created
  <2>2. \A t \in Pid : eip'[t] # "none" => t \in Created'
    BY <1>a, <1>b, <1>d DEF Phase, Created
  <2>. QED BY <2>1, <2>2, <1>a DEF Phase
<1>3. StackShape'
  <2>1. Len(stack[c]) \in Nat /\ (stack[c] = <<>> <=> Len(stack[c]) = 0)
    BY <1>d, EmptySeq DEF TypeOK
  <2>2. \A n \in 1..Len(stack'[c]) : stack'[c][n] = "irq" <=> n > 1
    BY <2>1, <1>a, <1>c, <1>d DEF StackShape
  <2>3. stack'[c][1] \in {"user", "fork_check", "count", "count_next"}
    BY <1>a, <1>c, <1>d DEF StackShape
  <2>4. \A t \in Pid \ {c} : stack[t] # <<>> => stack[t][1] \in {"user", "fork_check", "count", "count_next"}
    BY <1>a DEF StackShape
  <2>5. eip'[s] = "switch" <=> stack'[s] # <<>>
    BY <1>a, <1>c, <1>d, <1>e
  <2>6. \A t \in Pid : eip'[t] = "switch" <=> stack'[t] # <<>>
    BY <1>c, <1>d, <1>e
  <2>7. \A t \in Pid \ {c} : \A n \in 1..Len(stack'[t]) : stack'[t][n] = "irq" <=> n > 1
    BY <1>d DEF StackShape
  <2>8. \A t \in Pid : stack'[t] # <<>> => stack'[t][1] \in {"user", "fork_check", "count", "count_next"}
    BY <2>3, <2>4, <1>d
  <2>. QED BY <2>2, <2>5, <2>6, <2>7, <2>8, <1>a DEF StackShape
<1>4. ContextsSaved'
  BY <1>a, <1>b, <1>d DEF ContextsSaved, Forking, Created
<1>5. ForkLocals'
  BY <1>a DEF ForkLocals, Forking
<1>6. Newborns'
  BY <1>a, <1>b, <1>f DEF Newborns, Newborn, Created
<1>7. WalkLocals'
  BY <1>a, <1>b, <1>f DEF WalkLocals, Created
<1>8. LinksLeadToYounger'
  BY <1>b DEF LinksLeadToYounger, Created
<1>9. Directories'
  BY <1>a, <1>b DEF Directories, Created
<1>10. Chain'
  BY <1>a, <1>b DEF Chain, Created
<1>11. Counts'
  BY <1>b, <1>f DEF Counts, Created
<1>. QED BY <1>1, <1>2, <1>3, <1>4, <1>5, <1>6, <1>7, <1>8, <1>9, <1>10, <1>11

LEMMA IrqReturnStep == ASSUME IInv, IrqReturn PROVE IInv'
<1>. DEFINE c == Running
            f == SubSeq(stack[c], 1, Len(stack[c]) - 1)
<1>a. c \in Pid
  BY BoundsAssumption DEF IInv, TypeOK, Running, Pid, Null
<1>b. stack[c] \in Seq(Labels) /\ stack[c] # <<>>
  BY <1>a DEF IrqReturn, IInv, StackShape, TypeOK
<1>c. /\ Len(stack[c]) \in Nat \ {0} /\ f \in Seq(Labels)
      /\ Len(f) = Len(stack[c]) - 1 /\ (f = <<>> <=> Len(stack[c]) = 1)
      /\ \A n \in 1..Len(f) : f[n] = stack[c][n]
      /\ f # <<>> => f[1] = stack[c][1]
      /\ stack[c][Len(stack[c])] \in Labels
  BY <1>b, FrontFacts
<1>d. /\ pc = "irq" /\ pc' = stack[c][Len(stack[c])] /\ intr'
      /\ stack' = [stack EXCEPT ![c] = f]
      /\ UNCHANGED <<globals, fields, tmp_task, forking, counting, exited>>
      /\ Running' = Running
  BY DEF IrqReturn, Running, globals
<1>e. /\ stack'[c] = f /\ \A t \in Pid \ {c} : stack'[t] = stack[t]
      /\ current_task # Null => current_task = c /\ c \in Created
      /\ current_task # Null => intr
  BY <1>a, <1>d DEF IInv, TypeOK, Phase, Running
<1>g. /\ stack[c][1] \in IF current_task = Null THEN {"boot"}
                         ELSE {"user", "fork_check", "count", "count_next"}
      /\ pc' = "irq" <=> f # <<>>
      /\ f = <<>> => pc' = stack[c][1]
      /\ current_task = Null => f = <<>>
  <2>1. stack[c][Len(stack[c])] = "irq" <=> Len(stack[c]) > 1
    BY <1>a, <1>c DEF IInv, StackShape
  <2>2. current_task = Null => Len(stack[c]) <= 1
    BY DEF IInv, StackShape, Running
  <2>3. stack[c][1] \in IF current_task = Null THEN {"boot"}
                        ELSE {"user", "fork_check", "count", "count_next"}
    BY <1>a, <1>b DEF IInv, StackShape
  <2>4. Len(stack[c]) > 1 <=> f # <<>>
    BY <1>c
  <2>. QED BY <2>1, <2>2, <2>3, <2>4, <1>c, <1>d
<1>f. ASSUME NEW t \in Pid PROVE CallPoint(t)' = CallPoint(t)
  <2>1. CASE t = c
    BY <2>1, <1>b, <1>c, <1>d, <1>e, <1>g DEF CallPoint
  <2>2. CASE t # c
    BY <2>2, <1>d, <1>e DEF CallPoint, fields
  <2>. QED BY <2>1, <2>2
<1>. USE DEF IInv, globals, fields, forking, counting
<1>1. TypeOK'
  BY <1>c, <1>d DEF TypeOK
<1>2. Phase'
  <2>1. CASE current_task = Null
    BY <2>1, <1>d, <1>g DEF Phase
  <2>2. CASE current_task # Null
    BY <2>2, <1>d, <1>e, <1>g DEF Phase, Created
  <2>. QED BY <2>1, <2>2
<1>3. StackShape'
  <2>1. \A t \in Pid : \A n \in 1..Len(stack'[t]) : stack'[t][n] = "irq" <=> n > 1
    BY <1>a, <1>c, <1>e DEF StackShape
  <2>2. \A t \in Pid : stack'[t] # <<>> =>
          stack'[t][1] \in IF current_task = Null THEN {"boot"}
                           ELSE {"user", "fork_check", "count", "count_next"}
    BY <1>c, <1>e, <1>g DEF StackShape
  <2>3. current_task = Null => c = 1 /\ Len(f) = 0
    BY <1>c, <1>g DEF Running
  <2>4. \A t \in Pid \ {c} : eip'[t] = "switch" <=> stack'[t] # <<>>
    BY <1>d, <1>e DEF StackShape
  <2>. QED BY <2>1, <2>2, <2>3, <2>4, <1>d, <1>e, <1>g DEF StackShape
<1>4. ContextsSaved'
  <2>1. \A t \in Created : t # c => eip[t] # "none"
    BY <1>d DEF ContextsSaved, Forking
  <2>. QED BY <2>1, <1>d DEF ContextsSaved, Created
<1>5. ForkLocals'
  BY <1>d, <1>g DEF ForkLocals, Forking
<1>6. Newborns'
  <2>1. CallPoint(c) = "fork_check" => intr
    BY <1>b, <1>e, <1>g DEF CallPoint
  <2>2. \A t \in Pid : Newborn(t)' <=> Newborn(t)
    BY <2>1, <1>d, <1>f DEF Newborn
  <2>. QED BY <2>2, <1>d, <1>f DEF Newborns, Created
<1>7. WalkLocals'
  BY <1>d, <1>f, <1>g DEF WalkLocals, Created
<1>8. LinksLeadToYounger'
  BY <1>d DEF LinksLeadToYounger, Created
<1>9. Directories'
  BY <1>d DEF Directories, Created
<1>10. Chain'
  BY <1>d, <1>g DEF Chain, Created
<1>11. Counts'
  BY <1>d, <1>f DEF Counts, Created
<1>. QED BY <1>1, <1>2, <1>3, <1>4, <1>5, <1>6, <1>7, <1>8, <1>9, <1>10, <1>11

\* fork.
LEMMA ForkCliStep == ASSUME IInv, ForkCli PROVE IInv'
<1>. USE BoundsAssumption DEF IInv, ForkCli, Pid, Null, Garbage, Created,
     Running, globals, fields, forking, counting
<1>. DEFINE c == current_task
<1>a. /\ c \in Created /\ c \in Pid /\ c # Null /\ Running = c /\ stack[c] = <<>>
      /\ Running' = c /\ current_task' = c
  BY TaskCode
<1>1. TypeOK'
  BY DEF TypeOK, Links, Labels
<1>2. Phase'
  BY DEF Phase
<1>3. StackShape'
  BY DEF StackShape
<1>4. ContextsSaved'
  BY DEF ContextsSaved, Forking
<1>5. ForkLocals'
  BY DEF ForkLocals, Forking, TypeOK, Phase, Links
<1>6. Newborns'
  <2>1. \A t \in Pid \ {c} : CallPoint(t)' = CallPoint(t)
    BY <1>a DEF CallPoint
  <2>2. CallPoint(c) = "user" /\ CallPoint(c)' = "fork_new"
    BY <1>a DEF CallPoint
  <2>3. \A t \in Pid \ {c} : Newborn(t)' <=> Newborn(t)
    BY <1>a, <2>1 DEF Newborn
  <2>4. parent_task' = [parent_task EXCEPT ![c] = c] /\ parent_task \in [Pid -> Links]
    BY DEF TypeOK
  <2>. QED BY <1>a, <2>1, <2>2, <2>3, <2>4 DEF Newborns, Newborn
<1>7. WalkLocals'
  BY DEF WalkLocals, CallPoint
<1>8. LinksLeadToYounger'
  BY DEF LinksLeadToYounger
<1>9. Directories'
  BY DEF Directories
<1>10. Chain'
  BY DEF Chain
<1>11. Counts'
  BY DEF Counts, CallPoint
<1>. QED BY <1>1, <1>2, <1>3, <1>4, <1>5, <1>6, <1>7, <1>8, <1>9, <1>10, <1>11

LEMMA ForkNewStep == ASSUME IInv, ForkNew PROVE IInv'
<1>. USE BoundsAssumption DEF IInv, ForkNew, Pid, Null, Garbage, Created,
     Running, globals, fields, forking, counting
<1>. DEFINE c == current_task
<1>a. /\ c \in Created /\ c \in Pid /\ c # Null /\ Running = c /\ stack[c] = <<>>
      /\ Running' = c /\ current_task' = c
  BY TaskCode
<1>n. /\ next_pid \in Nat /\ next_pid <= MaxPid + 1 /\ MaxPid \in Nat
      /\ ready_queue = 1 /\ 1 \in Created
  BY TaskCode
<1>. DEFINE new == next_pid
<1>b. /\ new \in Pid /\ new \notin Created /\ new # c /\ new # 1 /\ new # Null
      /\ Created' = Created \cup {new} /\ next_pid' = new + 1 /\ ~intr /\ ~intr'
      /\ parent_task[c] = c /\ ready_queue = 1 /\ 1 \in Created /\ 1 < new
  <2>1. /\ next_pid <= MaxPid /\ parent_task[c] = c /\ ~intr
    BY <1>a DEF Phase, ForkLocals
  <2>2. new \in Pid /\ new \notin Created /\ new # c /\ new # 1 /\ 1 < new
    BY <1>a, <1>n, <2>1
  <2>3. Created' = Created \cup {new}
    BY <1>n, <2>2
  <2>. QED BY <1>a, <1>n, <2>1, <2>2, <2>3
<1>c. /\ stack[new] = <<>> /\ eip[new] = "none" /\ rv[new] = Garbage
  BY <1>a, <1>b DEF Phase, StackShape, Newborns
<1>d. /\ new_task' = [new_task EXCEPT ![c] = new]
      /\ parent_task' = [parent_task EXCEPT ![new] = c]
      /\ next' = [next EXCEPT ![new] = Null]
      /\ page_directory' = [page_directory EXCEPT ![new] = new]
      /\ kernel_stack' = [kernel_stack EXCEPT ![c] = new]
      /\ tmp_task' = [tmp_task EXCEPT ![c] = 1] /\ pc' = "fork_walk"
  BY <1>b DEF WalkFrom
<1>e. stack' = stack /\ eip' = eip
  BY <1>a, <1>b, <1>c DEF TypeOK
<1>f. /\ CallPoint(c) = "fork_new" /\ CallPoint(c)' = "fork_walk"
      /\ \A t \in Pid \ {c} : CallPoint(t)' = CallPoint(t)
      /\ CallPoint(new) = "none"
  BY <1>a, <1>b, <1>c, <1>e DEF CallPoint
<1>1. TypeOK'
  <2>1. next_pid' \in 1..(MaxPid + 1)
    BY <1>b, <1>n
  <2>2. c \in Links /\ new \in Links /\ 1 \in Links /\ Null \in Links
    BY <1>a, <1>b DEF Links
  <2>3. \A f \in [Pid -> Links], p \in Pid, l \in Links :
          [f EXCEPT ![p] = l] \in [Pid -> Links]
    OBVIOUS
  <2>4. /\ next \in [Pid -> Links] /\ page_directory \in [Pid -> Links]
        /\ kernel_stack \in [Pid -> Links] /\ parent_task \in [Pid -> Links]
        /\ new_task \in [Pid -> Links] /\ tmp_task \in [Pid -> Links]
    BY DEF TypeOK
  <2>5. /\ next' \in [Pid -> Links] /\ page_directory' \in [Pid -> Links]
        /\ kernel_stack' \in [Pid -> Links] /\ parent_task' \in [Pid -> Links]
        /\ new_task' \in [Pid -> Links] /\ tmp_task' \in [Pid -> Links]
    <3>. HIDE DEF ForkNew, IInv, Pid, Null, Created
    <3>1. next' \in [Pid -> Links]
      BY <1>b, <1>d, <2>2, <2>3, <2>4
    <3>2. page_directory' \in [Pid -> Links]
      BY <1>b, <1>d, <2>2, <2>3, <2>4
    <3>3. kernel_stack' \in [Pid -> Links]
      BY <1>a, <1>d, <2>2, <2>3, <2>4
    <3>4. parent_task' \in [Pid -> Links]
      BY <1>b, <1>d, <2>2, <2>3, <2>4
    <3>5. new_task' \in [Pid -> Links]
      BY <1>a, <1>d, <2>2, <2>3, <2>4
    <3>6. tmp_task' \in [Pid -> Links]
      BY <1>a, <1>d, <2>2, <2>3, <2>4
    <3>. QED BY <3>1, <3>2, <3>3, <3>4, <3>5, <3>6
  <2>. QED BY <1>d, <1>e, <2>1, <2>5 DEF TypeOK, Labels
<1>2. Phase'
  BY DEF WalkFrom, Phase, TypeOK, Links
<1>3. StackShape'
  BY DEF WalkFrom, StackShape, Phase
<1>4. ContextsSaved'
  BY DEF WalkFrom, ContextsSaved, Forking, TypeOK, Phase, Links
<1>5. ForkLocals'
  <2>1. \A t \in Created' : next'[t] # new
    <3>1. next'[new] = Null /\ \A t \in Created : next'[t] = next[t]
      BY <1>b, <1>d DEF TypeOK
    <3>. QED BY <1>b, <3>1 DEF LinksLeadToYounger
  <2>2. /\ parent_task'[c] = c /\ parent_task'[new] = c /\ new_task'[c] = new
        /\ tmp_task'[c] = 1
    BY <1>a, <1>b, <1>d DEF TypeOK, ForkLocals
  <2>3. next_pid' - 1 = new /\ 1 \in Created'
    BY <1>b
  <2>. QED BY <1>a, <1>b, <1>c, <1>d, <1>e, <2>1, <2>2, <2>3 DEF ForkLocals, Forking
<1>6. Newborns'
  <2>1. \A t \in Pid : Newborn(t)' <=> Newborn(t)
    BY <1>a, <1>b, <1>f DEF Newborn
  <2>2. \A t \in Pid \ {new} : parent_task'[t] = parent_task[t]
    BY <1>d DEF TypeOK
  <2>3. ~Newborn(new)
    BY <1>f DEF Newborn
  <2>. QED BY <1>b, <1>c, <1>f, <2>1, <2>2, <2>3 DEF Newborns
<1>7. WalkLocals'
  BY <1>b, <1>d, <1>f DEF WalkLocals
<1>8. LinksLeadToYounger'
  BY DEF WalkFrom, LinksLeadToYounger, TypeOK, Links
<1>9. Directories'
  BY DEF WalkFrom, Directories, TypeOK, Links
<1>10. Chain'
  BY DEF WalkFrom, Chain, TypeOK, Links
<1>11. Counts'
  <2>1. \A k \in Nat : k <= next_pid - 1 => k <= next_pid' - 1
    BY <1>b, <1>n
  <2>2. \A t \in Pid : count_from[t] \in Nat
    BY DEF TypeOK
  <2>3. \A t \in Pid : \A l \in {"count", "count_next"} :
          CallPoint(t)' = l <=> CallPoint(t) = l
    BY <1>f
  <2>4. \A t \in Created : next'[t] = next[t]
    BY <1>b, <1>d DEF TypeOK
  <2>. QED BY <1>b, <2>1, <2>2, <2>3, <2>4 DEF Counts
<1>. QED BY <1>1, <1>2, <1>3, <1>4, <1>5, <1>6, <1>7, <1>8, <1>9, <1>10, <1>11

LEMMA ForkWalkStep == ASSUME IInv, ForkWalk PROVE IInv'
<1>. USE BoundsAssumption DEF IInv, ForkWalk, Pid, Null, Garbage, Created,
     Running, globals, fields, forking, counting
<1>. DEFINE c == current_task
<1>a. /\ c \in Created /\ c \in Pid /\ c # Null /\ Running = c /\ stack[c] = <<>>
      /\ Running' = c /\ current_task' = c
  BY TaskCode
<1>n. /\ next_pid \in Nat /\ next_pid <= MaxPid + 1 /\ MaxPid \in Nat
      /\ ready_queue = 1 /\ 1 \in Created
  BY TaskCode
<1>1. TypeOK'
  BY DEF TypeOK, Links, Labels, Phase, ForkLocals, Forking
<1>2. Phase'
  BY DEF Phase
<1>3. StackShape'
  BY DEF StackShape
<1>4. ContextsSaved'
  BY DEF ContextsSaved, Forking
<1>5. ForkLocals'
  <2>1. /\ tmp_task[c] \in Created /\ tmp_task[c] \in Pid
        /\ tmp_task'[c] = next[tmp_task[c]] /\ next[tmp_task[c]] # Null
    BY <1>a DEF ForkLocals, TypeOK
  <2>2. tmp_task'[c] \in Created /\ tmp_task'[c] # next_pid - 1
    BY <2>1 DEF LinksLeadToYounger, ForkLocals
  <2>3. tmp_task'[c] < next_pid - 1
    BY <2>2, <1>n
  <2>. QED BY <1>a, <2>2, <2>3 DEF ForkLocals, Forking
<1>6. Newborns'
  BY DEF Newborns, Newborn, CallPoint
<1>7. WalkLocals'
  BY DEF WalkLocals, CallPoint
<1>8. LinksLeadToYounger'
  BY DEF LinksLeadToYounger
<1>9. Directories'
  BY DEF Directories
<1>10. Chain'
  BY DEF Chain
<1>11. Counts'
  BY DEF Counts, CallPoint
<1>. QED BY <1>1, <1>2, <1>3, <1>4, <1>5, <1>6, <1>7, <1>8, <1>9, <1>10, <1>11

LEMMA ForkLinkStep == ASSUME IInv, ForkLink PROVE IInv'
<1>. USE BoundsAssumption DEF IInv, ForkLink, Pid, Null, Garbage, Created,
     Running, globals, fields, forking, counting
<1>. DEFINE c == current_task
<1>a. /\ c \in Created /\ c \in Pid /\ c # Null /\ Running = c /\ stack[c] = <<>>
      /\ Running' = c /\ current_task' = c
  BY TaskCode
<1>n. /\ next_pid \in Nat /\ next_pid <= MaxPid + 1 /\ MaxPid \in Nat
      /\ ready_queue = 1 /\ 1 \in Created
  BY TaskCode
<1>b. ~intr /\ Forking /\ new_task[c] = next_pid - 1 /\ new_task[c] \in Pid
  BY <1>a DEF Phase, ForkLocals, Forking
<1>c. /\ tmp_task[c] \in Created /\ tmp_task[c] < new_task[c] /\ next[tmp_task[c]] = Null
      /\ next' = [next EXCEPT ![tmp_task[c]] = new_task[c]]
  BY <1>a, <1>b DEF ForkLocals
<1>1. TypeOK'
  BY DEF TypeOK, Links, Labels, Phase
<1>2. Phase'
  BY DEF Phase
<1>3. StackShape'
  BY DEF StackShape
<1>4. ContextsSaved'
  BY DEF ContextsSaved, Forking
<1>5. ForkLocals'
  BY DEF ForkLocals, Forking
<1>6. Newborns'
  BY DEF Newborns, Newborn, CallPoint, TypeOK, Phase, Links
<1>7. WalkLocals'
  BY DEF WalkLocals, CallPoint
<1>8. LinksLeadToYounger'
  <2>1. \A t \in Created : next'[t] = IF t = tmp_task[c] THEN new_task[c] ELSE next[t]
    BY <1>c DEF TypeOK
  <2>2. new_task[c] \in Created
    BY <1>b DEF TypeOK
  <2>. QED BY <1>c, <2>1, <2>2 DEF LinksLeadToYounger
<1>9. Directories'
  BY DEF Directories
<1>10. Chain'
  <2>1. \A t \in Created : next'[t] = IF t = tmp_task[c] THEN new_task[c] ELSE next[t]
    BY <1>c DEF TypeOK
  <2>2. exited = {} => tmp_task[c] + 1 = new_task[c]
    <3>1. exited = {} => ~(tmp_task[c] + 1 \in Created /\ tmp_task[c] + 1 # next_pid - 1)
      BY <1>c, <1>n DEF Chain
    <3>. QED BY <1>b, <1>c, <1>n, <3>1
  <2>3. new_task[c] \in Created
    BY <1>b DEF TypeOK
  <2>. QED BY <1>b, <1>c, <2>1, <2>2, <2>3 DEF Chain
<1>11. Counts'
  BY DEF Counts, CallPoint
<1>. QED BY <1>1, <1>2, <1>3, <1>4, <1>5, <1>6, <1>7, <1>8, <1>9, <1>10, <1>11

LEMMA ForkParentStep == ASSUME IInv, ForkParent PROVE IInv'
<1>. USE BoundsAssumption DEF IInv, ForkParent, Pid, Null, Garbage, Created,
     Running, globals, fields, forking, counting
<1>. DEFINE c == current_task
<1>a. /\ c \in Created /\ c \in Pid /\ c # Null /\ Running = c /\ stack[c] = <<>>
      /\ Running' = c /\ current_task' = c
  BY TaskCode
<1>n. /\ next_pid \in Nat /\ next_pid <= MaxPid + 1 /\ MaxPid \in Nat
      /\ ready_queue = 1 /\ 1 \in Created
  BY TaskCode
<1>. DEFINE new == new_task[c]
<1>b. ~intr /\ Forking
  <2>1. intr => Newborn(c)
    BY <1>a DEF Newborn, CallPoint
  <2>. QED BY <1>a, <2>1 DEF Newborns, Forking, IsForker, TypeOK
<1>c. /\ new = next_pid - 1 /\ new # c /\ new \in Pid /\ new \in Created
      /\ parent_task[new] = c /\ rv[new] = Garbage /\ eip[new] = "none"
      /\ new # 1 /\ new # Garbage /\ new # Null
  <2>1. /\ new = next_pid - 1 /\ new # c /\ new \in Pid /\ parent_task[new] = c
        /\ rv[new] = Garbage /\ eip[new] = "none"
    BY <1>a, <1>b DEF ForkLocals
  <2>. QED BY <1>a, <1>n, <2>1
<1>d. /\ eip' = [eip EXCEPT ![new] = "fork"] /\ rv' = [rv EXCEPT ![c] = new]
      /\ intr' /\ pc' = "user" /\ stack[new] = <<>>
  BY <1>a, <1>c DEF StackShape
<1>e. /\ eip'[new] = "fork" /\ \A t \in Pid \ {new} : eip'[t] = eip[t]
      /\ rv'[c] = new /\ \A t \in Pid \ {c} : rv'[t] = rv[t]
  BY <1>a, <1>c, <1>d DEF TypeOK
<1>f. /\ CallPoint(c) = "fork_check" /\ CallPoint(c)' = "user"
      /\ CallPoint(new) = "none" /\ CallPoint(new)' = "fork_check"
      /\ \A t \in Pid \ {c, new} : CallPoint(t)' = CallPoint(t)
  BY <1>a, <1>c, <1>d, <1>e DEF CallPoint
<1>1. TypeOK'
  BY DEF IsForker, TypeOK, Links, Labels
<1>2. Phase'
  BY <1>a, <1>c, <1>d, <1>e DEF Phase
<1>3. StackShape'
  BY <1>a, <1>c, <1>d, <1>e DEF StackShape
<1>4. ContextsSaved'
  BY DEF IsForker, ContextsSaved, Forking, TypeOK, Links
<1>5. ForkLocals'
  BY DEF IsForker, ForkLocals, Forking
<1>6. Newborns'
  <2>1. \A t \in Pid \ {c, new} : Newborn(t)' <=> Newborn(t)
    BY <1>a, <1>f DEF Newborn
  <2>2. ~Newborn(c)' /\ Newborn(new)' /\ parent_task' = parent_task /\ Created' = Created
    BY <1>a, <1>c, <1>d, <1>f DEF Newborn
  <2>3. \A t \in Pid : Newborn(t)' => parent_task[t] # t /\ t # 1 /\ rv'[t] = Garbage
    <3>1. ASSUME NEW t \in Pid, t \notin {c, new}, Newborn(t)'
          PROVE  parent_task[t] # t /\ t # 1 /\ rv'[t] = Garbage
      <4>1. Newborn(t) /\ rv'[t] = rv[t]
        BY <3>1, <1>e, <2>1
      <4>. QED BY <4>1 DEF Newborns
    <3>2. parent_task[new] # new /\ new # 1 /\ rv'[new] = Garbage
      BY <1>a, <1>c, <1>e
    <3>. QED BY <3>1, <3>2, <2>2
  <2>4. \A t \in Pid : t # 1 /\ t \in Created /\ rv'[t] = Garbage =>
          Newborn(t)' \/ CallPoint(t)' = "none"
    BY <1>a, <1>c, <1>e, <1>f, <2>1, <2>2 DEF Newborns
  <2>5. \A t \in Pid : t \notin Created => rv'[t] = Garbage
    BY <1>a, <1>e DEF Newborns
  <2>. QED BY <2>2, <2>3, <2>4, <2>5 DEF Newborns
<1>7. WalkLocals'
  BY <1>a, <1>c, <1>d, <1>f DEF WalkLocals
<1>8. LinksLeadToYounger'
  BY DEF IsForker, LinksLeadToYounger
<1>9. Directories'
  BY DEF IsForker, Directories
<1>10. Chain'
  BY DEF IsForker, Chain
<1>11. Counts'
  BY <1>a, <1>c, <1>f DEF Counts
<1>. QED BY <1>1, <1>2, <1>3, <1>4, <1>5, <1>6, <1>7, <1>8, <1>9, <1>10, <1>11

LEMMA ForkChildStep == ASSUME IInv, ForkChild PROVE IInv'
<1>. USE BoundsAssumption DEF IInv, ForkChild, Pid, Null, Garbage, Created,
     Running, globals, fields, forking, counting
<1>. DEFINE c == current_task
<1>a. /\ c \in Created /\ c \in Pid /\ c # Null /\ Running = c /\ stack[c] = <<>>
      /\ Running' = c /\ current_task' = c
  BY TaskCode
<1>b. intr
  BY <1>a DEF ForkLocals, Forking, IsForker, TypeOK
<1>c. /\ CallPoint(c) = "fork_check" /\ CallPoint(c)' = "user"
      /\ \A t \in Pid \ {c} : CallPoint(t)' = CallPoint(t)
  BY <1>a DEF CallPoint
<1>1. TypeOK'
  BY DEF IsForker, TypeOK, Links, Labels
<1>2. Phase'
  BY DEF IsForker, Phase
<1>3. StackShape'
  BY DEF IsForker, StackShape
<1>4. ContextsSaved'
  BY <1>a, <1>b DEF ContextsSaved, Forking
<1>5. ForkLocals'
  BY DEF IsForker, ForkLocals, Forking
<1>6. Newborns'
  <2>1. \A t \in Pid \ {c} : Newborn(t)' <=> Newborn(t)
    BY <1>a, <1>c DEF Newborn
  <2>2. rv'[c] = 0 /\ \A t \in Pid \ {c} : rv'[t] = rv[t]
    BY <1>a DEF TypeOK
  <2>. QED BY <1>a, <1>c, <2>1, <2>2 DEF Newborns, Newborn
<1>7. WalkLocals'
  BY DEF IsForker, WalkLocals, CallPoint
<1>8. LinksLeadToYounger'
  BY DEF IsForker, LinksLeadToYounger
<1>9. Directories'
  BY DEF IsForker, Directories
<1>10. Chain'
  BY DEF IsForker, Chain
<1>11. Counts'
  BY DEF IsForker, Counts, CallPoint
<1>. QED BY <1>1, <1>2, <1>3, <1>4, <1>5, <1>6, <1>7, <1>8, <1>9, <1>10, <1>11

\* sys_exit.
LEMMA ExitCliStep == ASSUME IInv, ExitCli PROVE IInv'
<1>. USE BoundsAssumption, ProgramsAssumption DEF IInv, ExitCli, Pid, Null,
     Garbage, Created, Running, globals, fields, forking, counting
<1>. DEFINE c == current_task
<1>a. /\ c \in Created /\ c \in Pid /\ c # Null /\ Running = c /\ stack[c] = <<>>
      /\ Running' = c /\ current_task' = c
  BY TaskCode
<1>1. TypeOK'
  <2>1. ready_queue = 1 /\ 1 \in Links /\ "exit_loop" \in Labels
    BY <1>a DEF Phase, Links, Labels
  <2>2. tmp_task' \in [Pid -> Links]
    BY <2>1 DEF TypeOK
  <2>. QED BY <2>1, <2>2 DEF TypeOK
<1>2. Phase'
  BY DEF Phase
<1>3. StackShape'
  BY DEF StackShape
<1>4. ContextsSaved'
  BY DEF ContextsSaved, Forking
<1>5. ForkLocals'
  BY DEF ForkLocals, Forking
<1>6. Newborns'
  BY DEF Newborns, Newborn, CallPoint, TypeOK, Phase, StackShape, Links
<1>7. WalkLocals'
  BY DEF WalkLocals, CallPoint, TypeOK, Phase, Links
<1>8. LinksLeadToYounger'
  BY DEF LinksLeadToYounger
<1>9. Directories'
  BY DEF Directories
<1>10. Chain'
  BY DEF Chain
<1>11. Counts'
  BY DEF Counts, CallPoint
<1>. QED BY <1>1, <1>2, <1>3, <1>4, <1>5, <1>6, <1>7, <1>8, <1>9, <1>10, <1>11

LEMMA ExitLoopStep == ASSUME IInv, ExitLoop PROVE IInv'
<1>. USE BoundsAssumption DEF IInv, ExitLoop, Pid, Null, Garbage, Created,
     Running, globals, fields, forking, counting
<1>. DEFINE c == current_task
<1>a. /\ c \in Created /\ c \in Pid /\ c # Null /\ Running = c /\ stack[c] = <<>>
      /\ Running' = c /\ current_task' = c
  BY TaskCode
<1>n. /\ next_pid \in Nat /\ next_pid <= MaxPid + 1 /\ MaxPid \in Nat
      /\ ready_queue = 1 /\ 1 \in Created
  BY TaskCode
<1>1. TypeOK'
  BY DEF LinkPastExiting, TypeOK, Links, Labels, Phase
<1>2. Phase'
  BY DEF LinkPastExiting, Phase
<1>3. StackShape'
  BY DEF LinkPastExiting, StackShape
<1>4. ContextsSaved'
  BY DEF LinkPastExiting, ContextsSaved, Forking
<1>5. ForkLocals'
  BY DEF LinkPastExiting, ForkLocals, Forking
<1>6. Newborns'
  BY DEF LinkPastExiting, Newborns, Newborn, CallPoint, TypeOK, Phase,
       StackShape, Links
<1>7. WalkLocals'
  BY DEF LinkPastExiting, WalkLocals, CallPoint
<1>8. LinksLeadToYounger'
  <2>1. next' = [next EXCEPT ![1] = next[c]] /\ 1 \in Pid
    <3>1. tmp_task[c] = 1
      BY <1>a DEF WalkLocals
    <3>. QED BY <1>n, <3>1 DEF LinkPastExiting
  <2>2. \A t \in Created : next'[t] = IF t = 1 THEN next[c] ELSE next[t]
    BY <2>1 DEF TypeOK
  <2>3. next[c] = Null \/ next[c] \in {u \in Created : u > 1}
    BY <1>a DEF LinksLeadToYounger
  <2>. QED BY <2>2, <2>3 DEF LinksLeadToYounger
<1>9. Directories'
  BY DEF LinkPastExiting, Directories
<1>10. Chain'
  BY DEF LinkPastExiting, Chain
<1>11. Counts'
  BY DEF LinkPastExiting, Counts, CallPoint
<1>. QED BY <1>1, <1>2, <1>3, <1>4, <1>5, <1>6, <1>7, <1>8, <1>9, <1>10, <1>11

\* queue_count.
LEMMA CountStartStep == ASSUME IInv, CountStart PROVE IInv'
<1>. USE BoundsAssumption, ProgramsAssumption DEF IInv, CountStart, Pid, Null,
     Garbage, Created, Running, globals, fields, forking, counting
<1>. DEFINE c == current_task
<1>a. /\ c \in Created /\ c \in Pid /\ c # Null /\ Running = c /\ stack[c] = <<>>
      /\ Running' = c /\ current_task' = c
  BY TaskCode
<1>b. /\ CallPoint(c)' = "count" /\ 1 \in Created
      /\ \A t \in Pid \ {c} : CallPoint(t)' = CallPoint(t)
  BY <1>a DEF CallPoint, TypeOK
<1>1. TypeOK'
  <2>1. ready_queue = 1 /\ 1 \in Links /\ next_pid - 1 \in Nat /\ "count" \in Labels
    BY <1>a DEF Phase, Links, Labels, TypeOK
  <2>2. /\ queue' \in [Pid -> Links] /\ size' \in [Pid -> Nat]
        /\ count_from' \in [Pid -> Nat]
    BY <2>1 DEF TypeOK, SizeStart
  <2>. QED BY <2>1, <2>2 DEF TypeOK
<1>2. Phase'
  BY DEF SizeStart, Phase
<1>3. StackShape'
  BY DEF SizeStart, StackShape
<1>4. ContextsSaved'
  BY DEF SizeStart, ContextsSaved, Forking
<1>5. ForkLocals'
  BY DEF SizeStart, ForkLocals, Forking
<1>6. Newborns'
  BY DEF SizeStart, Newborns, Newborn, CallPoint
<1>7. WalkLocals'
  BY DEF SizeStart, WalkLocals, CallPoint, TypeOK, Phase, Links
<1>8. LinksLeadToYounger'
  BY DEF SizeStart, LinksLeadToYounger
<1>9. Directories'
  BY DEF SizeStart, Directories
<1>10. Chain'
  BY DEF SizeStart, Chain
<1>11. Counts'
  <2>1. /\ size'[c] = 1 /\ queue'[c] = 1 /\ count_from'[c] = next_pid - 1
        /\ \A t \in Pid \ {c} : /\ size'[t] = size[t] /\ queue'[t] = queue[t]
                                /\ count_from'[t] = count_from[t]
    BY <1>a DEF TypeOK, Phase, SizeStart
  <2>2. next_pid - 1 <= next_pid - 1
    BY DEF TypeOK
  <2>. QED BY <1>a, <1>b, <2>1, <2>2 DEF Counts
<1>. QED BY <1>1, <1>2, <1>3, <1>4, <1>5, <1>6, <1>7, <1>8, <1>9, <1>10, <1>11

LEMMA CountTestStep == ASSUME IInv, CountTest PROVE IInv'
<1>. USE BoundsAssumption DEF IInv, CountTest, Pid, Null, Garbage, Created,
     Running, globals, fields, forking, counting
<1>. DEFINE c == current_task
<1>a. /\ c \in Created /\ c \in Pid /\ c # Null /\ Running = c /\ stack[c] = <<>>
      /\ Running' = c /\ current_task' = c
  BY TaskCode
<1>b. /\ CallPoint(c) = "count" /\ CallPoint(c)' = "count_next"
      /\ \A t \in Pid \ {c} : CallPoint(t)' = CallPoint(t)
  BY <1>a DEF CallPoint
<1>1. TypeOK'
  BY DEF TypeOK, Links, Labels
<1>2. Phase'
  BY DEF Phase
<1>3. StackShape'
  BY DEF StackShape
<1>4. ContextsSaved'
  BY DEF ContextsSaved, Forking
<1>5. ForkLocals'
  BY DEF ForkLocals, Forking
<1>6. Newborns'
  BY DEF Newborns, Newborn, CallPoint
<1>7. WalkLocals'
  BY <1>a, <1>b DEF WalkLocals
<1>8. LinksLeadToYounger'
  BY DEF LinksLeadToYounger
<1>9. Directories'
  BY DEF Directories
<1>10. Chain'
  BY DEF Chain
<1>11. Counts'
  BY <1>a, <1>b DEF Counts
<1>. QED BY <1>1, <1>2, <1>3, <1>4, <1>5, <1>6, <1>7, <1>8, <1>9, <1>10, <1>11

LEMMA CountStepStep == ASSUME IInv, CountStep PROVE IInv'
<1>. USE BoundsAssumption DEF IInv, CountStep, Pid, Null, Garbage, Created,
     Running, globals, fields, forking, counting
<1>. DEFINE c == current_task
<1>a. /\ c \in Created /\ c \in Pid /\ c # Null /\ Running = c /\ stack[c] = <<>>
      /\ Running' = c /\ current_task' = c
  BY TaskCode
<1>b. /\ CallPoint(c)' = "count" /\ 1 \in Created
      /\ \A t \in Pid \ {c} : CallPoint(t)' = CallPoint(t)
  BY <1>a DEF CallPoint, TypeOK
<1>c. /\ CallPoint(c) = "count_next" /\ queue[c] \in Created /\ size[c] # 0
      /\ next[queue[c]] = Null \/ next[queue[c]] \in Created
  BY <1>a DEF CallPoint, WalkLocals, LinksLeadToYounger
<1>d. /\ size'[c] = size[c] + 1 /\ queue'[c] = next[queue[c]] /\ size[c] \in Nat
      /\ \A t \in Pid \ {c} : size'[t] = size[t] /\ queue'[t] = queue[t]
  BY <1>a DEF TypeOK
<1>1. TypeOK'
  <2>1. next[queue[c]] \in Links /\ size[c] + 1 \in Nat /\ "count" \in Labels
    BY <1>c, <1>d DEF Links, Labels
  <2>2. queue' \in [Pid -> Links] /\ size' \in [Pid -> Nat]
    BY <2>1 DEF TypeOK
  <2>. QED BY <2>1, <2>2 DEF TypeOK
<1>2. Phase'
  BY DEF Phase
<1>3. StackShape'
  BY DEF StackShape
<1>4. ContextsSaved'
  BY DEF ContextsSaved, Forking
<1>5. ForkLocals'
  BY DEF ForkLocals, Forking
<1>6. Newborns'
  BY DEF Newborns, Newborn, CallPoint
<1>7. WalkLocals'
  BY <1>a, <1>b, <1>c, <1>d DEF WalkLocals
<1>8. LinksLeadToYounger'
  BY DEF LinksLeadToYounger
<1>9. Directories'
  BY DEF Directories
<1>10. Chain'
  BY DEF Chain
<1>11. Counts'
  <2>1. exited = {} => next[queue[c]] = queue[c] + 1 /\ next[queue[c]] \in Created
    BY <1>a, <1>c DEF Chain, Counts
  <2>. QED BY <1>a, <1>b, <1>c, <1>d, <2>1 DEF Counts
<1>. QED BY <1>1, <1>2, <1>3, <1>4, <1>5, <1>6, <1>7, <1>8, <1>9, <1>10, <1>11

LEMMA CountReturnStep == ASSUME IInv, CountReturn PROVE IInv'
<1>. USE BoundsAssumption DEF IInv, CountReturn, Pid, Null, Garbage, Created,
     Running, globals, fields, forking, counting
<1>. DEFINE c == current_task
<1>a. /\ c \in Created /\ c \in Pid /\ c # Null /\ Running = c /\ stack[c] = <<>>
      /\ Running' = c /\ current_task' = c
  BY TaskCode
<1>n. /\ next_pid \in Nat /\ next_pid <= MaxPid + 1 /\ MaxPid \in Nat
      /\ ready_queue = 1 /\ 1 \in Created
  BY TaskCode
<1>b. /\ CallPoint(c) = "count" /\ CallPoint(c)' = "user"
      /\ \A t \in Pid \ {c} : CallPoint(t)' = CallPoint(t)
  BY <1>a DEF CallPoint
<1>1. TypeOK'
  BY DEF TypeOK, Links, Labels
<1>2. Phase'
  BY DEF Phase
<1>3. StackShape'
  BY DEF StackShape
<1>4. ContextsSaved'
  BY DEF ContextsSaved, Forking
<1>5. ForkLocals'
  BY DEF ForkLocals, Forking
<1>6. Newborns'
  BY DEF Newborns, Newborn, CallPoint
<1>7. WalkLocals'
  BY DEF WalkLocals, CallPoint
<1>8. LinksLeadToYounger'
  BY DEF LinksLeadToYounger
<1>9. Directories'
  BY DEF Directories
<1>10. Chain'
  BY DEF Chain
<1>11. Counts'
  <2>1. queue[c] \in Created /\ size[c] # 0
    BY <1>a, <1>b DEF WalkLocals
  <2>2. exited = {} => queue[c] + 1 \notin Created /\ size[c] = queue[c] /\ count_from[c] <= next_pid - 1
    BY <1>a, <2>1 DEF Chain, Counts
  <2>3. exited = {} => size[c] >= count_from[c]
    <3>1. size[c] \in Nat /\ count_from[c] \in Nat
      BY <1>a DEF TypeOK
    <3>. QED BY <1>n, <2>1, <2>2, <3>1
  <2>. QED BY <1>a, <1>b, <2>1, <2>2, <2>3 DEF Counts
<1>. QED BY <1>1, <1>2, <1>3, <1>4, <1>5, <1>6, <1>7, <1>8, <1>9, <1>10, <1>11

LEMMA CountAstrayStep == ASSUME IInv, CountAstray PROVE IInv'
<1>. USE BoundsAssumption DEF IInv, CountAstray, Pid, Null, Garbage, Created,
     Running, globals, fields, forking, counting
<1>. DEFINE c == current_task
<1>a. /\ c \in Created /\ c \in Pid /\ c # Null /\ Running = c /\ stack[c] = <<>>
      /\ Running' = c /\ current_task' = c
  BY TaskCode
<1>n. /\ next_pid \in Nat /\ next_pid <= MaxPid + 1 /\ MaxPid \in Nat
      /\ ready_queue = 1 /\ 1 \in Created
  BY TaskCode
<1>b. /\ CallPoint(c) = "count" /\ CallPoint(c)' = "user"
      /\ \A t \in Pid \ {c} : CallPoint(t)' = CallPoint(t)
  BY <1>a DEF CallPoint
<1>c. size[c] # 0 /\ queue[c] = Null
  BY <1>a, <1>b DEF WalkLocals
<1>d. \A t \in Pid \ {c} : size'[t] = size[t]
  BY DEF TypeOK
<1>e. exited # {}
  BY <1>a, <1>c DEF Counts
<1>1. TypeOK'
  <2>1. size \in [Pid -> Nat] /\ c \in Pid
    BY <1>a DEF TypeOK
  <2>2. size' = size \/ size' = [size EXCEPT ![c] = size[c] + 1]
    OBVIOUS
  <2>3. size' \in [Pid -> Nat]
    BY ONLY <2>1, <2>2
  <2>. QED BY <2>3 DEF TypeOK, Labels
<1>2. Phase'
  BY DEF Phase
<1>3. StackShape'
  BY DEF StackShape
<1>4. ContextsSaved'
  BY DEF ContextsSaved, Forking
<1>5. ForkLocals'
  BY DEF ForkLocals, Forking
<1>6. Newborns'
  BY DEF Newborns, Newborn, CallPoint
<1>7. WalkLocals'
  BY <1>a, <1>b, <1>d DEF WalkLocals
<1>8. LinksLeadToYounger'
  BY DEF LinksLeadToYounger
<1>9. Directories'
  BY DEF Directories
<1>10. Chain'
  BY DEF Chain
<1>11. Counts'
  BY <1>e DEF Counts
<1>. QED BY <1>1, <1>2, <1>3, <1>4, <1>5, <1>6, <1>7, <1>8, <1>9, <1>10, <1>11

\* The invariant holds at boot: no task exists, and interrupts are on.
LEMMA InitIInv == Init => IInv
<1>. SUFFICES ASSUME Init PROVE IInv
  OBVIOUS
<1>. USE BoundsAssumption DEF Init, Pid, Null, Garbage, Created, Running
<1>1. TypeOK
  <2>1. 1 \in 1..(MaxPid + 1) /\ 0 \in Nat
    OBVIOUS
  <2>2. 1 \in Links /\ Null \in Links /\ Garbage \in Links /\ "boot" \in Labels
    BY DEF Links, Labels
  <2>3. <<>> \in Seq(Labels)
    BY EmptySeq
  <2>. QED BY <2>1, <2>2, <2>3 DEF TypeOK
<1>2. Created = {}
  OBVIOUS
<1>3. Phase
  BY DEF Phase
<1>4. StackShape
  <2>1. Len(<<>>) = 0
    BY EmptySeq
  <2>. QED BY <2>1 DEF StackShape
<1>5. ContextsSaved /\ ForkLocals /\ LinksLeadToYounger /\ Directories /\ Chain /\ Counts
  BY DEF ContextsSaved, ForkLocals, Forking, LinksLeadToYounger, Directories, Chain, Counts
<1>6. \A t \in Pid : CallPoint(t) \in {"boot", "none"}
  BY DEF CallPoint
<1>7. Newborns
  BY <1>6 DEF Newborns, Newborn
<1>8. WalkLocals
  <2>1. \A t \in Pid : CallPoint(t) \notin {"count", "count_next"}
    BY <1>6
  <2>. QED BY <2>1 DEF WalkLocals
<1>. QED BY <1>1, <1>3, <1>4, <1>5, <1>7, <1>8 DEF IInv

LEMMA StutterStep == ASSUME IInv, UNCHANGED vars PROVE IInv'
<1>. USE DEF IInv, vars, globals, fields, forking, counting, Running, Created
<1>1. TypeOK' /\ Phase' /\ StackShape'
  BY DEF TypeOK, Phase, StackShape
<1>2. ContextsSaved' /\ ForkLocals'
  BY DEF ContextsSaved, ForkLocals, Forking
<1>3. Newborns' /\ WalkLocals' /\ Counts'
  BY DEF Newborns, Newborn, WalkLocals, Counts, CallPoint
<1>4. LinksLeadToYounger' /\ Directories' /\ Chain'
  BY DEF LinksLeadToYounger, Directories, Chain
<1>. QED BY <1>1, <1>2, <1>3, <1>4

LEMMA NextStep == IInv /\ [Next]_vars => IInv'
<1>. SUFFICES ASSUME IInv, [Next]_vars PROVE IInv'
  OBVIOUS
<1>1. CASE Interrupt
  BY <1>1, TickBeforeTaskingStep, TickStep DEF Interrupt
<1>2. CASE InitCli \/ InitPublish \/ InitFields \/ IrqReturn
  BY <1>2, InitCliStep, InitPublishStep, InitFieldsStep, IrqReturnStep
<1>3. CASE ForkCli \/ ForkNew \/ ForkWalk \/ ForkLink \/ ForkParent \/ ForkChild
  BY <1>3, ForkCliStep, ForkNewStep, ForkWalkStep, ForkLinkStep,
     ForkParentStep, ForkChildStep
<1>4. CASE ExitCli \/ ExitLoop \/ CountStart \/ CountTest \/ CountStep
              \/ CountReturn \/ CountAstray
  BY <1>4, ExitCliStep, ExitLoopStep, CountStartStep, CountTestStep,
     CountStepStep, CountReturnStep, CountAstrayStep
<1>5. CASE UNCHANGED vars
  BY <1>5, StutterStep
<1>. QED BY <1>1, <1>2, <1>3, <1>4, <1>5 DEF Next, Progress, Call

\* The inductive invariant holds in every state, for any number of tasks and
\* any depth of interrupt nesting, whatever tasks call sys_exit and
\* queue_watcher.
THEOREM Invariance == Spec => []IInv
  BY InitIInv, NextStep, PTL DEF Spec

\* Every variable has its type: the processor is always at a known point of
\* the code or in an interrupt, and no pid above MaxPid is given out.
THEOREM TypeCorrect == Spec => []TypeOK
<1>1. IInv => TypeOK
  BY DEF IInv
<1>. QED BY <1>1, Invariance, PTL

\* A tick at any instant switches to a created task whose task_t holds a
\* context: cli is enough to hide the half-made task of fork from switch_task.
THEOREM TickIsSafe == Spec => []ReadyHasContext
<1>1. IInv => ReadyHasContext
  <2>1. ASSUME IInv, intr, current_task # Null
        PROVE  /\ Successor(current_task) \in Created
               /\ \A t \in Created \ {current_task} : eip[t] # "none"
    <3>1. pc # "init_fields"
      BY <2>1 DEF IInv, Phase
    <3>. QED BY <2>1, <3>1, SuccessorFacts
  <2>. QED BY <2>1 DEF ReadyHasContext
<1>. QED BY <1>1, Invariance, PTL

\* The links of the task list never form a cycle, whatever was forked and
\* exited and wherever the ticks came: every link leads to a younger task, so
\* the walks of fork and queue_count reach an end.
THEOREM ListHasNoCycle == Spec => []LinksLeadToYounger
<1>1. IInv => LinksLeadToYounger
  BY DEF IInv
<1>. QED BY <1>1, Invariance, PTL

\* While no task has exited, every created task is on the list exactly once,
\* in the order fork made them, at every instant another task could look.
THEOREM ListIsCreationOrder == Spec => []QueueIsCreationOrder
<1>1. IInv => QueueIsCreationOrder
  <2>. SUFFICES ASSUME IInv, intr, current_task # Null, exited = {}
                PROVE  /\ ready_queue = 1
                       /\ \A t \in Created : next[t] = IF t + 1 \in Created THEN t + 1 ELSE Null
    BY DEF QueueIsCreationOrder
  <2>1. ready_queue = 1 /\ pc # "fork_walk"
    BY DEF IInv, Phase
  <2>. QED BY <2>1 DEF IInv, Chain
<1>. QED BY <1>1, Invariance, PTL

\* The directory in use is the running task's, and no two tasks share one.
THEOREM DirectoryFollowsTask == Spec => []AddressSpaceFollowsTask
<1>1. IInv => AddressSpaceFollowsTask
  <2>. SUFFICES ASSUME IInv PROVE AddressSpaceFollowsTask
    OBVIOUS
  <2>1. current_task \in Created => current_directory = current_task
    BY DEF IInv, Directories, Running, Created, Pid, Null
  <2>2. \A t \in Created : page_directory[t] = t
    BY DEF IInv, Directories
  <2>. QED BY <2>1, <2>2 DEF AddressSpaceFollowsTask
<1>. QED BY <1>1, Invariance, PTL

\* queue_count, which walks the list with interrupts on, never counts more
\* tasks than exist nor fewer than existed when it began.
THEOREM CountTheorem == Spec => []CountIsSound
<1>1. IInv => CountIsSound
  <2>. SUFFICES ASSUME IInv, exited = {}, NEW t \in Created, size[t] # 0
                PROVE  /\ size[t] <= next_pid - 1
                       /\ (current_task = t /\ pc = "user") => size[t] >= count_from[t]
    BY DEF CountIsSound
  <2>1. t \in Pid /\ next_pid \in Nat
    BY BoundsAssumption DEF IInv, TypeOK, Created, Pid
  <2>2. /\ size[t] = queue[t] /\ queue[t] \in Created
        /\ CallPoint(t) \notin {"count", "count_next"} => size[t] >= count_from[t]
    BY <2>1 DEF IInv, Counts
  <2>3. size[t] <= next_pid - 1
    BY <2>1, <2>2 DEF Created, Pid
  <2>4. ASSUME current_task = t, pc = "user" PROVE CallPoint(t) \notin {"count", "count_next"}
    <3>1. Running = t
      BY <2>1, <2>4 DEF Running, Pid, Null
    <3>2. stack[t] = <<>>
      BY <3>1, <2>4 DEF IInv, StackShape
    <3>. QED BY <3>1, <3>2, <2>4 DEF CallPoint
  <2>. QED BY <2>2, <2>3, <2>4
<1>. QED BY <1>1, Invariance, PTL

\* What fork returns: 0 in the task it made, the first time that task gets
\* out of a fork, and in every other case the pid of the task just created.
THEOREM ForkResult == Spec => ForkReturnsTwice
<1>. DEFINE Returns == \A t \in Pid : rv'[t] # rv[t] =>
                 rv'[t] = IF t # 1 /\ rv[t] = Garbage THEN 0 ELSE next_pid - 1
<1>1. ASSUME IInv, ForkParent \/ ForkChild PROVE Returns
  <2>1. /\ current_task \in Created /\ Running = current_task
        /\ stack[current_task] = <<>> /\ pc = "fork_check"
    BY <1>1 DEF IInv, Phase, StackShape, Running, ForkParent, ForkChild
  <2>2. current_task \in Pid /\ rv \in [Pid -> Links] /\ CallPoint(current_task) = "fork_check"
    BY <1>1, <2>1 DEF Created, IInv, TypeOK, CallPoint
  <2>3. CASE ForkParent
    <3>1. parent_task[current_task] = current_task
      BY <2>3 DEF ForkParent, IsForker
    <3>2. ~Newborn(current_task) /\ CallPoint(current_task) # "none"
      BY <1>1, <2>2, <3>1 DEF IInv, Newborns
    <3>3. current_task = 1 \/ rv[current_task] # Garbage
      BY <1>1, <2>1, <2>2, <3>2 DEF IInv, Newborns
    <3>4. new_task[current_task] = next_pid - 1
      BY <1>1, <2>1, <2>2, <3>2 DEF IInv, ForkLocals, Forking, Newborn
    <3>. QED BY <2>2, <2>3, <3>3, <3>4 DEF ForkParent
  <2>4. CASE ForkChild
    <3>1. intr
      BY <1>1, <2>1, <2>4 DEF ForkChild, IsForker, IInv, ForkLocals, Forking
    <3>2. current_task # 1 /\ rv[current_task] = Garbage
      BY <1>1, <2>1, <2>2, <3>1 DEF IInv, Newborns, Newborn
    <3>. QED BY <2>2, <2>4, <3>2 DEF ForkChild
  <2>. QED BY <1>1, <2>3, <2>4
<1>2. ASSUME Next, ~(ForkParent \/ ForkChild) PROVE rv' = rv
  BY <1>2 DEF Next, Interrupt, Progress, Call, forking, TickBeforeTasking, Tick,
     InitCli, InitPublish, InitFields, IrqReturn, ForkCli, ForkNew, ForkWalk,
     ForkLink, ExitCli, ExitLoop, CountStart, CountTest, CountStep,
       CountReturn, CountAstray
<1>3. IInv /\ [Next]_vars => [Returns]_vars
  BY <1>1, <1>2
<1>. QED BY <1>3, Invariance, PTL DEF Spec, ForkReturnsTwice

-----------------------------------------------------------------------------
(* The list as fork and sys_exit change it *)

LEMMA LeastElement ==
  ASSUME NEW S \in SUBSET Nat, S # {}
  PROVE  \E x \in S : \A y \in S : x <= y
<1>1. PICK x \in S : \A y \in S : ~ (<<y, x>> \in OpToRel(<, Nat))
  BY NatLessThanWellFounded, WFMin
<1>2. ASSUME NEW y \in S PROVE x <= y
  <2>1. ~(y < x)
    BY <1>1 DEF OpToRel
  <2>. QED BY <2>1
<1>. QED BY <1>2

\* The list is there: tasking is on and the first task_t is written.
Started == current_task # Null /\ pc # "init_fields"

QueueInv ==
  /\ exited \subseteq Created
  /\ \A t \in Pid \ Created : next[t] = Garbage
  /\ Started =>
       /\ Queued \cap exited \subseteq {1}
       /\ \/ current_task \in Queued
          \/ current_task \in exited /\ next[current_task] \in Queued \cup {Null}
       /\ pc = "exit_loop" => current_task \notin exited
       /\ IF pc = "fork_walk"
          THEN tmp_task[current_task] \in Queued /\ next_pid - 1 \notin exited
          ELSE next_pid - 1 \in Queued \cup exited

LEMMA StartedFacts ==
  ASSUME IInv, Started
  PROVE  /\ current_task \in Created /\ ready_queue = 1 /\ 1 \in Created
         /\ Created \subseteq Pid /\ MaxPid \in Nat /\ next_pid \in Nat
         /\ Pid \subseteq Nat /\ Null = 0 /\ Null \notin Pid
         /\ \A t \in Created : next[t] = Null \/ (next[t] \in Created /\ next[t] > t)
         /\ next_pid - 1 \in Created /\ \A t \in Created : t <= next_pid - 1
<1>1. current_task \in Created /\ ready_queue = 1
  BY DEF IInv, Phase, Started
<1>2. /\ MaxPid \in Nat /\ next_pid \in 1..(MaxPid + 1)
  BY BoundsAssumption DEF IInv, TypeOK
<1>3. /\ 1 \in Created /\ next_pid - 1 \in Created
      /\ \A t \in Created : t <= next_pid - 1
  BY <1>1, <1>2, BoundsAssumption DEF Created, Pid
<1>4. \A t \in Created : next[t] = Null \/ (next[t] \in Created /\ next[t] > t)
  BY DEF IInv, LinksLeadToYounger
<1>. QED BY <1>1, <1>2, <1>3, <1>4 DEF Created, Pid, Null

\* The queue is itself closed, and the least set that is.
LEMMA QueuedFacts ==
  ASSUME IInv, Started
  PROVE  /\ 1 \in Queued /\ Queued \subseteq Created
         /\ \A t \in Queued : next[t] # Null => next[t] \in Queued /\ next[t] > t
         /\ \A S \in SUBSET Pid : Walked(S) => Queued \subseteq S
<1>. USE StartedFacts
<1>1. \A S \in SUBSET Pid : Walked(S) => Queued \subseteq S
  BY DEF Queued
<1>2. Walked(Created)
  BY DEF Walked
<1>3. Queued \subseteq Created
  BY <1>1, <1>2
<1>4. 1 \in Queued
  BY DEF Queued, Walked
<1>5. ASSUME NEW t \in Queued, next[t] # Null
      PROVE  next[t] \in Queued /\ next[t] > t
  <2>1. next[t] \in Created /\ next[t] > t
    BY <1>3, <1>5
  <2>2. ASSUME NEW S \in SUBSET Pid, Walked(S) PROVE next[t] \in S
    <3>1. t \in S
      BY <1>1, <2>2
    <3>. QED BY <2>1, <2>2, <3>1 DEF Walked
  <2>. QED BY <2>1, <2>2 DEF Queued
<1>. QED BY <1>1, <1>3, <1>4, <1>5

\* The links of the queue pass over no task of the queue.
LEMMA NoneSkipped ==
  ASSUME IInv, Started
  PROVE  \A t, u \in Queued : t < u => next[t] # Null /\ next[t] <= u
<1>. DEFINE Skips(t) == \E u \in Queued : t < u /\ (next[t] = Null \/ next[t] > u)
            Bad == {t \in Queued : Skips(t)}
<1>. USE StartedFacts, QueuedFacts
<1>1. Queued \subseteq Nat
  OBVIOUS
<1>2. ASSUME Bad # {} PROVE FALSE
  <2>1. PICK t \in Bad : \A v \in Bad : t <= v
    BY <1>1, <1>2, LeastElement
  <2>2. PICK u \in Queued : t < u /\ (next[t] = Null \/ next[t] > u)
    BY <2>1
  <2>3. \A v \in Queued : v < t => next[v] # Null /\ next[v] <= t
    <3>1. ASSUME NEW v \in Queued, v < t PROVE ~Skips(v)
      BY <1>1, <2>1, <3>1
    <3>2. ASSUME NEW v \in Queued, v < t, next[v] # Null PROVE next[v] \in Nat
      BY <1>1, <3>2
    <3>. QED BY <1>1, <2>1, <3>1, <3>2
  <2>. DEFINE S == {v \in Queued : v <= t \/ v > u}
  <2>4. S \in SUBSET Pid /\ u \notin S
    <3>1. t \in Nat /\ u \in Nat /\ t < u
      BY <1>1, <2>1, <2>2
    <3>2. u \notin S
      BY <3>1
    <3>. QED BY <3>2
  <2>5. 1 \in S
    BY <1>1, <2>1
  <2>6. ASSUME NEW v \in S, next[v] \in Pid PROVE next[v] \in S
    <3>1. next[v] \in Queued /\ next[v] > v
      BY <2>6
    <3>2. CASE v < t
      BY <1>1, <2>3, <3>1, <3>2
    <3>3. CASE v = t
      BY <2>2, <3>1, <3>3
    <3>4. CASE v > u
      BY <1>1, <3>1, <3>4
    <3>. QED BY <1>1, <2>1, <3>2, <3>3, <3>4
  <2>7. Walked(S)
    BY <2>4, <2>5, <2>6 DEF Walked
  <2>. QED BY <2>2, <2>4, <2>7
<1>3. ASSUME NEW t \in Queued, NEW u \in Queued, t < u, next[t] # Null PROVE next[t] \in Nat
  BY <1>1, <1>3
<1>. QED BY <1>1, <1>2, <1>3

\* The queue depends on the links of created tasks only.
LEMMA SameQueue ==
  ASSUME IInv, Started, ready_queue' = ready_queue,
         \A t \in Created : next'[t] = next[t]
  PROVE  Queued' = Queued
<1>. USE StartedFacts
<1>1. ASSUME NEW S \in SUBSET Pid, Walked(S)' PROVE Walked(S \cap Created)
  BY <1>1 DEF Walked
<1>2. ASSUME NEW S \in SUBSET Pid, Walked(S), NEW T, T = S \cap Created
      PROVE  Walked(T)'
  <2>1. ready_queue' \in T
    BY <1>2 DEF Walked
  <2>2. ASSUME NEW t \in T, next'[t] \in Pid PROVE next'[t] \in T
    <3>1. next'[t] = next[t] /\ next[t] \in Created
      BY <1>2, <2>2
    <3>. QED BY <1>2, <2>2, <3>1 DEF Walked
  <2>. QED BY <2>1, <2>2 DEF Walked
<1>3. Queued \subseteq Queued'
  BY <1>1 DEF Queued
<1>4. Queued' \subseteq Queued
  <2>1. ASSUME NEW t \in Queued', NEW S \in SUBSET Pid, Walked(S) PROVE t \in S
    <3>1. PICK T : T = S \cap Created
      OBVIOUS
    <3>2. Walked(T)' /\ T \in SUBSET Pid
      BY <1>2, <2>1, <3>1
    <3>. QED BY <2>1, <3>1, <3>2 DEF Queued
  <2>. QED BY <2>1 DEF Queued
<1>. QED BY <1>3, <1>4

\* fork links its task behind the last one of the queue.
LEMMA LinkQueue ==
  ASSUME IInv, Started, ready_queue' = ready_queue,
         NEW last \in Queued, next[last] = Null,
         NEW new \in Created, next[new] = Null, new \notin {last},
         next' = [next EXCEPT ![last] = new]
  PROVE  Queued' = Queued \cup {new}
<1>. USE StartedFacts, QueuedFacts
<1>1. next \in [Pid -> Links] /\ last \in Pid /\ new \in Pid
  BY DEF IInv, TypeOK
<1>2. \A t \in Pid : next'[t] = IF t = last THEN new ELSE next[t]
  BY <1>1
<1>3. ASSUME NEW S, S = Queued \cup {new} PROVE S \in SUBSET Pid /\ Walked(S)'
  <2>1. ASSUME NEW t \in S, next'[t] \in Pid PROVE next'[t] \in S
    BY <1>1, <1>2, <1>3, <2>1
  <2>2. ready_queue' \in S
    BY <1>3
  <2>. QED BY <1>1, <1>3, <2>1, <2>2 DEF Walked
<1>4. Queued' \subseteq Queued \cup {new}
  <2>1. PICK S : S = Queued \cup {new}
    OBVIOUS
  <2>. QED BY <1>3, <2>1 DEF Queued
<1>5. ASSUME NEW S \in SUBSET Pid, Walked(S)' PROVE Queued \cup {new} \subseteq S
  <2>1. \A t \in S : next[t] \in Pid => next[t] \in S
    BY <1>2, <1>5 DEF Walked
  <2>2. ready_queue \in S
    BY <1>5 DEF Walked
  <2>3. Walked(S)
    BY <2>1, <2>2 DEF Walked
  <2>4. last \in S
    BY <2>3
  <2>5. new \in S
    BY <1>1, <1>2, <1>5, <2>4 DEF Walked
  <2>. QED BY <2>3, <2>5
<1>6. Queued \cup {new} \subseteq Queued'
  BY <1>1, <1>5 DEF Queued
<1>. QED BY <1>4, <1>6

\* sys_exit leaves of the queue its head and what follows the exiting task.
LEMMA ExitQueue ==
  ASSUME IInv, Started, ready_queue' = ready_queue,
         NEW t \in Queued, t = 1 => next[t] = Null,
         next' = [next EXCEPT ![1] = next[t]]
  PROVE  Queued' = {1} \cup {u \in Queued : u > t}
<1>. USE StartedFacts, QueuedFacts
<1>. DEFINE After == {u \in Queued : u > t}
<1>1. next \in [Pid -> Links] /\ 1 \in Pid /\ t \in Nat /\ Queued \subseteq Nat /\ t >= 1
  <2>1. next \in [Pid -> Links]
    BY DEF IInv, TypeOK
  <2>2. Queued \subseteq Pid /\ t \in Pid
    OBVIOUS
  <2>3. t \in Nat /\ t >= 1
    BY <2>2 DEF Pid
  <2>. QED BY <2>1, <2>2, <2>3
<1>2. \A u \in Pid : next'[u] = IF u = 1 THEN next[t] ELSE next[u]
  BY <1>1
<1>3. ASSUME NEW S, S = {1} \cup After PROVE S \in SUBSET Pid /\ Walked(S)'
  <2>1. ASSUME NEW u \in S, next'[u] \in Pid PROVE next'[u] \in S
    <3>1. CASE u = 1
      <4>1. next'[u] = next[t] /\ next[t] # Null
        BY <1>1, <1>2, <2>1, <3>1
      <4>2. next[t] \in Queued /\ next[t] > t
        BY <4>1
      <4>. QED BY <1>3, <4>1, <4>2
    <3>2. CASE u # 1
      <4>1. u \in Queued /\ u > t /\ next'[u] = next[u] /\ next[u] # Null
        BY <1>2, <1>3, <2>1, <3>2
      <4>2. next[u] \in Queued /\ next[u] > u
        BY <4>1
      <4>3. next[u] > t
        BY <1>1, <4>1, <4>2
      <4>. QED BY <1>3, <4>1, <4>2, <4>3
    <3>. QED BY <3>1, <3>2
  <2>2. S \in SUBSET Pid /\ ready_queue' \in S
    BY <1>1, <1>3
  <2>. QED BY <2>1, <2>2 DEF Walked
<1>4. Queued' \subseteq {1} \cup After
  <2>1. PICK S : S = {1} \cup After
    OBVIOUS
  <2>. HIDE DEF After
  <2>. QED BY <1>3, <2>1 DEF Queued
<1>5. ASSUME NEW S \in SUBSET Pid, Walked(S)' PROVE After \subseteq S /\ 1 \in S
  <2>. DEFINE R == S \cup {u \in Queued : u <= t}
  <2>1. 1 \in S /\ \A u \in S : next'[u] \in Pid => next'[u] \in S
    BY <1>5 DEF Walked
  <2>2. ASSUME NEW u \in R, next[u] \in Pid PROVE next[u] \in R
    <3>1. CASE u \in Queued /\ u < t
      <4>1. next[u] \in Queued /\ next[u] <= t
        BY <2>2, <3>1, NoneSkipped
      <4>. QED BY <4>1
    <3>2. CASE u = t
      <4>1. next'[1] = next[t]
        BY <1>1, <1>2
      <4>. QED BY <2>1, <2>2, <3>2, <4>1
    <3>3. CASE u \in S /\ u # 1
      BY <1>2, <2>1, <2>2, <3>3
    <3>4. CASE u = 1
      BY <1>1, <3>1, <3>2, <3>4
    <3>5. u \in Queued /\ u <= t => u < t \/ u = t
      BY <1>1
    <3>. QED BY <3>1, <3>2, <3>3, <3>4, <3>5
  <2>3. R \in SUBSET Pid /\ 1 \in R
    BY <2>1
  <2>4. Walked(R)
    BY <2>2, <2>3 DEF Walked
  <2>5. Queued \subseteq R
    BY <2>3, <2>4
  <2>6. ASSUME NEW u \in After PROVE u \in S
    <3>1. u \in R /\ ~(u <= t)
      BY <1>1, <2>5, <2>6
    <3>. QED BY <3>1
  <2>. QED BY <2>1, <2>6
<1>6. {1} \cup After \subseteq Queued'
  <2>. HIDE DEF After
  <2>1. 1 \in Pid /\ After \subseteq Pid
    BY DEF After
  <2>. QED BY <1>5, <2>1 DEF Queued
<1>. QED BY <1>4, <1>6

\* What a step that leaves the links alone has to show.
LEMMA LinksStay ==
  ASSUME IInv, IInv', QueueInv, Started, Started', next' = next,
         UNCHANGED <<ready_queue, next_pid, exited>>,
         current_task' = current_task \/ current_task' \in Queued,
         pc' = "exit_loop" => current_task' \notin exited,
         (pc' = "fork_walk") <=> (pc = "fork_walk"),
         pc' = "fork_walk" => tmp_task'[current_task'] \in Queued
  PROVE  QueueInv'
<1>1. Queued' = Queued
  BY SameQueue
<1>2. Created' = Created
  BY DEF Created
<1>. QED BY <1>1, <1>2 DEF QueueInv

\* The queue before and while initialise_tasking makes the first task.
LEMMA InitQueue ==
  ASSUME IInv, QueueInv, ~Started
  PROVE  exited = {} /\ next_pid = 1
<1>1. next_pid = 1
  BY DEF IInv, Phase, Started
<1>. QED BY <1>1 DEF QueueInv, Created, Pid

LEMMA InitFieldsQueue ==
  ASSUME IInv, IInv', QueueInv, InitFields
  PROVE  QueueInv'
<1>1. /\ pc = "init_fields" /\ next_pid' = next_pid + 1 /\ pc' = "user"
      /\ next' = [next EXCEPT ![1] = Null]
      /\ UNCHANGED <<current_task, ready_queue, exited>>
  BY DEF InitFields
<1>2. current_task = 1 /\ ready_queue = 1 /\ next_pid = 1 /\ 1 \in Pid
  BY <1>1, BoundsAssumption DEF IInv, Phase, Pid, Null
<1>3. Started' /\ ~Started
  BY <1>1, <1>2 DEF Started, Null
<1>4. exited' = {}
  BY <1>1, <1>3, InitQueue
<1>5. Created' = {1}
  BY <1>1, <1>2 DEF Created, Pid
<1>6. \A t \in Pid \ Created' : next'[t] = Garbage
  <2>1. \A t \in Pid : next[t] = Garbage
    BY <1>2 DEF QueueInv, Created, Pid
  <2>2. next \in [Pid -> Links]
    BY DEF IInv, TypeOK
  <2>. QED BY <1>1, <1>5, <2>1, <2>2
<1>7. 1 \in Queued'
  BY <1>1, <1>2 DEF Queued, Walked
<1>. QED BY <1>1, <1>2, <1>4, <1>5, <1>6, <1>7 DEF QueueInv

\* Ticks switch to tasks of the queue.
LEMMA SuccessorQueued ==
  ASSUME IInv, QueueInv, Started
  PROVE  Successor(current_task) \in Queued
<1>1. next[current_task] # Null => next[current_task] \in Queued
  BY QueuedFacts DEF QueueInv
<1>. QED BY <1>1, StartedFacts, QueuedFacts DEF Successor

LEMMA TickQueue ==
  ASSUME IInv, IInv', QueueInv, Tick
  PROVE  QueueInv' /\ Started /\ current_task' \in Queued
<1>1. /\ pc \in {"user", "count", "count_next", "irq", "fork_check"} /\ current_task' \in Created
      /\ pc' \in {"irq", "fork_check"} /\ current_task \in Created
  BY TickFacts
<1>2. /\ UNCHANGED <<ready_queue, next_pid, next, exited>>
      /\ current_task # Null
      /\ Successor(current_task) \in Pid => current_task' = Successor(current_task)
  BY DEF Tick
<1>3. Started /\ Started'
  BY <1>1, <1>2 DEF Started, Created, Pid, Null
<1>4. current_task' \in Queued
  BY <1>2, <1>3, SuccessorQueued, QueuedFacts, StartedFacts
<1>. QED BY <1>1, <1>2, <1>3, <1>4, LinksStay

LEMMA ForkNewQueue ==
  ASSUME IInv, IInv', QueueInv, ForkNew
  PROVE  QueueInv'
<1>1. /\ pc = "fork_new" /\ pc' = "fork_walk" /\ next_pid' = next_pid + 1
      /\ next' = [next EXCEPT ![next_pid] = Null]
      /\ tmp_task' = [tmp_task EXCEPT ![current_task] = ready_queue]
      /\ UNCHANGED <<current_task, ready_queue, exited>>
  BY DEF ForkNew, WalkFrom
<1>2. current_task \in Created /\ current_task # Null /\ next_pid <= MaxPid
  BY <1>1, TaskCode DEF IInv, ForkLocals
<1>3. Started /\ Started'
  BY <1>1, <1>2 DEF Started
<1>. USE <1>3, StartedFacts
<1>4. next_pid \notin Created /\ Created' = Created \cup {next_pid} /\ next_pid \in Pid
  <2>1. next_pid \in 1..(MaxPid + 1)
    BY DEF IInv, TypeOK
  <2>. QED BY <1>1, <1>2, <2>1 DEF Created, Pid
<1>5. next \in [Pid -> Links] /\ tmp_task \in [Pid -> Links]
  BY DEF IInv, TypeOK
<1>6. \A t \in Created : next'[t] = next[t]
  BY <1>1, <1>4, <1>5
<1>7. Queued' = Queued
  BY <1>1, <1>6, SameQueue
<1>8. \A t \in Pid \ Created' : next'[t] = Garbage
  BY <1>1, <1>4, <1>5 DEF QueueInv
<1>9. tmp_task'[current_task] \in Queued
  BY <1>1, <1>2, <1>5, QueuedFacts
<1>10. next_pid' - 1 \notin exited
  BY <1>1, <1>4 DEF QueueInv
<1>11. next'[current_task] = next[current_task]
  BY <1>2, <1>6
<1>. QED BY <1>1, <1>4, <1>7, <1>8, <1>9, <1>10, <1>11 DEF QueueInv

LEMMA ForkWalkQueue ==
  ASSUME IInv, IInv', QueueInv, ForkWalk
  PROVE  QueueInv'
<1>1. /\ pc = "fork_walk" /\ next[tmp_task[current_task]] # Null
      /\ tmp_task' = [tmp_task EXCEPT ![current_task] = next[tmp_task[current_task]]]
      /\ UNCHANGED <<current_task, ready_queue, next_pid, next, pc, exited>>
  BY DEF ForkWalk, globals, fields
<1>2. current_task \in Created /\ current_task # Null
  BY <1>1, TaskCode
<1>3. Started /\ Started'
  BY <1>1, <1>2 DEF Started
<1>4. tmp_task[current_task] \in Queued
  BY <1>1, <1>3 DEF QueueInv
<1>5. next[tmp_task[current_task]] \in Queued
  BY <1>1, <1>3, <1>4, QueuedFacts
<1>6. tmp_task'[current_task] \in Queued
  BY <1>1, <1>2, <1>5 DEF IInv, TypeOK, Created
<1>. QED BY <1>1, <1>3, <1>6, LinksStay

LEMMA ForkLinkQueue ==
  ASSUME IInv, IInv', QueueInv, ForkLink
  PROVE  QueueInv'
<1>. DEFINE last == tmp_task[current_task]
            new == new_task[current_task]
<1>1. /\ pc = "fork_walk" /\ pc' = "fork_check" /\ next[last] = Null
      /\ next' = [next EXCEPT ![last] = new]
      /\ UNCHANGED <<current_task, ready_queue, next_pid, exited>>
  BY DEF ForkLink, globals
<1>2. current_task \in Created /\ current_task # Null
  BY <1>1, TaskCode
<1>3. Started /\ Started'
  BY <1>1, <1>2 DEF Started
<1>4. last \in Queued /\ new = next_pid - 1 /\ last < next_pid - 1 /\ next_pid - 1 \notin exited
  BY <1>1, <1>3 DEF QueueInv, IInv, ForkLocals, Forking, Phase
<1>. HIDE DEF last, new
<1>5. new \in Created /\ next[new] = Null
  BY <1>3, <1>4, StartedFacts
<1>6. Queued' = Queued \cup {new}
  <2>1. new # last
    BY <1>3, <1>4, StartedFacts, QueuedFacts
  <2>. QED BY <1>1, <1>3, <1>4, <1>5, <2>1, LinkQueue
<1>7. Created' = Created /\ next \in [Pid -> Links] /\ Created \subseteq Pid
  BY <1>1 DEF Created, IInv, TypeOK
<1>8. last \in Created
  BY <1>3, <1>4, QueuedFacts
<1>9. \A t \in Pid : next'[t] = IF t = last THEN new ELSE next[t]
  BY <1>1, <1>7
<1>. QED BY <1>1, <1>2, <1>3, <1>4, <1>5, <1>6, <1>7, <1>8, <1>9 DEF QueueInv

LEMMA ExitLoopQueue ==
  ASSUME IInv, IInv', QueueInv, ExitLoop
  PROVE  /\ QueueInv' /\ Started /\ current_task \in Queued
         /\ pc' # "exit_loop" => Queued' = {1} \cup {u \in Queued : u > current_task}
<1>1. current_task \in Created /\ current_task # Null /\ pc = "exit_loop"
  BY TaskCode DEF ExitLoop
<1>2. Started /\ tmp_task[current_task] = 1 /\ current_task \notin exited
  BY <1>1 DEF Started, IInv, WalkLocals, QueueInv
<1>3. /\ next' = [next EXCEPT ![1] = next[current_task]]
      /\ \/ next'[1] # Null /\ 1 = current_task /\ UNCHANGED <<pc, exited>>
         \/ /\ next'[1] = Null \/ 1 # current_task
            /\ pc' = "user" /\ exited' = exited \cup {current_task}
      /\ UNCHANGED <<current_task, ready_queue, next_pid>>
  BY <1>2 DEF ExitLoop, LinkPastExiting, globals
<1>4. current_task \in Queued
  BY <1>2 DEF QueueInv
<1>5. Started' /\ Created' = Created
  BY <1>1, <1>3 DEF Started, Created
<1>. USE <1>2, StartedFacts
<1>6. next \in [Pid -> Links] /\ 1 \in Pid
  BY DEF IInv, TypeOK
<1>7. \A t \in Pid : next'[t] = IF t = 1 THEN next[current_task] ELSE next[t]
  BY <1>3, <1>6
<1>8. CASE pc' = "exit_loop"
  <2>1. current_task = 1 /\ UNCHANGED <<pc, exited>>
    BY <1>3, <1>8
  <2>2. next' = next
    BY <1>3, <1>6, <2>1
  <2>3. QueueInv'
    BY <1>1, <1>2, <1>3, <1>5, <2>1, <2>2, LinksStay
  <2>. QED BY <1>4, <1>8, <2>3
<1>9. CASE pc' # "exit_loop"
  <2>1. /\ pc' = "user" /\ exited' = exited \cup {current_task}
        /\ current_task = 1 => next[current_task] = Null
    BY <1>1, <1>3, <1>6, <1>7, <1>9
  <2>2. Queued' = {1} \cup {u \in Queued : u > current_task}
    BY <1>3, <1>4, <2>1, ExitQueue
  <2>3. current_task \in Nat /\ Queued \subseteq Created /\ 1 \in Queued
    BY <1>1, QueuedFacts
  <2>4. \A t \in Pid \ Created : next'[t] = Garbage /\ exited' \subseteq Created
    BY <1>1, <1>7, <2>1 DEF QueueInv
  <2>5. Queued' \cap exited' \subseteq {1}
    BY <2>1, <2>2, <2>3 DEF QueueInv
  <2>6. current_task \in exited' /\ next'[current_task] \in Queued' \cup {Null}
    <3>1. next'[current_task] = next[current_task]
      BY <1>1, <1>7
    <3>2. next[current_task] # Null => next[current_task] \in Queued /\ next[current_task] > current_task
      BY <1>4, QueuedFacts
    <3>. QED BY <2>1, <2>2, <3>1, <3>2
  <2>7. next_pid - 1 \in Queued' \cup exited'
    <3>1. next_pid - 1 \in Queued \cup exited /\ next_pid - 1 >= current_task
      BY <1>1 DEF QueueInv
    <3>. QED BY <1>1, <2>1, <2>2, <2>3, <3>1
  <2>8. QueueInv'
    BY <1>1, <1>3, <1>5, <2>1, <2>4, <2>5, <2>6, <2>7 DEF QueueInv
  <2>. QED BY <1>4, <2>2, <2>8
<1>. QED BY <1>8, <1>9

LEMMA QueueInvariance == Spec => []QueueInv
<1>1. Init => QueueInv
  BY DEF Init, QueueInv, Started, Created, Pid, Null
<1>2. IInv /\ IInv' /\ QueueInv /\ [Next]_vars => QueueInv'
  <2>. SUFFICES ASSUME IInv, IInv', QueueInv, [Next]_vars PROVE QueueInv'
    OBVIOUS
  <2>1. CASE InitCli \/ InitPublish \/ TickBeforeTasking
    <3>1. /\ ~Started /\ ~Started' /\ UNCHANGED <<next, next_pid, exited>>
      BY <2>1 DEF InitCli, InitPublish, TickBeforeTasking, Started, IInv, Phase,
         globals, fields, CanInterrupt
    <3>. QED BY <3>1 DEF QueueInv, Created
  <2>2. CASE InitFields
    BY <2>2, InitFieldsQueue
  <2>3. CASE Tick
    BY <2>3, TickQueue
  <2>4. CASE IrqReturn
    <3>1. /\ pc = "irq" /\ UNCHANGED <<globals, next, exited>>
          /\ pc' = stack[Running][Len(stack[Running])]
      BY <2>4 DEF IrqReturn, fields
    <3>2. pc' \notin {"fork_walk", "exit_loop"} /\ (Started <=> Started')
      <4>1. stack[Running] # <<>> /\ Running \in Pid
        BY <3>1, BoundsAssumption DEF IInv, StackShape, Running, TypeOK, Phase, Pid, Null
      <4>2. Len(stack[Running]) \in Nat \ {0}
        BY <4>1, FrontFacts DEF IInv, TypeOK
      <4>3. pc' \in {"irq", "boot", "user", "fork_check", "count", "count_next"}
        BY <3>1, <4>1, <4>2 DEF IInv, StackShape
      <4>. QED BY <3>1, <4>3 DEF Started, globals
    <3>3. CASE Started
      BY <3>1, <3>2, <3>3, LinksStay DEF globals
    <3>4. CASE ~Started
      BY <3>1, <3>2, <3>4 DEF QueueInv, Created, globals
    <3>. QED BY <3>3, <3>4
  <2>5. CASE ForkNew
    BY <2>5, ForkNewQueue
  <2>6. CASE ForkWalk
    BY <2>6, ForkWalkQueue
  <2>7. CASE ForkLink
    BY <2>7, ForkLinkQueue
  <2>8. CASE ExitLoop
    BY <2>8, ExitLoopQueue
  <2>9. CASE ForkCli \/ ForkParent \/ ForkChild \/ ExitCli \/ CountStart
               \/ CountTest \/ CountStep \/ CountReturn \/ CountAstray
    <3>1. /\ UNCHANGED <<globals, next, exited>>
          /\ pc' \notin {"fork_walk", "init_fields"}
          /\ pc' = "exit_loop" => current_task \notin exited
          /\ pc \in {"user", "fork_check", "count", "count_next"}
      BY <2>9 DEF ForkCli, ForkParent, ForkChild, ExitCli, CountStart, CountTest,
         CountStep, CountReturn, CountAstray, fields
    <3>2. Started /\ Started'
      BY <3>1, TaskCode DEF Started, globals
    <3>. QED BY <3>1, <3>2, LinksStay DEF globals
  <2>10. CASE UNCHANGED vars
    <3>1. UNCHANGED <<globals, next, exited, pc, tmp_task>>
      BY <2>10 DEF vars, fields
    <3>2. CASE Started
      <4>1. Started'
        BY <3>1, <3>2 DEF Started, globals
      <4>. QED BY <3>1, <3>2, <4>1, SameQueue DEF QueueInv, Created, globals
    <3>3. CASE ~Started
      BY <3>1, <3>3 DEF QueueInv, Created, globals, Started
    <3>. QED BY <3>2, <3>3
  <2>. QED BY <2>1, <2>2, <2>3, <2>4, <2>5, <2>6, <2>7, <2>8, <2>9, <2>10
           DEF Next, Interrupt, Progress, Call
<1>. QED BY <1>1, <1>2, Invariance, PTL DEF Spec

\* Whatever exits have cut out of the list, fork finds its end: the youngest
\* task is on it, at every instant another task could look, until it exits.
THEOREM YoungestTheorem == Spec => []YoungestIsQueued
<1>1. IInv /\ QueueInv => YoungestIsQueued
  <2>. SUFFICES ASSUME IInv, QueueInv, intr, current_task # Null,
                       next_pid - 1 \notin exited
                PROVE  next_pid - 1 \in Queued
    BY DEF YoungestIsQueued
  <2>1. Started /\ pc # "fork_walk"
    BY DEF Started, IInv, Phase
  <2>. QED BY <2>1 DEF QueueInv
<1>. QED BY <1>1, Invariance, QueueInvariance, PTL

\* A task that has exited and been switched away from never runs again, unless
\* it is the head of the list: no link of the list leads to it any more.
THEOREM ExitTheorem == Spec => ExitedStaysAway
<1>. DEFINE Away == \A t \in exited :
                      t # ready_queue /\ current_task # t => current_task' # t
<1>1. ASSUME IInv, IInv', QueueInv, Next PROVE Away
  <2>1. CASE Tick
    <3>1. Started /\ current_task' \in Queued /\ ready_queue = 1
      BY <1>1, <2>1, TickQueue, StartedFacts
    <3>2. Queued \cap exited \subseteq {1}
      BY <1>1, <3>1 DEF QueueInv
    <3>. QED BY <3>1, <3>2
  <2>2. CASE InitPublish
    <3>1. ~Started
      BY <1>1, <2>2 DEF InitPublish, Started, IInv, Phase
    <3>. QED BY <1>1, <3>1, InitQueue
  <2>3. CASE current_task' = current_task
    BY <2>3
  <2>4. Tick \/ InitPublish \/ current_task' = current_task
    BY <1>1 DEF Next, Interrupt, Progress, Call, globals, TickBeforeTasking,
       InitCli, InitFields, IrqReturn, ForkCli, ForkNew, ForkWalk, ForkLink,
       ForkParent, ForkChild, ExitCli, ExitLoop, CountStart, CountTest, CountStep,
       CountReturn, CountAstray
  <2>. QED BY <2>1, <2>2, <2>3, <2>4
<1>2. IInv /\ IInv' /\ QueueInv /\ [Next]_vars => [Away]_vars
  BY <1>1
<1>. QED BY <1>2, Invariance, QueueInvariance, PTL DEF Spec, ExitedStaysAway

\* sys_exit cuts nothing out of the list but what lies between its head and the
\* task that exits, that task included.
THEOREM SparesTheorem == Spec => ExitSparesYounger
<1>. DEFINE Spares == pc = "exit_loop" /\ pc' # "exit_loop" =>
       \A t \in Queued : t = ready_queue \/ t > current_task => t \in Queued'
<1>1. ASSUME IInv, IInv', QueueInv, Next, pc = "exit_loop", pc' # "exit_loop",
             NEW t \in Queued, t = ready_queue \/ t > current_task
      PROVE  t \in Queued'
  <2>1. ~intr
    BY <1>1 DEF IInv, Phase
  <2>2. ExitLoop
    BY <1>1, <2>1 DEF Next, Interrupt, Progress, Call, TickBeforeTasking, Tick,
       CanInterrupt, InitCli, InitPublish, InitFields, IrqReturn, ForkCli, ForkNew,
       ForkWalk, ForkLink, ForkParent, ForkChild, ExitCli, CountStart, CountTest,
       CountStep, CountReturn, CountAstray
  <2>3. Started /\ Queued' = {1} \cup {u \in Queued : u > current_task}
    BY <1>1, <2>2, ExitLoopQueue
  <2>. QED BY <1>1, <2>3, StartedFacts
<1>2. IInv /\ IInv' /\ QueueInv /\ [Next]_vars => [Spares]_vars
  BY <1>1
<1>. QED BY <1>2, Invariance, QueueInvariance, PTL DEF Spec, ExitSparesYounger

-----------------------------------------------------------------------------
(* Round robin, while no task exits *)

\* No task has exited or is in sys_exit.
NoExit == exited = {} /\ pc # "exit_loop"

\* While no task exits, the tasks on the list are the created ones but for a
\* task that is being forked.
LEMMA ListedTasks ==
  ASSUME IInv, QueueInv, exited = {}
  PROVE  /\ current_task = Null => Listed = {}
         /\ pc = "init_fields" => Listed = {1} /\ current_task = 1
         /\ Started /\ pc # "fork_walk" => Listed = Created
         /\ Started /\ pc = "fork_walk" => Listed = Created \ {next_pid - 1}
<1>. USE DEF Null
<1>1. /\ next_pid \in 1..(MaxPid + 1) /\ MaxPid \in Nat \ {0}
      /\ \A t \in Pid : t \notin Created => next[t] = Garbage
      /\ Garbage \notin Pid /\ Pid \subseteq Nat
  BY BoundsAssumption DEF IInv, TypeOK, QueueInv, Garbage, Pid
<1>2. ASSUME current_task = Null PROVE Listed = {}
  <2>1. ready_queue = Null /\ Created = {}
    BY <1>1, <1>2 DEF IInv, Phase, Created, Pid
  <2>. QED BY <1>1, <2>1 DEF Listed, Pid
<1>3. ASSUME pc = "init_fields" PROVE Listed = {1} /\ current_task = 1
  <2>1. ready_queue = 1 /\ Created = {} /\ 1 \in Pid /\ current_task = 1
    BY <1>1, <1>3 DEF IInv, Phase, Created, Pid
  <2>. QED BY <1>1, <2>1 DEF Listed
<1>4. ASSUME Started, NEW new, new = next_pid - 1, NEW t \in Pid
      PROVE  t \in Listed <=> t \in Created /\ ~(pc = "fork_walk" /\ t = new)
  <2>1. ready_queue = 1 /\ 1 \in Created /\ next_pid \in Nat
    BY <1>4, StartedFacts
  <2>2. \A u \in Created : next[u] = IF u + 1 \in Created /\ ~(pc = "fork_walk" /\ u + 1 = new)
                                     THEN u + 1 ELSE Null
    BY <1>4 DEF IInv, Chain
  <2>3. \A u \in Pid : u \in Created <=> u < next_pid
    BY DEF Created
  <2>4. pc = "fork_walk" => new # 1
    <3>1. pc = "fork_walk" => \E u \in Created : u < new
      BY <1>4 DEF IInv, ForkLocals
    <3>2. \A u \in Created : u >= 1 /\ u \in Nat
      BY DEF Created, Pid
    <3>. QED BY <3>1, <3>2
  <2>5. ASSUME t \in Listed PROVE t \in Created /\ ~(pc = "fork_walk" /\ t = new)
    <3>1. CASE t = ready_queue
      BY <2>1, <2>4, <3>1
    <3>2. CASE t # ready_queue
      <4>1. PICK u \in Pid : next[u] = t
        BY <2>5, <3>2 DEF Listed
      <4>2. u \in Created
        BY <1>1, <4>1
      <4>. QED BY <1>4, <2>2, <4>1, <4>2 DEF Pid
    <3>. QED BY <3>1, <3>2
  <2>6. ASSUME t \in Created, ~(pc = "fork_walk" /\ t = new) PROVE t \in Listed
    <3>1. CASE t = 1
      BY <1>4, <2>1, <3>1 DEF Listed
    <3>2. CASE t # 1
      <4>. DEFINE u == t - 1
      <4>1. u \in Pid /\ u + 1 = t /\ u < next_pid
        BY <1>1, <2>1, <2>3, <2>6, <3>2 DEF Pid
      <4>2. next[u] = t
        BY <2>2, <2>3, <2>6, <4>1
      <4>. QED BY <4>1, <4>2 DEF Listed
    <3>. QED BY <3>1, <3>2
  <2>. QED BY <2>5, <2>6
<1>5. Listed \subseteq Pid /\ Created \subseteq Pid
  BY DEF Listed, Created
<1>. QED BY <1>2, <1>3, <1>4, <1>5

\* The least of the tasks that are left is the one First chooses.
LEMMA FirstTask ==
  ASSUME NEW S \in SUBSET Nat, NEW t \in S, \A u \in S : t <= u
  PROVE  RR!First(S) = t
<1>1. \A v \in S : (\A u \in S : v <= u) => v = t
  <2>. TAKE v \in S
  <2>. HAVE \A u \in S : v <= u
  <2>1. v <= t /\ t <= v /\ v \in Nat /\ t \in Nat
    OBVIOUS
  <2>. QED BY <2>1
<1>. QED BY <1>1 DEF RR!First

\* A tick while no task exits: the next task in order of creation, the first
\* one after the last.
LEMMA TickTurn ==
  ASSUME IInv, QueueInv, exited = {}, Tick
  PROVE  RR!Turn
<1>. USE DEF Null
<1>1. Started /\ pc # "fork_walk" /\ current_task # 0
  BY TickFacts DEF Tick, Started
<1>2. Listed = Created
  BY <1>1, ListedTasks
<1>3. UNCHANGED Listed
  BY DEF Tick, Listed
<1>4. /\ current_task \in Created /\ ready_queue = 1 /\ 1 \in Created
      /\ Created \subseteq Nat /\ \A u \in Created : 1 <= u
      /\ \A u, v \in Pid : v \in Created /\ u < v => u \in Created
  BY <1>1, StartedFacts DEF Created, Pid
<1>5. current_task' = Successor(current_task)
  BY <1>1, SuccessorFacts DEF Tick, Created, Started
<1>6. next[current_task] = IF current_task + 1 \in Created THEN current_task + 1 ELSE 0
  BY <1>1, <1>4 DEF IInv, Chain
<1>. DEFINE Later == {u \in Created : u > current_task}
<1>7. RR!Younger(current_task) = Later
  BY <1>2 DEF RR!Younger
<1>8. CASE current_task + 1 \in Created
  <2>1. current_task + 1 \in Later /\ \A u \in Later : current_task + 1 <= u
    BY <1>4, <1>8
  <2>2. RR!First(Later) = current_task + 1
    BY <1>4, <2>1, FirstTask
  <2>3. current_task' = current_task + 1
    BY <1>4, <1>5, <1>6, <1>8 DEF Successor
  <2>4. Later # {}
    BY <2>1
  <2>. QED BY <1>1, <1>3, <1>7, <2>2, <2>3, <2>4 DEF RR!Turn
<1>9. CASE current_task + 1 \notin Created
  <2>1. Later = {}
    <3>1. ASSUME NEW u \in Created, u > current_task PROVE FALSE
      <4>1. /\ current_task + 1 \in Pid /\ u \in Pid
            /\ u = current_task + 1 \/ current_task + 1 < u
        BY <1>4, <3>1, StartedFacts, <1>1 DEF Pid
      <4>. QED BY <1>4, <1>9, <4>1
    <3>. QED BY <3>1
  <2>2. RR!First(Created) = 1
    BY <1>4, FirstTask
  <2>3. current_task' = 1
    BY <1>4, <1>5, <1>6, <1>9 DEF Successor
  <2>. QED BY <1>1, <1>2, <1>3, <1>7, <2>1, <2>2, <2>3 DEF RR!Turn
<1>. QED BY <1>8, <1>9

\* Initialising the link of a task_t that nothing leads to changes no list.
LEMMA SameListed ==
  ASSUME next \in [Pid -> Links], NEW t \in Pid, next[t] = Garbage,
         next' = [next EXCEPT ![t] = Null], UNCHANGED <<current_task, ready_queue>>
  PROVE  UNCHANGED <<current_task, Listed>>
<1>1. next'[t] = Null /\ \A u \in Pid : u # t => next'[u] = next[u]
  OBVIOUS
<1>2. Null \notin Pid /\ Garbage \notin Pid
  BY BoundsAssumption DEF Null, Garbage, Pid
<1>3. \A u \in Pid : u \in Listed' <=> u \in Listed
  BY <1>1, <1>2 DEF Listed
<1>. QED BY <1>3 DEF Listed

\* While no task exits, every step is one of the round robin, or none.
LEMMA RoundRobinStep ==
  ASSUME IInv, IInv', QueueInv, QueueInv', NoExit, NoExit', [Next]_vars
  PROVE  [RR!Start \/ RR!Admit \/ RR!Turn]_<<current_task, Listed>>
<1>. USE DEF Null
<1>1. CASE InitPublish
  <2>1. current_task = 0 /\ current_task' = 1 /\ pc' = "init_fields"
    BY <1>1 DEF InitPublish, IInv, Phase
  <2>2. Listed' = {1} /\ 1 \in Pid
    <3>1. UNCHANGED next /\ ready_queue = 0 /\ ready_queue' = 1 /\ Created = {}
      BY <1>1, <2>1, BoundsAssumption DEF InitPublish, fields, IInv, Phase, TypeOK, Created, Pid
    <3>2. \A t \in Pid : next[t] = Garbage
      BY <3>1 DEF QueueInv
    <3>3. 1 \in Pid /\ Garbage \notin Pid
      BY BoundsAssumption DEF Pid, Garbage
    <3>. QED BY <3>1, <3>2, <3>3 DEF Listed
  <2>. QED BY <2>1, <2>2 DEF RR!Start
<1>2. CASE Tick
  BY <1>2, TickTurn DEF NoExit
<1>3. CASE ForkLink
  <2>1. /\ pc = "fork_walk" /\ pc' = "fork_check"
        /\ UNCHANGED <<current_task, next_pid>> /\ current_task # 0
    BY <1>3, TaskCode DEF ForkLink, globals
  <2>2. Started /\ Created' = Created
    BY <2>1 DEF Started, Created
  <2>3. Listed = Created \ {next_pid - 1}
    BY <2>1, <2>2, ListedTasks DEF NoExit
  <2>4. next_pid - 1 \in Created /\ \A u \in Created : u <= next_pid - 1
    BY <2>2, StartedFacts
  <2>5. \A u \in Listed : u < next_pid - 1
    BY <2>2, <2>3, <2>4, StartedFacts
  <2>6. Listed' = Listed \cup {next_pid - 1}
    <3>. DEFINE tail == tmp_task[current_task]
                new == next_pid - 1
    <3>1. /\ next' = [next EXCEPT ![tail] = new] /\ next[tail] = Null
          /\ ready_queue' = ready_queue /\ tail \in Pid /\ next \in [Pid -> Links]
      BY <1>3, <2>1, TaskCode DEF ForkLink, globals, IInv, TypeOK, ForkLocals,
         Forking, Phase, Created
    <3>2. new \in Pid /\ Null \notin Pid
      BY <2>4 DEF Created, Pid
    <3>. HIDE DEF tail, new
    <3>3. next'[tail] = new /\ \A u \in Pid : u # tail => next'[u] = next[u]
      BY <3>1
    <3>4. \A t \in Pid : t \in Listed' <=> t \in Listed \/ t = new
      BY <3>1, <3>2, <3>3 DEF Listed
    <3>. QED BY <3>2, <3>4 DEF Listed, new
  <2>. QED BY <2>1, <2>4, <2>5, <2>6 DEF RR!Admit, Created
<1>4. CASE InitFields
  <2>1. /\ next' = [next EXCEPT ![1] = Null] /\ next \in [Pid -> Links] /\ 1 \in Pid
        /\ UNCHANGED <<current_task, ready_queue>> /\ pc = "init_fields"
    BY <1>4, BoundsAssumption DEF InitFields, IInv, TypeOK, Pid
  <2>2. next[1] = Garbage
    <3>1. 1 \in Pid \ Created
      BY <2>1 DEF IInv, Phase, Created
    <3>. QED BY <3>1 DEF QueueInv
  <2>. QED BY <2>1, <2>2, SameListed
<1>5. CASE ForkNew
  <2>1. /\ next' = [next EXCEPT ![next_pid] = Null] /\ next \in [Pid -> Links]
        /\ UNCHANGED <<current_task, ready_queue>>
    BY <1>5 DEF ForkNew, IInv, TypeOK
  <2>2. next_pid \in Pid \ Created
    BY <1>5, TaskCode DEF ForkNew, IInv, ForkLocals, TypeOK, Created, Pid
  <2>3. next[next_pid] = Garbage
    BY <2>2 DEF QueueInv
  <2>. QED BY <2>1, <2>2, <2>3, SameListed
<1>6. CASE UNCHANGED <<current_task, ready_queue, next>>
  BY <1>6 DEF Listed
<1>7. CASE pc = "exit_loop"
  BY <1>7 DEF NoExit
<1>. QED
  BY <1>1, <1>2, <1>3, <1>4, <1>5, <1>6, <1>7
     DEF Next, Interrupt, Progress, Call, vars, fields, globals, TickBeforeTasking,
         InitCli, IrqReturn, ForkCli, ForkWalk, ForkParent, ForkChild, ExitCli,
         ExitLoop, CountStart, CountTest, CountStep,
       CountReturn, CountAstray

\* No exit has begun when none of the tasks has a program that exits.
LEMMA NoExitStep ==
  ASSUME IInv, IInv', NoExit, [Next]_vars, ~ExitCli
  PROVE  NoExit'
<1>1. CASE IrqReturn
  <2>1. pc' # "exit_loop"
    <3>1. /\ stack[Running] # <<>> /\ stack[Running] \in Seq(Labels)
          /\ Running \in Pid
      BY <1>1, BoundsAssumption DEF IrqReturn, IInv, StackShape, TypeOK, Running, Pid
    <3>. DEFINE interrupted == stack[Running]
    <3>2. Len(interrupted) \in 1..Len(interrupted) /\ 1 \in 1..Len(interrupted)
      BY <3>1, FrontFacts
    <3>3. pc' = interrupted[Len(interrupted)]
      BY <1>1 DEF IrqReturn
    <3>4. interrupted[Len(interrupted)] = "irq" \/ Len(interrupted) = 1
      <4>1. \A n \in 1..Len(interrupted) : interrupted[n] = "irq" <=> n > 1
        BY <3>1 DEF IInv, StackShape
      <4>. HIDE DEF interrupted
      <4>. QED BY <3>2, <4>1
    <3>5. interrupted[1] # "exit_loop"
      BY <3>1 DEF IInv, StackShape
    <3>. QED BY <3>3, <3>4, <3>5
  <2>. QED BY <1>1, <2>1 DEF IrqReturn, NoExit
<1>2. CASE Tick
  BY <1>2, TickFacts DEF NoExit, Tick
<1>3. CASE ~IrqReturn /\ ~Tick
  BY <1>3 DEF NoExit, Next, Interrupt, Progress, Call, vars, fields, globals,
     TickBeforeTasking, InitCli, InitPublish, InitFields, ForkCli, ForkNew,
     ForkWalk, ForkLink, ForkParent, ForkChild, ExitLoop, CountStart, CountTest,
     CountStep, CountReturn, CountAstray
<1>. QED BY <1>1, <1>2, <1>3

\* The scheduler under the timer, with interrupts nested and half-made tasks in
\* memory, is a round robin of the tasks that exist, as long as none exits.
THEOREM RoundRobinTheorem == Exiting = {} => (Spec => IsRoundRobin)
<1>. SUFFICES ASSUME Exiting = {} PROVE Spec => IsRoundRobin
  OBVIOUS
<1>1. Init => NoExit /\ RR!Init
  BY BoundsAssumption DEF Init, NoExit, RR!Init, Listed, Null, Garbage, Pid
<1>2. IInv /\ IInv' /\ NoExit /\ [Next]_vars => NoExit'
  BY NoExitStep DEF ExitCli
<1>3. Spec => []NoExit
  BY <1>1, <1>2, Invariance, PTL DEF Spec
<1>4. IInv /\ IInv' /\ QueueInv /\ QueueInv' /\ NoExit /\ NoExit' /\ [Next]_vars
        => [RR!Start \/ RR!Admit \/ RR!Turn]_<<current_task, Listed>>
  BY RoundRobinStep
<1>. QED BY <1>1, <1>3, <1>4, Invariance, QueueInvariance, PTL
         DEF Spec, IsRoundRobin, RR!Spec

-----------------------------------------------------------------------------
(* The scheduler in the kernel *)

\* Every step of the kernel is a step of the scheduler, or leaves it alone.
LEMMA KernelStep == [KernelNext]_kernel_vars => [Next]_vars
  BY DEF KernelNext, KernelInterrupt, KernelProgress, kernel_vars, KernelTick, BootTick,
     Return, EndFork, Stores, InitialisePaging, CloneDirectory, MoveStackMap,
     MoveStackCopy, ForkDirectory, ForkTask, Next, Interrupt, Progress, Call

\* What is proved of the scheduler holds in the kernel, over real memory.
THEOREM KernelSchedules == KernelSpec => Spec
<1>1. KernelInit => Init
  BY DEF KernelInit
<1>. QED BY <1>1, KernelStep, PTL DEF KernelSpec, Spec

LEMMA KernelNoExit == KernelSpec => []NoExit
<1>1. KernelInit => NoExit
  BY DEF KernelInit, Init, NoExit
<1>2. ASSUME IInv, IInv', NoExit, [KernelNext]_kernel_vars PROVE NoExit'
  <2>1. [Next]_vars
    BY <1>2, KernelStep
  <2>2. ~ExitCli
    <3>1. CASE KernelTick
      BY <1>2, <3>1, TickFacts DEF KernelTick, ExitCli
    <3>2. CASE ~KernelTick
      BY <1>2, <3>2
         DEF ExitCli, KernelNext, KernelInterrupt, KernelProgress, kernel_vars, vars,
         BootTick, Return, EndFork, Stores, InitialisePaging, CloneDirectory,
         MoveStackMap, MoveStackCopy, ForkDirectory, ForkTask, TickBeforeTasking,
         InitCli, InitPublish, InitFields, IrqReturn, ForkCli, ForkNew, ForkWalk,
         ForkLink, ForkParent, ForkChild
    <3>. QED BY <3>1, <3>2
  <2>. QED BY <1>2, <2>1, <2>2, NoExitStep
<1>. QED BY <1>1, <1>2, KernelSchedules, Invariance, PTL DEF KernelSpec

\* In the kernel, where no task exits, the scheduler is round robin.
THEOREM KernelRoundRobin == KernelSpec => IsRoundRobin
<1>1. Init => RR!Init
  BY BoundsAssumption DEF Init, RR!Init, Listed, Null, Garbage, Pid
<1>2. IInv /\ IInv' /\ QueueInv /\ QueueInv' /\ NoExit /\ NoExit' /\ [Next]_vars
        => [RR!Start \/ RR!Admit \/ RR!Turn]_<<current_task, Listed>>
  BY RoundRobinStep
<1>. QED BY <1>1, <1>2, KernelSchedules, KernelNoExit, Invariance, QueueInvariance, PTL
         DEF Spec, IsRoundRobin, RR!Spec

-----------------------------------------------------------------------------
(* The address spaces, as the kernel makes them *)

Entry == [frame : Nat, present : BOOLEAN]

\* The boot code runs, on the stack it was given.
Booting == current_task = Null /\ pc # "init_publish"

PagingOn == paging_pc \notin {"heap_tables", "identity"}

\* How many frames were given out; the table being copied has none at first.
Given == IF paging_pc = "clone_table" /\ i = 0 THEN ntables - 1 ELSE ntables

\* The tables are made in this order: the heap's, that of the low memory, and
\* one for the stack of each task.
KernelSlot(n) == IF n = 0 THEN 2 ELSE IF n = 1 THEN 1 ELSE 0
Slot(d, n) == IF n = 2 /\ ~Booting THEN d + 1 ELSE KernelSlot(n)

MapTypes ==
  /\ tables \in [P!Dir -> [P!TableIdx -> Nat]]
  /\ page \in [P!Table -> [P!Page -> Entry]]
  /\ content \in [P!Frame -> Contexts]
  /\ ndirs \in P!Dir /\ ntables \in 0..MaxTables /\ i \in 0..1 /\ number \in 0..3
  /\ paging_pc \in {"heap_tables", "identity", "clone", "clone_table", "run"}

\* initialise_paging, before it enables paging.
BootMap ==
  ~PagingOn =>
    /\ Booting /\ ndirs = 1 /\ cr3 = 0 /\ heap_pages \in 0..1
    /\ tables[1][2] = 0
    /\ IF paging_pc = "heap_tables"
       THEN ntables = 0 /\ i = 0 /\ tables[1][0] = 0
       ELSE ntables = i + 1 /\ tables[1][1] = 1 /\ tables[1][0] = 2 * i
    /\ heap_pages = 1 => i = 1
    /\ i = 1 => page[2][0] = P!Mapped(0)
    /\ heap_pages = 1 => page[1][0] = P!Mapped(1)
    /\ frames = 0..(i + heap_pages - 1)
    /\ \A t \in P!Table : (t = 2 => i = 0) /\ (t = 1 => heap_pages = 0) =>
         page[t][0] = P!Unmapped

\* From then on.
RunTables ==
  PagingOn =>
    /\ ndirs >= 2
    /\ \A n \in 0..2 : tables[1][n] = KernelSlot(n)
    /\ \A d \in 2..ndirs : \A n \in 0..2 :
         d < ndirs \/ paging_pc = "run" \/ n < number => tables[d][n] = Slot(d, n)
    /\ page[1][0] = P!Mapped(1) /\ page[2][0] = P!Mapped(0)
    /\ \A t \in P!Table : t > 2 =>
         page[t][0] = IF t <= Given THEN P!Mapped(t - 1) ELSE P!Unmapped
    /\ frames = 0..(Given - 1)

RunPhase ==
  PagingOn =>
    /\ paging_pc # "run" => dir = ndirs
    /\ paging_pc = "clone_table" => number = 2 /\ ~Booting /\ table = ntables
    /\ IF Booting THEN /\ ndirs = 2 /\ ntables = 2
                       /\ cr3 = IF paging_pc = "run" THEN 2 ELSE 1
                       /\ paging_pc # "run" => src = 1
       ELSE /\ ntables = IF paging_pc = "clone" /\ number <= 2 THEN ndirs ELSE ndirs + 1
            /\ cr3 = DirectoryOf(Running)
            /\ paging_pc # "run" => pc = "fork_new" /\ src = cr3
            /\ ndirs \in {next_pid, next_pid + 1}
            /\ paging_pc # "run" \/ pc \in {"init_publish", "init_fields"} =>
                 ndirs = next_pid + 1
            /\ pc \notin {"init_publish", "init_fields", "fork_new"} => ndirs = next_pid

Context(t) == [parent |-> parent_task[t], irq |-> stack[t]]

\* The copy of the forker's stack is made.
StackCopied ==
  pc = "fork_new" /\ CASE paging_pc = "run" -> ndirs = next_pid + 1
                       [] paging_pc = "clone" -> number = 3
                       [] OTHER -> i = 1

StacksInv ==
  /\ current_task = Null => content[0] = Context(1)
  /\ current_task # Null => \A t \in Pid : t = 1 \/ t \in Created => content[t + 1] = Context(t)
  /\ StackCopied => content[ndirs] = Context(current_task)

KInv == MapTypes /\ BootMap /\ RunTables /\ RunPhase /\ StacksInv


LEMMA KernelIndices ==
  /\ P!Dir = 1..(MaxPid + 1) /\ P!TableIdx = 0..2 /\ P!Page = {0}
  /\ P!Table = 1..MaxTables /\ P!Frame = 0..(NFrames - 1)
  /\ P!None = 0 /\ P!Low = 0 /\ P!KernelHeap = 1 /\ P!kernel_directory = 1
  /\ MaxPid \in Nat \ {0} /\ NFrames \in Nat /\ MaxTables \in Nat \ {0, 1}
  BY BoundsAssumption, MemoryAssumption
     DEF P!Dir, P!TableIdx, P!Page, P!Table, P!Frame, P!None, P!Low, P!KernelHeap,
         P!kernel_directory, StackTable

LEMMA FirstFrameFacts ==
  ASSUME NEW k \in Nat, frames = 0..(k - 1), k < NFrames
  PROVE  P!FirstFrame = k
<1>1. P!Unused = k..(NFrames - 1) /\ k \in P!Unused
  BY KernelIndices DEF P!Unused
<1>2. \A f \in P!Unused : (\A g \in P!Unused : f <= g) <=> f = k
  BY <1>1, KernelIndices
<1>. QED BY <1>1, <1>2 DEF P!FirstFrame

\* Where the stack of a task is.
LEMMA BootStack ==
  ASSUME KInv, IInv, Booting
  PROVE  StackFrame(cr3) = 0
<1>1. cr3 = 0 \/ tables[cr3][2] = 0
  BY KernelIndices DEF KInv, BootMap, RunTables, RunPhase, KernelSlot, Slot, PagingOn
<1>. QED BY <1>1, KernelIndices DEF StackFrame, StackTable, BootFrame

LEMMA TaskStack ==
  ASSUME KInv, IInv, ~Booting, NEW t \in Pid, t = Running \/ t \in Created
  PROVE  StackFrame(t + 1) = t + 1 /\ t < ndirs
<1>1. PagingOn
  BY DEF KInv, BootMap
<1>2. ndirs \in 1..(MaxPid + 1) /\ next_pid \in Nat /\ t \in Nat
  BY KernelIndices DEF KInv, MapTypes, IInv, TypeOK, Pid
<1>3. t < next_pid \/ (t = 1 /\ next_pid = 1 /\ pc \in {"init_publish", "init_fields"})
  <2>1. CASE t \in Created
    BY <2>1 DEF Created
  <2>2. CASE t = Running /\ t \notin Created
    BY <2>2 DEF IInv, Phase, Booting, Running
  <2>. QED BY <2>1, <2>2
<1>4. t + 1 <= ndirs /\ (t + 1 < ndirs \/ paging_pc = "run")
  BY <1>1, <1>2, <1>3 DEF KInv, RunPhase
<1>5. tables[t + 1][2] = t + 2
  <2>1. t + 1 \in 2..ndirs /\ 2 \in 0..2
    BY <1>2, <1>4, KernelIndices DEF Pid
  <2>2. tables[t + 1][2] = Slot(t + 1, 2)
    BY <1>1, <1>4, <2>1 DEF KInv, RunTables
  <2>. QED BY <1>2, <2>2 DEF Slot
<1>6. t + 2 \in P!Table /\ t + 2 > 2 /\ t + 2 <= Given
  <2>1. ntables \in 0..MaxTables /\ i \in 0..1
    BY DEF KInv, MapTypes
  <2>2. t + 1 <= ntables /\ (paging_pc # "clone_table" => t + 2 <= ntables)
    BY <1>1, <1>2, <1>4, <2>1 DEF KInv, RunPhase
  <2>3. t >= 1
    BY DEF Pid
  <2>. QED BY <1>1, <1>2, <1>4, <2>1, <2>2, <2>3, KernelIndices
              DEF Given, KInv, RunPhase
<1>7. page[t + 2][0] = P!Mapped(t + 1)
  BY <1>1, <1>2, <1>6 DEF KInv, RunTables
<1>. QED BY <1>2, <1>4, <1>5, <1>7, KernelIndices DEF StackFrame, StackTable, P!Mapped

\* A step that stores writes to the stack of the running task and no other.
LEMMA StoreFacts ==
  ASSUME KInv, IInv, Store, Booting \/ current_task # Null, MaxPid + 2 <= NFrames,
         NEW f, f = IF Booting THEN 0 ELSE Running + 1
  PROVE  /\ f \in P!Frame
         /\ content' = [content EXCEPT ![f] =
                          [parent |-> parent_task'[Running], irq |-> stack'[Running]]]
<1>1. Running \in Pid /\ (Booting => Running = 1) /\ (~Booting => Running = current_task)
  BY BoundsAssumption DEF IInv, TypeOK, Running, Pid, Booting
<1>2. StackFrame(cr3) = f
  <2>1. CASE Booting
    BY <2>1, BootStack
  <2>2. CASE ~Booting
    <3>1. PagingOn
      BY <2>2 DEF KInv, BootMap
    <3>2. cr3 = Running + 1
      BY <2>2, <3>1 DEF KInv, RunPhase, DirectoryOf
    <3>. QED BY <2>2, <1>1, <3>2, TaskStack
  <2>. QED BY <2>1, <2>2
<1>3. f \in P!Frame
  BY <1>1, KernelIndices DEF Pid
<1>4. content[f] = Context(Running)
  <2>1. CASE Booting
    BY <1>1, <2>1 DEF KInv, StacksInv, Booting
  <2>2. CASE ~Booting
    BY <1>1, <2>2 DEF KInv, StacksInv, IInv, Phase
  <2>. QED BY <2>1, <2>2
<1>5. content[f].parent = parent_task[Running] /\ content[f].irq = stack[Running]
  BY <1>4 DEF Context
<1>. DEFINE was == content[f]
     is == [parent |-> parent_task'[Running], irq |-> stack'[Running]]
     put == [parent |-> IF parent_task'[Running] = parent_task[Running] THEN was.parent
                        ELSE parent_task'[Running],
             irq |-> IF stack'[Running] = stack[Running] THEN was.irq ELSE stack'[Running]]
<1>6. put = is
  BY <1>5
<1>7. content' = [content EXCEPT ![f] = put]
  BY <1>2 DEF Store
<1>. QED BY <1>3, <1>6, <1>7

\* A step that leaves the tables alone.
LEMMA TablesKept ==
  ASSUME KInv, UNCHANGED mapping, Booting' <=> Booting, UNCHANGED cr3 \/ PagingOn
  PROVE  BootMap' /\ RunTables'
<1>1. BootMap'
  BY DEF KInv, BootMap, mapping, PagingOn
<1>2. RunTables'
  BY DEF KInv, RunTables, mapping, PagingOn, Given, KernelSlot, Slot, P!Table
<1>. QED BY <1>1, <1>2

LEMMA StoreStep ==
  ASSUME KInv, IInv, IInv', Store, Booting \/ current_task # Null, MaxPid + 2 <= NFrames,
         UNCHANGED mapping, Booting' <=> Booting, UNCHANGED cr3 \/ PagingOn,
         current_task' = Null <=> current_task = Null,
         \A t \in Pid \ {Running} : t = 1 \/ t \in Created =>
           parent_task'[t] = parent_task[t] /\ stack'[t] = stack[t],
         \A t \in Pid : t \in Created' => t = 1 \/ t \in Created
                       \/ content[t + 1] = [parent |-> parent_task'[t], irq |-> stack'[t]],
         ~StackCopied'
  PROVE  MapTypes' /\ BootMap' /\ RunTables' /\ StacksInv'
<1>. DEFINE f == IF Booting THEN 0 ELSE Running + 1
     is == [parent |-> parent_task'[Running], irq |-> stack'[Running]]
<1>1. f \in P!Frame /\ content' = [content EXCEPT ![f] = is]
  BY StoreFacts
<1>2. BootMap' /\ RunTables'
  BY TablesKept
<1>3. Running \in Pid /\ 1 \in Pid
  BY BoundsAssumption DEF IInv, TypeOK, Running, Pid
<1>4. is \in Contexts
  BY <1>3 DEF IInv, TypeOK, Contexts
<1>. HIDE DEF f, is
<1>5. MapTypes'
  BY <1>1, <1>4, KernelIndices
     DEF KInv, MapTypes, mapping, P!Dir, P!TableIdx, P!Table, P!Page, P!Frame, Entry,
         Contexts
<1>6. content'[f] = is /\ \A g \in P!Frame : g # f => content'[g] = content[g]
  BY <1>1 DEF KInv, MapTypes
<1>7. current_task' = Null => content'[0] = Context(1)'
  BY <1>6 DEF Context, f, is, Running, Booting, IInv, Phase
<1>8. ASSUME current_task' # Null, NEW t \in Pid, t = 1 \/ t \in Created'
      PROVE  content'[t + 1] = Context(t)'
  <2>1. CASE t = Running
    BY <1>8, <2>1, <1>6 DEF f, is, Context, Booting
  <2>2. CASE t # Running
    <3>1. t + 1 \in P!Frame /\ t + 1 # f
      BY <2>2, <1>3, KernelIndices DEF f, Pid
    <3>2. content'[t + 1] = content[t + 1]
      BY <3>1, <1>6
    <3>3. CASE t = 1 \/ t \in Created
      BY <1>8, <2>2, <3>2, <3>3 DEF KInv, StacksInv, Context
    <3>4. CASE content[t + 1] = [parent |-> parent_task'[t], irq |-> stack'[t]]
      BY <3>2, <3>4 DEF Context
    <3>. QED BY <1>8, <3>3, <3>4
  <2>. QED BY <2>1, <2>2
<1>. QED BY <1>2, <1>5, <1>7, <1>8 DEF StacksInv

\* Outside fork no address space is being copied.
LEMMA NotCopying ==
  ASSUME KInv, IInv, ~Booting, pc # "fork_new"
  PROVE  PagingOn /\ paging_pc = "run"
  BY DEF KInv, BootMap, RunPhase

LEMMA KernelTickStep ==
  ASSUME KInv, IInv, IInv', MaxPid + 2 <= NFrames, KernelTick
  PROVE  KInv'
<1>1. Tick /\ current_task # Null /\ current_task' \in Pid /\ Running = current_task
      /\ Running' = current_task'
  BY TickFacts DEF KernelTick, Tick, Running, IInv, TypeOK, Pid, Null
<1>2. pc \notin {"init_fields", "init_publish", "fork_new"}
  BY <1>1 DEF Tick, CanInterrupt, IInv, Phase, ForkLocals
<1>3. ~Booting /\ ~Booting' /\ PagingOn /\ paging_pc = "run"
  BY <1>1, <1>2, NotCopying DEF Booting, Null, Pid
<1>4. pc' \notin {"init_publish", "init_fields", "fork_new", "boot"} /\ next_pid' = next_pid
  BY <1>1, TickFacts DEF Tick, Resume
<1>5. cr3' = Running' + 1
  BY <1>1 DEF KernelTick, LoadCr3, DirectoryOf, IInv, Directories
<1>6. /\ UNCHANGED <<mapping, parent_task, next_pid>> /\ Store
      /\ \A t \in Pid \ {Running} : stack'[t] = stack[t]
  BY <1>1 DEF KernelTick, Tick, forking, IInv, TypeOK
<1>7. ~StackCopied'
  BY <1>4 DEF StackCopied
<1>8. MapTypes' /\ BootMap' /\ RunTables' /\ StacksInv'
  BY <1>1, <1>3, <1>6, <1>7, StoreStep DEF Created, Null, Pid
<1>9. RunPhase'
  BY <1>2, <1>3, <1>4, <1>5, <1>6 DEF KInv, RunPhase, mapping, DirectoryOf, PagingOn
<1>. QED BY <1>8, <1>9 DEF KInv

LEMMA BootTickStep ==
  ASSUME KInv, IInv, IInv', MaxPid + 2 <= NFrames, BootTick
  PROVE  KInv'
<1>1. /\ Store /\ UNCHANGED <<mapping, cr3, parent_task, next_pid, current_task>>
      /\ current_task = Null /\ pc = "boot" /\ pc' = "irq"
      /\ \A t \in Pid \ {Running} : stack'[t] = stack[t]
  BY DEF BootTick, Stores, TickBeforeTasking, CanInterrupt, IInv, Phase, TypeOK,
         globals, forking, Running
<1>2. Booting /\ Booting' /\ ~StackCopied'
  BY <1>1 DEF Booting, StackCopied
<1>3. MapTypes' /\ BootMap' /\ RunTables' /\ StacksInv'
  BY <1>1, <1>2, StoreStep DEF Created
<1>4. RunPhase'
  BY <1>1, <1>2 DEF KInv, RunPhase, mapping, PagingOn
<1>. QED BY <1>3, <1>4 DEF KInv

LEMMA ReturnStep ==
  ASSUME KInv, IInv, IInv', MaxPid + 2 <= NFrames, Return
  PROVE  KInv'
<1>1. /\ Store /\ UNCHANGED <<mapping, cr3, parent_task, next_pid, current_task>>
      /\ pc = "irq"
      /\ \A t \in Pid \ {Running} : stack'[t] = stack[t]
  BY DEF Return, Stores, IrqReturn, IInv, TypeOK, globals, forking
<1>2. pc' \notin {"init_publish", "init_fields", "fork_new"}
  <2>1. Running \in Pid /\ stack[Running] # <<>> /\ stack[Running] \in Seq(Labels)
    BY <1>1, BoundsAssumption DEF IInv, StackShape, TypeOK, Running, Pid
  <2>2. Len(stack[Running]) \in 1..Len(stack[Running]) /\ 1 \in 1..Len(stack[Running])
    BY <2>1, EmptySeq
  <2>3. stack[Running][Len(stack[Running])] \in {"irq", "boot", "user", "fork_check", "count", "count_next"}
    BY <2>1, <2>2 DEF IInv, StackShape
  <2>. QED BY <2>3 DEF Return, Stores, IrqReturn
<1>3. (Booting' <=> Booting) /\ ~StackCopied' /\ (Booting \/ current_task # Null)
  BY <1>1, <1>2 DEF Booting, StackCopied
<1>4. MapTypes' /\ BootMap' /\ RunTables' /\ StacksInv'
  BY <1>1, <1>3, StoreStep DEF Created
<1>5. RunPhase'
  BY <1>1, <1>2, <1>3 DEF KInv, RunPhase, mapping, PagingOn, DirectoryOf, Running
<1>. QED BY <1>4, <1>5 DEF KInv

\* The steps of fork after the copy, and that with which it starts.
LEMMA ForkStoreStep ==
  ASSUME KInv, IInv, IInv', MaxPid + 2 <= NFrames,
         Stores(ForkCli) \/ Stores(ForkWalk) \/ Stores(ForkLink) \/ Stores(ForkParent)
           \/ EndFork
  PROVE  KInv'
<1>1. current_task # Null /\ current_task \in Pid /\ Running = current_task
  BY
     DEF Stores, EndFork, ForkCli, ForkWalk, ForkLink, ForkParent, ForkChild, IInv,
         Phase,
         TypeOK, Running, Null, Pid
<1>2. /\ Store /\ UNCHANGED <<mapping, cr3, stack, next_pid, current_task>>
      /\ pc \in {"user", "fork_walk", "fork_check"}
      /\ pc' \in {"user", "fork_walk", "fork_check", "fork_new"}
      /\ \A t \in Pid \ {Running} : parent_task'[t] = parent_task[t]
  BY <1>1
     DEF Stores, EndFork, ForkCli, ForkWalk, ForkLink, ForkParent, ForkChild, IInv,
         TypeOK,
         globals, forking
<1>3. ~Booting /\ ~Booting'
  BY <1>1, <1>2 DEF Booting
<1>4. paging_pc = "run" /\ PagingOn /\ ndirs = next_pid
  BY <1>2, <1>3 DEF KInv, RunPhase, BootMap
<1>5. ~StackCopied'
  BY <1>2, <1>4 DEF StackCopied, mapping, IInv, TypeOK
<1>6. MapTypes' /\ BootMap' /\ RunTables' /\ StacksInv'
  BY <1>1, <1>2, <1>3, <1>5, StoreStep DEF Created
<1>7. RunPhase'
  BY <1>1, <1>2, <1>3, <1>4 DEF KInv, RunPhase, mapping, PagingOn, DirectoryOf, Running
<1>. QED BY <1>6, <1>7 DEF KInv

LEMMA ForkTaskStep ==
  ASSUME KInv, IInv, IInv', MaxPid + 2 <= NFrames, Stores(ForkTask)
  PROVE  KInv'
<1>1. /\ current_task # Null /\ current_task \in Pid /\ Running = current_task
      /\ ~Booting /\ paging_pc = "run" /\ ndirs = next_pid + 1 /\ PagingOn /\ pc = "fork_new"
      /\ next_pid \in Pid
  BY
     DEF Stores, ForkTask, ForkNew, IInv, Phase, ForkLocals, TypeOK, Running, Null,
         Pid, Booting,
         Copied, DirectoryOf, PagingOn
<1>2. /\ Store /\ UNCHANGED <<mapping, cr3, current_task>> /\ next_pid' = next_pid + 1
      /\ pc' = "fork_walk"
      /\ \A t \in Pid \ {next_pid} : parent_task'[t] = parent_task[t] /\ stack'[t] = stack[t]
      /\ parent_task'[next_pid] = parent_task[current_task]
      /\ stack'[next_pid] = stack[current_task]
  BY <1>1 DEF Stores, ForkTask, ForkNew, IInv, TypeOK
<1>3. ~Booting' /\ ~StackCopied'
  BY <1>1, <1>2 DEF Booting, StackCopied
<1>4. content[next_pid + 1] = [parent |-> parent_task'[next_pid], irq |-> stack'[next_pid]]
  BY <1>1, <1>2 DEF KInv, StacksInv, StackCopied, Context
<1>5. \A t \in Pid : t \in Created' => t \in Created \/ t = next_pid
  BY <1>2 DEF Created, IInv, TypeOK, Pid
<1>6. \A t \in Pid \ {Running} : t = 1 \/ t \in Created => t # next_pid
  BY <1>1 DEF Created, IInv, TypeOK, Phase, Pid
<1>7. MapTypes' /\ BootMap' /\ RunTables' /\ StacksInv'
  BY <1>1, <1>2, <1>3, <1>4, <1>5, <1>6, StoreStep
<1>8. RunPhase'
  BY <1>1, <1>2, <1>3 DEF KInv, RunPhase, mapping, PagingOn, DirectoryOf, Running
<1>. QED BY <1>7, <1>8 DEF KInv

LEMMA KernelInitFieldsStep ==
  ASSUME KInv, IInv, IInv', MaxPid + 2 <= NFrames, Stores(InitFields)
  PROVE  KInv'
<1>1. /\ current_task = 1 /\ current_task # Null /\ next_pid = 1 /\ pc = "init_fields" /\ pc' = "user"
      /\ Store /\ UNCHANGED <<mapping, cr3, stack, parent_task, current_task>>
      /\ next_pid' = 2
  BY DEF Stores, InitFields, IInv, Phase, Null, globals, forking
<1>2. ~Booting /\ ~Booting' /\ ~StackCopied' /\ PagingOn /\ paging_pc = "run"
  BY <1>1, NotCopying DEF Booting, StackCopied, Null
<1>3. \A t \in Pid : t \in Created' => t = 1
  BY <1>1 DEF Created, Pid
<1>4. MapTypes' /\ BootMap' /\ RunTables' /\ StacksInv'
  BY <1>1, <1>2, <1>3, StoreStep
<1>5. RunPhase'
  BY <1>1, <1>2 DEF KInv, RunPhase, mapping, PagingOn, DirectoryOf, Running
<1>. QED BY <1>4, <1>5 DEF KInv

\* The copy of the boot stack to the one that move_stack mapped.
LEMMA MoveStackCopyStep ==
  ASSUME KInv, IInv, IInv', MaxPid + 2 <= NFrames, MoveStackCopy
  PROVE  KInv'
<1>1. /\ current_task = Null /\ next_pid = 1 /\ pc = "init_publish" /\ pc' = "init_fields"
      /\ current_task' = 1 /\ UNCHANGED <<mapping, cr3, stack, parent_task, next_pid>>
      /\ 1 \in Pid /\ current_task' # Null /\ Running = 1
  BY BoundsAssumption
     DEF MoveStackCopy, InitPublish, IInv, Phase, Null, forking, Pid, Running
<1>2. ~Booting /\ ~Booting' /\ ~StackCopied' /\ PagingOn /\ paging_pc = "run"
  BY <1>1, NotCopying DEF Booting, StackCopied, Null
<1>3. cr3 = 2 /\ ndirs = 2
  BY <1>1, <1>2 DEF KInv, RunPhase, DirectoryOf
<1>4. StackFrame(cr3) = 2
  BY <1>1, <1>2, <1>3, TaskStack
<1>5. content' = [content EXCEPT ![2] = content[0]] /\ 2 \in P!Frame /\ 0 \in P!Frame
  BY <1>4, KernelIndices DEF MoveStackCopy, BootFrame
<1>6. content[0] = Context(1)
  BY <1>1 DEF KInv, StacksInv
<1>7. MapTypes'
  BY <1>1, <1>5, KernelIndices
     DEF KInv, MapTypes, mapping, P!Dir, P!TableIdx, P!Table, P!Page, P!Frame, Entry,
         Contexts
<1>8. BootMap' /\ RunTables'
  BY <1>1, <1>2, TablesKept
<1>9. RunPhase'
  BY <1>1, <1>2, <1>3 DEF KInv, RunPhase, mapping, PagingOn, DirectoryOf, Running
<1>10. content'[2] = Context(1)'
  BY <1>1, <1>5, <1>6 DEF KInv, MapTypes, Context
<1>11. \A t \in Pid : t = 1 \/ t \in Created' => t = 1
  BY <1>1 DEF Created, Pid
<1>12. StacksInv'
  BY <1>1, <1>2, <1>10, <1>11 DEF StacksInv
<1>. QED BY <1>7, <1>8, <1>9, <1>12 DEF KInv

\* The frames are given out one after the other.
LEMMA AllocFrameFacts ==
  ASSUME MapTypes, NEW t \in P!Table, page[t][0] = P!Unmapped,
         NEW k \in Nat, frames = 0..(k - 1), k < NFrames, P!AllocFrame(t, 0)
  PROVE  /\ frames' = 0..k /\ page'[t][0] = P!Mapped(k)
         /\ \A u \in P!Table : u # t => page'[u][0] = page[u][0]
         /\ page' \in [P!Table -> [P!Page -> Entry]]
<1>1. P!FirstFrame = k
  BY FirstFrameFacts
<1>2. frames' = frames \cup {k} /\ page' = [page EXCEPT ![t][0] = P!Mapped(k)]
  BY <1>1 DEF P!AllocFrame, P!Unmapped
<1>3. P!Mapped(k) \in Entry /\ 0 \in P!Page
  BY KernelIndices DEF P!Mapped, Entry
<1>. QED BY <1>2, <1>3 DEF MapTypes

LEMMA HeapTablesStep ==
  ASSUME KInv, IInv, P!MakeHeapTables, pc = "boot", UNCHANGED vars
  PROVE  KInv'
<1>1. paging_pc = "heap_tables" /\ Booting /\ ntables = 0 /\ i = 0 /\ ndirs = 1 /\ cr3 = 0
  BY DEF P!MakeHeapTables, KInv, BootMap, PagingOn
<1>2. tables' = [tables EXCEPT ![1][1] = 1] /\ ntables' = 1 /\ paging_pc' = "identity"
      /\ UNCHANGED <<frames, page, content, cr3, ndirs, heap_pages, i, number>>
  BY <1>1, KernelIndices DEF P!MakeHeapTables, P!cloning
<1>3. UNCHANGED <<pc, current_task, stack, parent_task, next_pid>> /\ Booting'
  BY <1>1 DEF vars, globals, forking, Booting
<1>4. tables'[1][1] = 1 /\ tables'[1][0] = tables[1][0] /\ tables'[1][2] = tables[1][2]
      /\ tables' \in [P!Dir -> [P!TableIdx -> Nat]]
  BY <1>2, KernelIndices DEF KInv, MapTypes
<1>5. MapTypes'
  <2>1. 1 \in 0..MaxTables
    BY KernelIndices
  <2>2. /\ ndirs \in P!Dir /\ number \in 0..3 /\ i \in 0..1 /\ content \in [P!Frame -> Contexts]
        /\ page \in [P!Table -> [P!Page -> Entry]]
    BY DEF KInv, MapTypes
  <2>. QED BY <1>2, <1>4, <2>1, <2>2
           DEF MapTypes, P!Dir, P!TableIdx, P!Table, P!Page, P!Frame, Entry, Contexts
<1>6. BootMap'
  BY <1>1, <1>2, <1>3, <1>4 DEF KInv, BootMap, PagingOn, P!Table, P!Mapped, P!Unmapped
<1>7. RunTables' /\ RunPhase'
  BY <1>2 DEF RunTables, RunPhase, PagingOn
<1>8. StacksInv'
  BY <1>2, <1>3 DEF KInv, StacksInv, StackCopied, Context, Created, Booting
<1>. QED BY <1>5, <1>6, <1>7, <1>8 DEF KInv

LEMMA IdentityStep ==
  ASSUME KInv, IInv, MaxPid + 2 <= NFrames, P!MapIdentity, pc = "boot", UNCHANGED vars
  PROVE  KInv'
<1>1. paging_pc = "identity" /\ Booting /\ ntables = 1 /\ i = 0 /\ ndirs = 1 /\ cr3 = 0
      /\ heap_pages = 0 /\ tables[1][0] = 0 /\ tables[1][2] = 0 /\ tables[1][1] = 1
      /\ frames = 0..(0 - 1)
  BY DEF P!MapIdentity, KInv, BootMap, PagingOn, MapTypes
<1>2. /\ ntables' = 2 /\ tables' = [tables EXCEPT ![1][0] = 2] /\ P!AllocFrame(2, 0)
      /\ i' = 1 /\ UNCHANGED <<content, cr3, ndirs, heap_pages, number, paging_pc>>
  BY <1>1, KernelIndices DEF P!MapIdentity, P!AllocPage, P!cloning
<1>3. UNCHANGED <<pc, current_task, stack, parent_task, next_pid>> /\ Booting'
  BY <1>1 DEF vars, globals, forking, Booting
<1>4. tables'[1][0] = 2 /\ tables'[1][1] = 1 /\ tables'[1][2] = 0
      /\ tables' \in [P!Dir -> [P!TableIdx -> Nat]]
  BY <1>1, <1>2, KernelIndices DEF KInv, MapTypes
<1>5. 2 \in P!Table /\ \A t \in P!Table : page[t][0] = P!Unmapped
  BY <1>1, KernelIndices DEF KInv, BootMap, PagingOn
<1>6. /\ frames' = 0..0 /\ page'[2][0] = P!Mapped(0)
      /\ \A u \in P!Table : u # 2 => page'[u][0] = page[u][0]
      /\ page' \in [P!Table -> [P!Page -> Entry]]
  <2>1. 0 \in Nat /\ 0 < NFrames
    BY KernelIndices
  <2>. QED BY <1>1, <1>2, <1>5, <2>1, AllocFrameFacts DEF KInv
<1>7. MapTypes'
  <2>1. 2 \in 0..MaxTables /\ 1 \in 0..1
    BY KernelIndices
  <2>2. ndirs \in P!Dir /\ number \in 0..3 /\ content \in [P!Frame -> Contexts]
    BY DEF KInv, MapTypes
  <2>. QED BY <1>1, <1>2, <1>4, <1>6, <2>1, <2>2
           DEF MapTypes, P!Dir, P!TableIdx, P!Table, P!Page, P!Frame, Entry, Contexts
<1>8. BootMap'
  BY <1>1, <1>2, <1>3, <1>4, <1>5, <1>6
     DEF BootMap, PagingOn, P!Table, P!Mapped, P!Unmapped
<1>9. RunTables' /\ RunPhase'
  BY <1>1, <1>2 DEF RunTables, RunPhase, PagingOn
<1>10. StacksInv'
  BY <1>2, <1>3 DEF KInv, StacksInv, StackCopied, Context, Created, Booting
<1>. QED BY <1>7, <1>8, <1>9, <1>10 DEF KInv

LEMMA HeapPageStep ==
  ASSUME KInv, IInv, MaxPid + 2 <= NFrames, P!MapHeap, pc = "boot", UNCHANGED vars
  PROVE  KInv'
<1>1. paging_pc = "identity" /\ Booting /\ ntables = 2 /\ i = 1 /\ ndirs = 1 /\ cr3 = 0
      /\ heap_pages = 0 /\ tables[1][0] = 2 /\ tables[1][2] = 0 /\ tables[1][1] = 1
      /\ frames = 0..(1 - 1) /\ page[2][0] = P!Mapped(0)
  <2>1. paging_pc = "identity" /\ i = 1 /\ heap_pages = 0
    BY DEF P!MapHeap, KInv, BootMap, PagingOn, MapTypes
  <2>2. i + heap_pages - 1 = 1 - 1
    BY <2>1
  <2>. QED BY <2>1, <2>2 DEF KInv, BootMap, PagingOn
<1>2. /\ P!AllocFrame(1, 0) /\ heap_pages' = 1
      /\ UNCHANGED <<tables, ntables, content, cr3, ndirs, i, number, paging_pc>>
  BY <1>1, KernelIndices DEF P!MapHeap, P!AllocPage, P!cloning
<1>3. UNCHANGED <<pc, current_task, stack, parent_task, next_pid>> /\ Booting'
  BY <1>1 DEF vars, globals, forking, Booting
<1>5. 1 \in P!Table /\ 2 \in P!Table /\ \A t \in P!Table : t # 2 => page[t][0] = P!Unmapped
  BY <1>1, KernelIndices DEF KInv, BootMap, PagingOn
<1>6. /\ frames' = 0..1 /\ page'[1][0] = P!Mapped(1)
      /\ \A u \in P!Table : u # 1 => page'[u][0] = page[u][0]
      /\ page' \in [P!Table -> [P!Page -> Entry]]
  <2>1. 1 \in Nat /\ 1 < NFrames
    BY KernelIndices
  <2>. QED BY <1>1, <1>2, <1>5, <2>1, AllocFrameFacts DEF KInv
<1>7. MapTypes'
  BY <1>2, <1>6, KernelIndices
     DEF KInv, MapTypes, P!Dir, P!TableIdx, P!Table, P!Page, P!Frame, Entry, Contexts
<1>8. BootMap'
  BY <1>1, <1>2, <1>3, <1>5, <1>6 DEF BootMap, PagingOn, P!Table, P!Mapped, P!Unmapped
<1>9. RunTables' /\ RunPhase'
  BY <1>1, <1>2 DEF RunTables, RunPhase, PagingOn
<1>10. StacksInv'
  BY <1>2, <1>3 DEF KInv, StacksInv, StackCopied, Context, Created, Booting
<1>. QED BY <1>7, <1>8, <1>9, <1>10 DEF KInv

LEMMA EnablePagingStep ==
  ASSUME KInv, IInv, P!EnablePaging, pc = "boot", UNCHANGED vars
  PROVE  KInv'
<1>1. paging_pc = "identity" /\ Booting /\ ntables = 2 /\ i = 1 /\ ndirs = 1
      /\ heap_pages = 1 /\ tables[1][0] = 2 /\ tables[1][2] = 0 /\ tables[1][1] = 1
      /\ frames = 0..1 /\ page[2][0] = P!Mapped(0) /\ page[1][0] = P!Mapped(1)
  BY DEF P!EnablePaging, KInv, BootMap, PagingOn, MapTypes
<1>2. /\ ndirs' = 2 /\ cr3' = 1 /\ src' = 1 /\ dir' = 2 /\ number' = 0 /\ paging_pc' = "clone"
      /\ i' = 0 /\ UNCHANGED <<frames, tables, page, content, ntables>>
  BY <1>1, KernelIndices DEF P!EnablePaging, P!StartClone
<1>3. UNCHANGED <<pc, current_task, stack, parent_task, next_pid>> /\ Booting'
  BY <1>1 DEF vars, globals, forking, Booting
<1>4. MapTypes'
  BY <1>2, KernelIndices
     DEF KInv, MapTypes, P!Dir, P!TableIdx, P!Table, P!Page, P!Frame, Entry, Contexts
<1>5. \A t \in P!Table : t > 2 => page[t][0] = P!Unmapped
  BY <1>1, KernelIndices DEF KInv, BootMap, PagingOn
<1>6. BootMap'
  BY <1>2 DEF BootMap, PagingOn
<1>7. RunTables'
  BY <1>1, <1>2, <1>3, <1>5, KernelIndices
     DEF RunTables, PagingOn, Given, KernelSlot, P!Table, P!Mapped, P!Unmapped
<1>8. RunPhase'
  BY <1>1, <1>2, <1>3 DEF RunPhase, PagingOn
<1>9. StacksInv'
  BY <1>2, <1>3 DEF KInv, StacksInv, StackCopied, Context, Created, Booting
<1>. QED BY <1>4, <1>6, <1>7, <1>8, <1>9 DEF KInv

\* What clone_directory copies from.
LEMMA SourceFacts ==
  ASSUME KInv, IInv, paging_pc \in {"clone", "clone_table"}, pc \in {"boot", "fork_new"}
  PROVE  /\ PagingOn /\ dir = ndirs /\ ndirs \in P!Dir \ {1} /\ ndirs \in 2..(MaxPid + 1)
         /\ src \in 1..(ndirs - 1) /\ src \in P!Dir
         /\ IF Booting THEN src = 1 /\ pc = "boot" /\ current_task = Null
            ELSE /\ src = current_task + 1 /\ pc = "fork_new" /\ current_task \in Created
                 /\ current_task # Null /\ current_task \in Pid /\ cr3 = src
                 /\ ndirs = next_pid + 1
         /\ \A n \in 0..2 : tables[src][n] = Slot(src, n) /\ tables[1][n] = KernelSlot(n)
<1>1. PagingOn /\ dir = ndirs
  BY DEF PagingOn, KInv, RunPhase
<1>2. ndirs \in 2..(MaxPid + 1) /\ ndirs \in P!Dir
  BY <1>1, KernelIndices DEF KInv, RunTables, MapTypes
<1>3. CASE Booting
  <2>1. src = 1 /\ ndirs = 2 /\ pc = "boot" /\ current_task = Null
    BY <1>1, <1>3 DEF KInv, RunPhase, Booting, IInv, Phase
  <2>2. \A n \in 0..2 : tables[1][n] = KernelSlot(n) /\ Slot(1, n) = KernelSlot(n)
    BY <1>1, <1>3 DEF KInv, RunTables, Slot
  <2>. QED BY <1>1, <1>2, <1>3, <2>1, <2>2, KernelIndices
<1>4. CASE ~Booting
  <2>1. src = Running + 1 /\ pc = "fork_new" /\ ndirs = next_pid + 1 /\ cr3 = src
    BY <1>1, <1>4 DEF KInv, RunPhase, DirectoryOf
  <2>2. current_task # Null /\ current_task \in Created /\ current_task \in Pid /\ Running = current_task
    BY <2>1 DEF IInv, Phase, TypeOK, Running
  <2>3. src \in 2..(ndirs - 1)
    BY <1>2, <2>1, <2>2 DEF Created, Pid, IInv, TypeOK
  <2>4. \A n \in 0..2 : tables[src][n] = Slot(src, n) /\ tables[1][n] = KernelSlot(n)
    BY <1>1, <1>2, <2>3 DEF KInv, RunTables
  <2>. QED BY <1>1, <1>2, <1>4, <2>1, <2>2, <2>3, <2>4, KernelIndices
<1>. QED BY <1>3, <1>4

LEMMA CloneShareStep ==
  ASSUME KInv, IInv, P!CloneShare, pc \in {"boot", "fork_new"}, UNCHANGED vars
  PROVE  KInv'
<1>1. /\ paging_pc = "clone" /\ number \in 0..2
      /\ tables[src][number] = 0 \/ tables[1][number] = tables[src][number]
      /\ tables' = [tables EXCEPT ![dir][number] = tables[src][number]]
      /\ number' = number + 1
      /\ UNCHANGED <<frames, page, content, cr3, ndirs, ntables, paging_pc, i, src, dir, table>>
  BY KernelIndices DEF P!CloneShare, P!Shares, P!Pointer
<1>2. UNCHANGED <<pc, current_task, stack, parent_task, next_pid>> /\ (Booting' <=> Booting)
  BY DEF vars, globals, forking, Booting
<1>3. /\ PagingOn /\ dir = ndirs /\ ndirs \in P!Dir \ {1} /\ ndirs \in 2..(MaxPid + 1)
      /\ src \in 1..(ndirs - 1)
      /\ Booting => pc = "boot"
      /\ tables[src][number] = Slot(src, number) /\ tables[1][number] = KernelSlot(number)
  BY <1>1, SourceFacts
<1>4. ~Booting => number # 2
  BY <1>1, <1>3 DEF Slot, KernelSlot
<1>5. Slot(src, number) = Slot(ndirs, number) /\ Slot(src, number) \in Nat
  BY <1>1, <1>3, <1>4 DEF Slot, KernelSlot
<1>6. /\ tables' \in [P!Dir -> [P!TableIdx -> Nat]]
      /\ \A e \in P!Dir : \A m \in 0..2 :
           tables'[e][m] = IF e = ndirs /\ m = number THEN Slot(ndirs, number) ELSE tables[e][m]
  <2>1. number \in 0..2 /\ MapTypes /\ ndirs \in P!Dir /\ Slot(ndirs, number) \in Nat
    BY <1>1, <1>3, <1>5 DEF KInv
  <2>2. tables' = [tables EXCEPT ![ndirs][number] = Slot(ndirs, number)]
    BY <1>1, <1>3, <1>5
  <2>. QED BY ONLY <2>1, <2>2, KernelIndices DEF MapTypes
<1>7. MapTypes'
  BY <1>1, <1>6
     DEF KInv, MapTypes, P!Dir, P!TableIdx, P!Table, P!Page, P!Frame, Entry, Contexts
<1>8. BootMap'
  BY <1>1, <1>3 DEF BootMap, PagingOn
<1>9. RunTables'
  <2>1. \A n \in 0..2 : tables'[1][n] = KernelSlot(n)
    <3>1. 1 \in P!Dir /\ 1 # ndirs
      BY <1>3, KernelIndices
    <3>2. \A n \in 0..2 : tables'[1][n] = tables[1][n]
      BY <1>6, <3>1
    <3>. QED BY <1>3, <3>2 DEF KInv, RunTables
  <2>2. ASSUME NEW d \in 2..ndirs, NEW n \in 0..2, d < ndirs \/ n < number + 1
        PROVE  tables'[d][n] = Slot(d, n)
    <3>1. d \in P!Dir /\ (d < ndirs \/ n < number \/ (d = ndirs /\ n = number))
      BY <1>1, <1>3, <2>2, KernelIndices
    <3>2. CASE d = ndirs /\ n = number
      BY <1>6, <3>1, <3>2
    <3>3. CASE ~(d = ndirs /\ n = number)
      <4>1. tables'[d][n] = tables[d][n]
        BY <1>6, <3>1, <3>3
      <4>2. tables[d][n] = Slot(d, n)
        BY <1>3, <3>1, <3>3 DEF KInv, RunTables
      <4>. QED BY <4>1, <4>2
    <3>. QED BY <3>2, <3>3
  <2>3. Given' = Given /\ \A d, n : Slot(d, n)' = Slot(d, n)
    BY <1>1, <1>2 DEF Given, Slot, KernelSlot
  <2>4. \A n : KernelSlot(n)' = KernelSlot(n)
    BY DEF KernelSlot
  <2>. QED BY <1>1, <1>3, <2>1, <2>2, <2>3, <2>4
              DEF KInv, RunTables, PagingOn, P!Table, P!Mapped, P!Unmapped
<1>10. RunPhase'
  BY <1>1, <1>2, <1>3, <1>4 DEF KInv, RunPhase, PagingOn, DirectoryOf, Running
<1>11. ~StackCopied'
  BY <1>1, <1>2, <1>3, <1>4 DEF StackCopied
<1>12. StacksInv'
  BY <1>1, <1>2, <1>11 DEF KInv, StacksInv, Context, Created
<1>. QED BY <1>7, <1>8, <1>9, <1>10, <1>12 DEF KInv

LEMMA CloneTableStep ==
  ASSUME KInv, IInv, P!CloneTable, pc \in {"boot", "fork_new"}, UNCHANGED vars
  PROVE  KInv'
<1>1. /\ paging_pc = "clone" /\ number \in 0..2 /\ ntables < MaxTables
      /\ tables[src][number] # 0 /\ tables[1][number] # tables[src][number]
      /\ ntables' = ntables + 1 /\ table' = ntables + 1 /\ i' = 0 /\ paging_pc' = "clone_table"
      /\ UNCHANGED <<frames, tables, page, content, cr3, ndirs, src, dir, number>>
  BY KernelIndices DEF P!CloneTable, P!Shares, P!Pointer, P!ClearsNothing,
     P!ClearsEntry, P!ClearsPointer
<1>2. UNCHANGED <<pc, current_task, stack, parent_task, next_pid>> /\ (Booting' <=> Booting)
  BY DEF vars, globals, forking, Booting
<1>3. /\ PagingOn /\ dir = ndirs
      /\ Booting => src = 1
      /\ tables[src][number] = Slot(src, number) /\ tables[1][number] = KernelSlot(number)
  BY <1>1, SourceFacts
<1>4. ~Booting /\ number = 2
  BY <1>1, <1>3 DEF Slot, KernelSlot
<1>5. ntables = ndirs /\ Given = ntables /\ Given' = Given
  BY <1>1, <1>3, <1>4, KernelIndices DEF KInv, RunPhase, Given, MapTypes
<1>6. MapTypes'
  <2>1. ntables + 1 \in 0..MaxTables
    BY <1>1, KernelIndices DEF KInv, MapTypes
  <2>. QED BY <1>1, <2>1
              DEF KInv, MapTypes, P!Dir, P!TableIdx, P!Table, P!Page, P!Frame, Entry,
                  Contexts
<1>7. BootMap'
  BY <1>1 DEF BootMap, PagingOn
<1>8. RunTables'
  <2>1. \A d, n : Slot(d, n)' = Slot(d, n) /\ KernelSlot(n)' = KernelSlot(n)
    BY <1>2 DEF Slot, KernelSlot
  <2>. QED BY <1>1, <1>3, <1>5, <2>1
              DEF KInv, RunTables, PagingOn, P!Table, P!Mapped, P!Unmapped
<1>9. RunPhase'
  BY <1>1, <1>2, <1>3, <1>4, <1>5 DEF KInv, RunPhase, PagingOn, DirectoryOf, Running
<1>10. ~StackCopied'
  BY <1>1 DEF StackCopied
<1>11. StacksInv'
  BY <1>1, <1>2, <1>10 DEF KInv, StacksInv, Context, Created
<1>. QED BY <1>6, <1>7, <1>8, <1>9, <1>11 DEF KInv

LEMMA CloneTableDoneStep ==
  ASSUME KInv, IInv, P!CloneTableDone, pc \in {"boot", "fork_new"}, UNCHANGED vars
  PROVE  KInv'
<1>1. /\ paging_pc = "clone_table" /\ i = 1 /\ tables' = [tables EXCEPT ![dir][number] = table]
      /\ number' = number + 1 /\ paging_pc' = "clone" /\ i' = 0
      /\ UNCHANGED <<frames, page, content, cr3, ndirs, ntables, src, dir, table>>
  BY DEF P!CloneTableDone
<1>2. UNCHANGED <<pc, current_task, stack, parent_task, next_pid>> /\ (Booting' <=> Booting)
  BY DEF vars, globals, forking, Booting
<1>3. PagingOn /\ dir = ndirs /\ ndirs \in P!Dir \ {1} /\ ndirs \in 2..(MaxPid + 1)
  BY <1>1, SourceFacts
<1>4. number = 2 /\ ~Booting /\ table = ndirs + 1 /\ ntables = ndirs + 1
      /\ Given = ntables /\ Given' = Given /\ pc = "fork_new"
  BY <1>1, <1>3 DEF KInv, RunPhase, Given
<1>5. Slot(ndirs, 2) = table /\ Slot(ndirs, 2) \in Nat
  BY <1>3, <1>4 DEF Slot
<1>6. /\ tables' \in [P!Dir -> [P!TableIdx -> Nat]]
      /\ \A e \in P!Dir : \A m \in 0..2 :
           tables'[e][m] = IF e = ndirs /\ m = number THEN Slot(ndirs, 2) ELSE tables[e][m]
  <2>1. number \in 0..2 /\ MapTypes /\ ndirs \in P!Dir /\ Slot(ndirs, 2) \in Nat
    BY <1>3, <1>4, <1>5 DEF KInv
  <2>2. tables' = [tables EXCEPT ![ndirs][number] = Slot(ndirs, 2)]
    BY <1>1, <1>3, <1>5
  <2>. QED BY ONLY <2>1, <2>2, KernelIndices DEF MapTypes
<1>7. MapTypes'
  BY <1>1, <1>4, <1>6
     DEF KInv, MapTypes, P!Dir, P!TableIdx, P!Table, P!Page, P!Frame, Entry, Contexts
<1>8. BootMap'
  BY <1>1, <1>3 DEF BootMap, PagingOn
<1>9. RunTables'
  <2>1. \A n \in 0..2 : tables'[1][n] = KernelSlot(n)
    <3>1. 1 \in P!Dir /\ 1 # ndirs
      BY <1>3, KernelIndices
    <3>2. \A n \in 0..2 : tables'[1][n] = tables[1][n]
      BY <1>6, <3>1
    <3>. QED BY <1>3, <3>2 DEF KInv, RunTables
  <2>2. ASSUME NEW d \in 2..ndirs, NEW n \in 0..2, d < ndirs \/ n < number + 1
        PROVE  tables'[d][n] = Slot(d, n)
    <3>1. d \in P!Dir /\ (d < ndirs \/ n < number \/ (d = ndirs /\ n = number))
      BY <1>1, <1>3, <1>4, <2>2, KernelIndices
    <3>2. CASE d = ndirs /\ n = number
      BY <1>6, <3>1, <3>2, <1>4
    <3>3. CASE ~(d = ndirs /\ n = number)
      <4>1. tables'[d][n] = tables[d][n]
        BY <1>6, <3>1, <3>3
      <4>2. tables[d][n] = Slot(d, n)
        BY <1>3, <3>1, <3>3 DEF KInv, RunTables
      <4>. QED BY <4>1, <4>2
    <3>. QED BY <3>2, <3>3
  <2>3. \A d, n : Slot(d, n)' = Slot(d, n) /\ KernelSlot(n)' = KernelSlot(n)
    BY <1>2 DEF Slot, KernelSlot
  <2>. QED BY <1>1, <1>3, <1>4, <2>1, <2>2, <2>3
           DEF KInv, RunTables, PagingOn, P!Table, P!Mapped, P!Unmapped
<1>10. RunPhase'
  BY <1>1, <1>2, <1>3, <1>4 DEF KInv, RunPhase, PagingOn, DirectoryOf, Running
<1>11. StackCopied' <=> StackCopied
  BY <1>1, <1>2, <1>4 DEF StackCopied
<1>12. StacksInv'
  BY <1>1, <1>2, <1>11 DEF KInv, StacksInv, Context, Created
<1>. QED BY <1>7, <1>8, <1>9, <1>10, <1>12 DEF KInv

LEMMA CloneDoneStep ==
  ASSUME KInv, IInv, P!CloneDone, pc \in {"boot", "fork_new"}, UNCHANGED vars
  PROVE  KInv'
<1>1. /\ paging_pc = "clone" /\ number = 3 /\ paging_pc' = "run" /\ number' = 0
      /\ cr3' = IF src = 1 THEN dir ELSE cr3
      /\ UNCHANGED <<frames, tables, page, content, ndirs, ntables, i>>
  BY KernelIndices DEF P!CloneDone, KInv, MapTypes
<1>2. UNCHANGED <<pc, current_task, stack, parent_task, next_pid>> /\ (Booting' <=> Booting)
  BY DEF vars, globals, forking, Booting
<1>3. /\ PagingOn /\ dir = ndirs /\ ndirs \in 2..(MaxPid + 1)
      /\ Booting => src = 1 /\ pc = "boot"
      /\ ~Booting => src = current_task + 1 /\ current_task \in Pid /\ pc = "fork_new"
                     /\ ndirs = next_pid + 1
  BY <1>1, SourceFacts
<1>4. MapTypes'
  BY <1>1
     DEF KInv, MapTypes, P!Dir, P!TableIdx, P!Table, P!Page, P!Frame, Entry, Contexts
<1>5. BootMap'
  BY <1>1 DEF BootMap, PagingOn
<1>6. RunTables'
  <2>1. \A d, n : Slot(d, n)' = Slot(d, n) /\ KernelSlot(n)' = KernelSlot(n)
    BY <1>2 DEF Slot, KernelSlot
  <2>2. Given' = Given
    BY <1>1 DEF Given
  <2>. QED BY <1>1, <1>3, <2>1, <2>2
              DEF KInv, RunTables, PagingOn, P!Table, P!Mapped, P!Unmapped
<1>7. RunPhase'
  BY <1>1, <1>2, <1>3 DEF KInv, RunPhase, PagingOn, DirectoryOf, Running, Pid
<1>8. StackCopied' <=> StackCopied
  BY <1>1, <1>2, <1>3 DEF StackCopied
<1>9. StacksInv'
  BY <1>1, <1>2, <1>8 DEF KInv, StacksInv, Context, Created
<1>. QED BY <1>4, <1>5, <1>6, <1>7, <1>9 DEF KInv

LEMMA ClonePageStep ==
  ASSUME KInv, IInv, MaxPid + 2 <= NFrames, P!ClonePage, pc \in {"boot", "fork_new"},
         UNCHANGED vars
  PROVE  KInv'
<1>1. /\ paging_pc = "clone_table" /\ i = 0 /\ i' = 1
      /\ UNCHANGED <<tables, cr3, ndirs, ntables, paging_pc, src, dir, number, table>>
  <2>1. i \in 0..1 /\ i < 1
    BY DEF P!ClonePage, KInv, MapTypes
  <2>. QED BY <2>1 DEF P!ClonePage, P!cloning
<1>2. UNCHANGED <<pc, current_task, stack, parent_task, next_pid>> /\ (Booting' <=> Booting)
  BY DEF vars, globals, forking, Booting
<1>3. PagingOn /\ ndirs \in 2..(MaxPid + 1) /\ number = 2 /\ ~Booting /\ table = ndirs + 1
      /\ ntables = ndirs + 1 /\ Given = ndirs /\ Given' = ndirs + 1
  <2>1. PagingOn /\ ndirs \in 2..(MaxPid + 1)
    BY <1>1, SourceFacts
  <2>. QED BY <1>1, <2>1 DEF KInv, RunPhase, Given
<1>4. /\ src = current_task + 1 /\ src \in 1..(ndirs - 1) /\ pc = "fork_new" /\ current_task \in Pid
      /\ current_task # Null /\ current_task \in Created /\ ndirs = next_pid + 1
      /\ tables[src][2] = src + 1
  <2>1. 2 \in 0..2
    OBVIOUS
  <2>2. tables[src][2] = Slot(src, 2) /\ src \in 1..(ndirs - 1)
        /\ src = current_task + 1 /\ pc = "fork_new" /\ current_task \in Pid
        /\ current_task # Null /\ current_task \in Created /\ ndirs = next_pid + 1
    BY <1>1, <1>3, <2>1, SourceFacts
  <2>. QED BY <1>3, <2>2 DEF Slot
<1>5. ndirs + 1 \in P!Table /\ src + 1 \in P!Table /\ ndirs \in P!Frame /\ src \in P!Frame
      /\ src + 1 > 2 /\ src + 1 <= Given
  <2>1. ntables \in 0..MaxTables
    BY DEF KInv, MapTypes
  <2>. QED BY <1>3, <1>4, <2>1, KernelIndices DEF Pid
<1>6. page[src + 1][0] = P!Mapped(src) /\ page[ndirs + 1][0] = P!Unmapped
      /\ frames = 0..(ndirs - 1)
  <2>1. \A t \in P!Table : t > 2 =>
           page[t][0] = IF t <= Given THEN P!Mapped(t - 1) ELSE P!Unmapped
    BY <1>3 DEF KInv, RunTables
  <2>2. frames = 0..(Given - 1)
    BY <1>3 DEF KInv, RunTables
  <2>3. page[src + 1][0] = P!Mapped(src)
    <3>1. ASSUME NEW t \in P!Table, t = src + 1  PROVE page[t][0] = P!Mapped(src)
      <4>1. t > 2 /\ t <= Given /\ t - 1 = src
        BY <1>3, <1>4, <1>5, <3>1
      <4>. QED BY <2>1, <4>1
    <3>. QED BY <1>5, <3>1
  <2>4. page[ndirs + 1][0] = P!Unmapped
    BY <1>3, <1>5, <2>1
  <2>. QED BY <1>3, <2>2, <2>3, <2>4
<1>7. /\ P!AllocFrame(ndirs + 1, 0)
      /\ content' = [content EXCEPT ![page'[ndirs + 1][0].frame] = content[src]]
  BY <1>1, <1>3, <1>4, <1>6 DEF P!ClonePage, P!Mapped
<1>8. /\ frames' = 0..ndirs /\ page'[ndirs + 1][0] = P!Mapped(ndirs)
      /\ \A u \in P!Table : u # ndirs + 1 => page'[u][0] = page[u][0]
      /\ page' \in [P!Table -> [P!Page -> Entry]]
  <2>1. ndirs \in Nat /\ ndirs < NFrames
    BY <1>3, KernelIndices
  <2>2. P!FirstFrame = ndirs
    BY <1>6, <2>1, FirstFrameFacts
  <2>3. frames' = frames \cup {ndirs} /\ page' = [page EXCEPT ![ndirs + 1][0] = P!Mapped(ndirs)]
    BY <1>6, <1>7, <2>2 DEF P!AllocFrame, P!Unmapped
  <2>4. P!Mapped(ndirs) \in Entry /\ 0 \in P!Page
    BY <2>1, KernelIndices DEF P!Mapped, Entry
  <2>5. frames' = 0..ndirs
    BY <1>6, <2>1, <2>3
  <2>. QED BY <1>5, <2>3, <2>4, <2>5 DEF KInv, MapTypes
<1>9. content' = [content EXCEPT ![ndirs] = content[src]]
  BY <1>7, <1>8 DEF P!Mapped
<1>10. MapTypes'
  <2>1. content' \in [P!Frame -> Contexts]
    BY <1>5, <1>9 DEF KInv, MapTypes
  <2>2. 1 \in 0..1
    OBVIOUS
  <2>. QED BY <1>1, <1>8, <2>1, <2>2
           DEF KInv, MapTypes, P!Dir, P!TableIdx, P!Table, P!Page, P!Frame, Entry,
               Contexts
<1>11. BootMap'
  BY <1>1, <1>3 DEF BootMap, PagingOn
<1>12. RunTables'
  <2>1. \A d, n : Slot(d, n)' = Slot(d, n) /\ KernelSlot(n)' = KernelSlot(n)
    BY <1>2 DEF Slot, KernelSlot
  <2>2. ASSUME NEW t \in P!Table, t > 2
        PROVE  page'[t][0] = IF t <= ndirs + 1 THEN P!Mapped(t - 1) ELSE P!Unmapped
    <3>1. CASE t = ndirs + 1
      <4>1. t - 1 = ndirs /\ t <= ndirs + 1
        BY <1>3, <3>1
      <4>. QED BY <1>8, <3>1, <4>1
    <3>2. CASE t # ndirs + 1
      <4>1. page'[t][0] = page[t][0] /\ (t <= ndirs <=> t <= ndirs + 1)
        BY <1>3, <1>8, <2>2, <3>2, KernelIndices
      <4>2. page[t][0] = IF t <= ndirs THEN P!Mapped(t - 1) ELSE P!Unmapped
        BY <1>3, <2>2 DEF KInv, RunTables
      <4>. QED BY <4>1, <4>2
    <3>. QED BY <3>1, <3>2
  <2>3. page'[1][0] = P!Mapped(1) /\ page'[2][0] = P!Mapped(0)
    <3>1. 1 \in P!Table /\ 2 \in P!Table /\ 1 # ndirs + 1 /\ 2 # ndirs + 1
      BY <1>3, KernelIndices
    <3>. QED BY <1>3, <1>8, <3>1 DEF KInv, RunTables
  <2>4. frames' = 0..(Given' - 1)
    <3>1. ndirs + 1 - 1 = ndirs
      BY <1>3
    <3>. QED BY <1>3, <1>8, <3>1
  <2>. QED BY <1>1, <1>3, <2>1, <2>2, <2>3, <2>4
           DEF KInv, RunTables, PagingOn, P!Table, P!Mapped, P!Unmapped
<1>13. RunPhase'
  BY <1>1, <1>2, <1>3 DEF KInv, RunPhase, PagingOn, DirectoryOf, Running
<1>14. content'[ndirs] = content[src] /\ \A f \in P!Frame : f # ndirs => content'[f] = content[f]
  BY <1>5, <1>9 DEF KInv, MapTypes
<1>15. StacksInv'
  <2>1. content[src] = Context(current_task)
    BY <1>4 DEF KInv, StacksInv
  <2>2. content'[ndirs] = Context(current_task)
    BY <1>14, <2>1
  <2>3. ASSUME NEW t \in Pid, t = 1 \/ t \in Created  PROVE content'[t + 1] = Context(t)
    <3>1. t + 1 \in P!Frame /\ t + 1 # ndirs
      BY <1>3, <1>4, <2>3, KernelIndices DEF Created, Pid, IInv, TypeOK
    <3>2. content[t + 1] = Context(t)
      BY <1>4, <2>3 DEF KInv, StacksInv
    <3>. QED BY <1>14, <3>1, <3>2
  <2>4. \A t : Context(t)' = Context(t)
    BY <1>2 DEF Context
  <2>. QED BY <1>1, <1>2, <1>4, <2>2, <2>3, <2>4 DEF StacksInv, Created, Context
<1>. QED BY <1>10, <1>11, <1>12, <1>13, <1>15 DEF KInv

LEMMA ForkDirectoryStep ==
  ASSUME KInv, IInv, ForkDirectory
  PROVE  KInv'
<1>1. /\ pc = "fork_new" /\ ndirs # next_pid + 1 /\ paging_pc = "run" /\ ndirs < MaxPid + 1
      /\ ndirs' = ndirs + 1 /\ src' = cr3 /\ dir' = ndirs + 1 /\ number' = 0
      /\ paging_pc' = "clone"
      /\ UNCHANGED <<frames, tables, page, content, cr3, ntables, heap_pages, i>>
  BY DEF ForkDirectory, Copied, DirectoryOf, P!ForkClone, P!StartClone
<1>2. UNCHANGED <<pc, current_task, stack, parent_task, next_pid>> /\ (Booting' <=> Booting)
  BY DEF ForkDirectory, vars, globals, forking, Booting
<1>3. PagingOn /\ ~Booting /\ current_task # Null
  BY <1>1 DEF PagingOn, Booting, IInv, Phase
<1>4. ndirs = next_pid /\ ntables = ndirs + 1 /\ cr3 = Running + 1 /\ ndirs >= 2
  BY <1>1, <1>3 DEF KInv, RunPhase, RunTables, DirectoryOf
<1>5. MapTypes'
  <2>1. ndirs + 1 \in P!Dir /\ 0 \in 0..3
    BY <1>1, KernelIndices DEF KInv, MapTypes
  <2>. QED BY <1>1, <2>1
           DEF KInv, MapTypes, P!Dir, P!TableIdx, P!Table, P!Page, P!Frame, Entry,
               Contexts
<1>6. BootMap'
  BY <1>1 DEF BootMap, PagingOn
<1>7. RunTables'
  <2>1. \A d, n : Slot(d, n)' = Slot(d, n) /\ KernelSlot(n)' = KernelSlot(n)
    BY <1>2 DEF Slot, KernelSlot
  <2>2. Given' = Given
    BY <1>1 DEF Given
  <2>3. ASSUME NEW d \in 2..(ndirs + 1), NEW n \in 0..2, d < ndirs + 1 \/ n < 0
        PROVE  tables[d][n] = Slot(d, n)
    <3>1. d \in 2..ndirs
      BY <1>4, <2>3, KernelIndices DEF KInv, MapTypes
    <3>. QED BY <1>1, <1>3, <3>1 DEF KInv, RunTables
  <2>4. \A t \in P!Table : t > 2 =>
           page[t][0] = IF t <= Given THEN P!Mapped(t - 1) ELSE P!Unmapped
    BY <1>3 DEF KInv, RunTables
  <2>5. /\ ndirs + 1 >= 2 /\ \A n \in 0..2 : tables[1][n] = KernelSlot(n)
        /\ page[1][0] = P!Mapped(1) /\ page[2][0] = P!Mapped(0) /\ frames = 0..(Given - 1)
    BY <1>1, <1>3 DEF KInv, RunTables, MapTypes, P!Dir
  <2>. QED BY <1>1, <2>1, <2>2, <2>3, <2>4, <2>5
           DEF RunTables, PagingOn, P!Table, P!Mapped, P!Unmapped
<1>8. RunPhase'
  BY <1>1, <1>2, <1>3, <1>4 DEF KInv, RunPhase, PagingOn, DirectoryOf, Running
<1>9. ~StackCopied'
  BY <1>1 DEF StackCopied
<1>10. StacksInv'
  BY <1>1, <1>2, <1>9 DEF KInv, StacksInv, Context, Created
<1>. QED BY <1>5, <1>6, <1>7, <1>8, <1>10 DEF KInv

\* move_stack maps the page of the new stack of the boot code.
LEMMA MoveStackMapStep ==
  ASSUME KInv, IInv, MaxPid + 2 <= NFrames, MoveStackMap
  PROVE  KInv'
<1>1. /\ pc = "boot" /\ pc' = "init_publish" /\ paging_pc = "run"
      /\ UNCHANGED <<current_task, stack, parent_task, next_pid>>
      /\ UNCHANGED <<content, cr3, ndirs, heap_pages, paging_pc, i, src, dir, number, table>>
      /\ P!AllocPage(cr3, 2, 0)
  BY DEF MoveStackMap, InitCli, P!MapStack, P!cloning, StackTable, globals, forking
<1>2. PagingOn /\ Booting /\ ~Booting' /\ current_task = Null /\ next_pid = 1 /\ Running = 1
  BY <1>1 DEF PagingOn, Booting, IInv, Phase, Running
<1>3. ndirs = 2 /\ ntables = 2 /\ cr3 = 2 /\ Given = 2
  BY <1>1, <1>2 DEF KInv, RunPhase, Given
<1>4. \A d \in 1..2 : \A n \in 0..2 : tables[d][n] = KernelSlot(n)
  <2>1. \A n \in 0..2 : tables[1][n] = KernelSlot(n)
    BY <1>2 DEF KInv, RunTables
  <2>2. \A n \in 0..2 : tables[2][n] = KernelSlot(n)
    BY <1>1, <1>2, <1>3 DEF KInv, RunTables, Slot
  <2>. QED BY <2>1, <2>2
<1>5. tables[2][2] = 0
  BY <1>4 DEF KernelSlot
<1>6. /\ 3 <= MaxTables /\ ntables' = 3 /\ tables' = [tables EXCEPT ![2][2] = 3]
      /\ P!AllocFrame(3, 0)
  BY <1>1, <1>3, <1>5, KernelIndices DEF P!AllocPage
<1>7. 3 \in P!Table /\ \A t \in P!Table : t > 2 => page[t][0] = P!Unmapped
  BY <1>2, <1>3, <1>6, KernelIndices DEF KInv, RunTables
<1>8. frames = 0..(2 - 1)
  BY <1>2, <1>3 DEF KInv, RunTables
<1>9. /\ frames' = 0..2 /\ page'[3][0] = P!Mapped(2)
      /\ \A u \in P!Table : u # 3 => page'[u][0] = page[u][0]
      /\ page' \in [P!Table -> [P!Page -> Entry]]
  <2>1. 2 \in Nat /\ 2 < NFrames /\ page[3][0] = P!Unmapped
    BY <1>7, KernelIndices
  <2>. QED BY <1>6, <1>7, <1>8, <2>1, AllocFrameFacts DEF KInv
<1>10. /\ tables' \in [P!Dir -> [P!TableIdx -> Nat]]
       /\ \A d \in P!Dir : \A n \in 0..2 :
            tables'[d][n] = IF d = 2 /\ n = 2 THEN 3 ELSE tables[d][n]
  BY <1>6, KernelIndices DEF KInv, MapTypes
<1>11. MapTypes'
  <2>1. 3 \in 0..MaxTables
    BY <1>6, KernelIndices
  <2>. QED BY <1>1, <1>6, <1>9, <1>10, <2>1
           DEF KInv, MapTypes, P!Dir, P!TableIdx, P!Table, P!Page, P!Frame, Entry,
               Contexts
<1>12. BootMap'
  BY <1>1 DEF BootMap, PagingOn
<1>13. RunTables'
  <2>1. Given' = 3
    BY <1>1, <1>6 DEF Given
  <2>2. \A n \in 0..2 : tables'[1][n] = KernelSlot(n)
    BY <1>4, <1>10, KernelIndices
  <2>3. \A d \in 2..2 : \A n \in 0..2 : tables'[d][n] = IF n = 2 THEN d + 1 ELSE KernelSlot(n)
    BY <1>4, <1>10, KernelIndices
  <2>4. page'[1][0] = P!Mapped(1) /\ page'[2][0] = P!Mapped(0)
    BY <1>2, <1>9, KernelIndices DEF KInv, RunTables
  <2>5. ASSUME NEW t \in P!Table, t > 2
        PROVE  page'[t][0] = IF t <= 3 THEN P!Mapped(t - 1) ELSE P!Unmapped
    <3>1. CASE t = 3
      <4>1. t - 1 = 2
        BY <3>1
      <4>. QED BY <1>9, <3>1, <4>1
    <3>2. CASE t # 3
      BY <1>7, <1>9, <2>5, <3>2, KernelIndices
    <3>. QED BY <3>1, <3>2
  <2>6. \A d, n : Slot(d, n)' = IF n = 2 THEN d + 1 ELSE KernelSlot(n)
    BY <1>2 DEF Slot, KernelSlot
  <2>7. \A n : KernelSlot(n)' = KernelSlot(n)
    BY DEF KernelSlot
  <2>8. frames' = 0..(3 - 1) /\ ndirs' = 2
    BY <1>1, <1>3, <1>9
  <2>. QED BY <2>1, <2>2, <2>3, <2>4, <2>5, <2>6, <2>7, <2>8
           DEF RunTables, P!Table, P!Mapped, P!Unmapped
<1>14. RunPhase'
  BY <1>1, <1>2, <1>3, <1>6 DEF RunPhase, PagingOn, DirectoryOf, Running
<1>15. ~StackCopied'
  BY <1>1 DEF StackCopied
<1>16. StacksInv'
  BY <1>1, <1>2, <1>15 DEF KInv, StacksInv, Context
<1>. QED BY <1>11, <1>12, <1>13, <1>14, <1>16 DEF KInv

LEMMA KInvInit ==
  ASSUME MaxPid + 2 <= NFrames, KernelInit
  PROVE  KInv
<1>1. /\ pc = "boot" /\ current_task = Null /\ next_pid = 1 /\ parent_task[1] = Null
      /\ stack[1] = <<>>
  BY BoundsAssumption DEF KernelInit, Init, Pid
<1>2. /\ frames = {} /\ content = [f \in P!Frame |-> Unstarted]
      /\ tables = [d \in P!Dir |-> [n \in P!TableIdx |-> 0]]
      /\ page = [t \in P!Table |-> [p \in P!Page |-> P!Unmapped]]
      /\ cr3 = 0 /\ ndirs = 1 /\ ntables = 0 /\ heap_pages = 0
      /\ paging_pc = "heap_tables" /\ i = 0 /\ number = 0
  <2>1. frames \in SUBSET {f \in P!Frame : f >= NFrames}
    BY DEF KernelInit, P!Init
  <2>2. frames = {}
    BY <2>1, KernelIndices
  <2>. QED BY <2>2, KernelIndices DEF KernelInit, P!Init
<1>3. Unstarted \in Contexts /\ P!Unmapped \in Entry /\ Unstarted = Context(1)
  <2>1. <<>> \in Seq(Labels) /\ Null \in Links
    BY DEF Links
  <2>. QED BY <1>1, <2>1 DEF Unstarted, Contexts, P!Unmapped, Entry, Context
<1>4. MapTypes
  <2>1. 1 \in P!Dir /\ 0 \in 0..MaxTables /\ 0 \in 0..1 /\ 0 \in 0..3 /\ 0 \in Nat
    BY KernelIndices
  <2>. QED BY <1>2, <1>3, <2>1 DEF MapTypes
<1>5. BootMap
  <2>1. 1 \in P!Dir /\ 0 \in P!TableIdx /\ 2 \in P!TableIdx /\ 0 \in P!Page
    BY KernelIndices
  <2>2. frames = 0..(0 + 0 - 1)
    BY <1>2
  <2>. QED BY <1>1, <1>2, <2>1, <2>2 DEF BootMap, Booting, PagingOn
<1>6. RunTables /\ RunPhase
  BY <1>2 DEF RunTables, RunPhase, PagingOn
<1>7. content[0] = Context(1)
  <2>1. 0 \in P!Frame
    BY KernelIndices
  <2>. QED BY <1>2, <1>3, <2>1
<1>. QED BY <1>1, <1>2, <1>3, <1>4, <1>5, <1>6, <1>7 DEF KInv, StacksInv, StackCopied

LEMMA KInvStep ==
  ASSUME MaxPid + 2 <= NFrames, IInv, IInv', KInv, [KernelNext]_kernel_vars
  PROVE  KInv'
<1>1. CASE KernelTick
  BY <1>1, KernelTickStep
<1>2. CASE BootTick
  BY <1>2, BootTickStep
<1>3. CASE InitialisePaging
  BY <1>3, HeapTablesStep, IdentityStep, HeapPageStep, EnablePagingStep
     DEF InitialisePaging
<1>4. CASE CloneDirectory
  BY <1>4, CloneShareStep, CloneTableStep, ClonePageStep, CloneTableDoneStep,
     CloneDoneStep
     DEF CloneDirectory
<1>5. CASE MoveStackMap
  BY <1>5, MoveStackMapStep
<1>6. CASE MoveStackCopy
  BY <1>6, MoveStackCopyStep
<1>7. CASE Stores(InitFields)
  BY <1>7, KernelInitFieldsStep
<1>8. CASE ForkDirectory
  BY <1>8, ForkDirectoryStep
<1>9. CASE Stores(ForkTask)
  BY <1>9, ForkTaskStep
<1>10. CASE Stores(ForkCli) \/ Stores(ForkWalk) \/ Stores(ForkLink) \/ Stores(ForkParent) \/ EndFork
  BY <1>10, ForkStoreStep
<1>11. CASE Return
  BY <1>11, ReturnStep
<1>12. CASE UNCHANGED kernel_vars
  <2>1. UNCHANGED <<mapping, content, cr3>>
        /\ UNCHANGED <<current_task, pc, stack, parent_task, next_pid>>
    BY <1>12 DEF kernel_vars, vars, globals, forking
  <2>2. MapTypes'
    BY <2>1
       DEF KInv, MapTypes, mapping, P!Dir, P!TableIdx, P!Table, P!Page, P!Frame, Entry,
           Contexts
  <2>3. BootMap' /\ RunTables'
    BY <2>1, TablesKept DEF Booting
  <2>4. RunPhase'
    BY <2>1 DEF KInv, RunPhase, mapping, PagingOn, Booting, DirectoryOf, Running
  <2>5. StacksInv'
    BY <2>1 DEF KInv, StacksInv, StackCopied, mapping, Context, Created
  <2>. QED BY <2>2, <2>3, <2>4, <2>5 DEF KInv
<1>. QED BY <1>1, <1>2, <1>3, <1>4, <1>5, <1>6, <1>7, <1>8, <1>9, <1>10, <1>11, <1>12
         DEF KernelNext, KernelInterrupt, KernelProgress

\* What a task left on its stack is there when it runs again, and a new task
\* starts with what its forker had, in a memory with a frame for each stack
\* besides those of the low memory and of the heap.
THEOREM StacksTheorem == MaxPid + 2 <= NFrames => (KernelSpec => []StackHoldsTask)
<1>. SUFFICES ASSUME MaxPid + 2 <= NFrames  PROVE KernelSpec => []StackHoldsTask
  OBVIOUS
<1>1. KernelInit => KInv
  BY KInvInit
<1>2. IInv /\ IInv' /\ KInv /\ [KernelNext]_kernel_vars => KInv'
  BY KInvStep
<1>3. IInv /\ KInv => StackHoldsTask
  <2>. SUFFICES ASSUME IInv, KInv, NEW t \in Created
                PROVE  content[StackFrame(DirectoryOf(t))] =
                         [parent |-> parent_task[t], irq |-> stack[t]]
    BY DEF StackHoldsTask
  <2>1. current_task # Null /\ ~Booting /\ t \in Pid
    BY DEF IInv, Phase, TypeOK, Created, Booting, Pid
  <2>2. StackFrame(t + 1) = t + 1
    BY <2>1, TaskStack
  <2>3. content[t + 1] = Context(t)
    BY <2>1 DEF KInv, StacksInv
  <2>. QED BY <2>2, <2>3 DEF DirectoryOf, Context
<1>. QED BY <1>1, <1>2, <1>3, KernelSchedules, Invariance, PTL DEF KernelSpec

=============================================================================
