----------------------------- MODULE Interrupts -----------------------------
(***************************************************************************)
(* Interrupts from the device to the iret: the two 8259 controllers, the   *)
(* stubs of interrupt.s, isr_handler, irq_handler and the handlers that    *)
(* are registered with them.                                               *)
(*                                                                         *)
(* The controllers are what their use of ports 0x20 and 0xA0 relies on:    *)
(* irr holds the requests, in_service the lines the processor has accepted *)
(* and not yet been told the end of (EOI).  A slave's line is in service   *)
(* together with line Cascade of the master.  Line 1 is edge triggered:    *)
(* while the keyboard's output buffer holds a scan code no other comes.    *)
(*                                                                         *)
(* frames are the interrupts being handled, the last of them running.      *)
(* Bound: at most MaxNest of them.                                         *)
(***************************************************************************)
EXTENDS Naturals, Sequences, SequencesExt, FiniteSetsExt

CONSTANTS Lines,         \* those that devices raise: 0 timer, 1 keyboard, ...
          MaxNest,
          TssEntry       \* the address of tss_entry

Cascade == 2
None == "none"
Vectors == 0..255
SyscallNo == 4

ASSUME LinesAssumption == Lines \subseteq (0..15) \ {Cascade}
ASSUME InterruptBounds == MaxNest \in Nat \ {0} /\ TssEntry \in Nat

VARIABLES irr, in_service, offset,      \* requests, in service, vectors' base
          scan_code,                    \* TRUE: the keyboard has one to read
          gates, interrupt_handlers,    \* vectors with a gate; the C handlers
          intr, cpl, frames, lost,      \* the processor
          tss_base,                     \* the TSS descriptor's base
          tasking                       \* current_task is set

pic == <<irr, in_service, offset>>
tables == <<gates, interrupt_handlers, tss_base>>
interrupt_vars == <<pic, scan_code, tables, intr, cpl, frames, lost, tasking>>

BiosOffset == [master |-> 8, slave |-> 112]

InterruptsInit ==
  /\ irr = {} /\ in_service = {} /\ offset = BiosOffset
  /\ scan_code = FALSE
  /\ gates = {} /\ interrupt_handlers = [v \in Vectors |-> None]
  /\ intr = FALSE /\ cpl = 0 /\ frames = <<>> /\ lost = FALSE
  /\ tss_base = 0 /\ tasking = FALSE

-----------------------------------------------------------------------------
(* The devices and the controllers *)

Raise(l) ==
  /\ l \notin irr /\ (l = 1 => ~scan_code)
  /\ irr' = irr \cup {l}
  /\ scan_code' = (scan_code \/ l = 1)
  /\ UNCHANGED <<in_service, offset, tables, intr, cpl, frames, lost, tasking>>

IsSlave(l) == l >= 8
Level(l) == IF IsSlave(l) THEN Cascade ELSE l
Vector(l) == IF IsSlave(l) THEN offset.slave + l - 8 ELSE offset.master + l

\* Requests that nothing in service holds back.
Deliverable == {l \in irr : \A s \in in_service : Level(l) < Level(s)}

\* What a non-specific EOI to one controller ends.
EndOf(lines) == IF lines = {} THEN {} ELSE {Min(lines)}

-----------------------------------------------------------------------------
(* Entry: an interrupt gate turns interrupts off; ring 3 needs a stack *)

IsIrq(v) == v \in 32..47

Frame(v, eax) == [vector |-> v, at |-> IF IsIrq(v) THEN "eoi" ELSE "dispatch",
                  intr |-> intr, cpl |-> cpl, eax |-> eax]

\* The TSS is wherever the descriptor says.  tss_entry's esp0 is 0 (main.c
\* calls set_kernel_stack nowhere); elsewhere in low memory anything may lie.
KernelStack == IF tss_base = TssEntry THEN {FALSE} ELSE BOOLEAN

Enter(v, eax) ==
  \E stack \in IF cpl = 3 THEN KernelStack ELSE {TRUE} :
    IF v \in gates /\ stack
    THEN /\ frames' = Append(frames, Frame(v, eax))
         /\ intr' = FALSE /\ cpl' = 0
         /\ UNCHANGED lost
    ELSE /\ lost' = TRUE
         /\ UNCHANGED <<frames, intr, cpl>>

Accept(l) ==
  /\ intr /\ ~lost /\ Len(frames) < MaxNest
  /\ l \in Deliverable /\ l = Min(Deliverable)
  /\ irr' = irr \ {l}
  /\ in_service' = in_service \cup {l, Level(l)}
  /\ Enter(Vector(l), 0)
  /\ UNCHANGED <<offset, scan_code, tables, tasking>>

-----------------------------------------------------------------------------
(* irq_handler and isr_handler *)

Top == Last(frames)
At(p) == frames # <<>> /\ Top.at = p /\ ~lost
GoTo(p) == frames' = [frames EXCEPT ![Len(frames)].at = p]

SlaveGetsEoiLate(v) == v > 47                              \* mutant
SlaveGetsEoi(v) == v >= 40

\* Mutant: an interrupt without a handler is not acknowledged.
AcknowledgeHandled ==
  /\ At("eoi")
  /\ in_service' = IF interrupt_handlers[Top.vector] = None THEN in_service
                   ELSE in_service \ EndOf({l \in in_service : ~IsSlave(l)})
  /\ GoTo("dispatch")
  /\ UNCHANGED <<irr, offset, scan_code, tables, intr, cpl, lost, tasking>>

Acknowledge ==
  /\ At("eoi")
  /\ in_service' = (in_service \ EndOf({l \in in_service : ~IsSlave(l)}))
       \ IF SlaveGetsEoi(Top.vector) THEN EndOf({l \in in_service : IsSlave(l)})
                                     ELSE {}
  /\ GoTo("dispatch")
  /\ UNCHANGED <<irr, offset, scan_code, tables, intr, cpl, lost, tasking>>

Handles(h) == At("dispatch") /\ interrupt_handlers[Top.vector] = h

\* irq_handler returns; isr_handler loops with interrupts off.
Unhandled ==
  /\ Handles(None)
  /\ GoTo(IF IsIrq(Top.vector) THEN "iret" ELSE "spin")
  /\ UNCHANGED <<pic, scan_code, tables, intr, cpl, lost, tasking>>

\* switch_task jumps back into itself with interrupts on (one task: main never
\* forks).
TimerCallback ==
  /\ Handles("timer_callback")
  /\ intr' = tasking
  /\ GoTo("iret")
  /\ UNCHANGED <<pic, scan_code, tables, cpl, lost, tasking>>

\* regs->eax picks the function; the only one that interrupts is test_noop.
SyscallHandler ==
  /\ Handles("syscall_handler")
  /\ IF Top.eax < SyscallNo /\ Top.eax = 3
     THEN frames' = Append([frames EXCEPT ![Len(frames)].at = "iret"],
                           Frame(34, 0))
     ELSE GoTo("iret")
  /\ UNCHANGED <<pic, scan_code, tables, intr, cpl, lost, tasking>>

\* keyboard_callback reads the scan code and has irq_ack, which takes vector
\* 33 for a line of the slave, send one more EOI; do_nothing only returns.
Callback(h) ==
  /\ Handles(h)
  /\ scan_code' = (scan_code /\ h # "keyboard_callback")
  /\ in_service' = IF h = "keyboard_callback"
                   THEN in_service \ EndOf({l \in in_service : IsSlave(l)})
                   ELSE in_service
  /\ GoTo("iret")
  /\ UNCHANGED <<irr, offset, tables, intr, cpl, lost, tasking>>

\* The sti before the iret takes effect after it.
IRet ==
  /\ At("iret")
  /\ intr' = Top.intr /\ cpl' = Top.cpl
  /\ frames' = Front(frames)
  /\ UNCHANGED <<pic, scan_code, tables, lost, tasking>>

Handling == Acknowledge \/ Unhandled \/ TimerCallback \/ SyscallHandler
              \/ (\E h \in {"keyboard_callback", "do_nothing"} : Callback(h))
              \/ IRet

-----------------------------------------------------------------------------
(* Registration and the tables, called by main *)

register_interrupt_handler(n, h) ==
  interrupt_handlers' = [interrupt_handlers EXCEPT ![n] = h]

\* gdt_set_gate takes the base as a u8.
GateBase(base) == base % 256

\* ICW1 to ICW4 for both controllers: requests that came before are forgotten.
RemappedOffset == [master |-> 32, slave |-> 40]
Gates == 0..47 \cup {128}

=============================================================================
