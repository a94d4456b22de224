-------------------------------- MODULE Boot --------------------------------
(***************************************************************************)
(* main.c, from its first instruction to the loop behind it, with the      *)
(* interrupts that come once they are on and the memory that is handed out *)
(* before there is a heap.  pc is the next step of main; it moves while no *)
(* interrupt is being handled.  Addresses and sizes are those of the code. *)
(*                                                                         *)
(* Bound: MaxDevices PCI functions.  End is the linker's end of the        *)
(* kernel, a multiple of the page size (link.ld).                          *)
(***************************************************************************)
EXTENDS Interrupts

CONSTANTS MaxDevices, End

PageSize == 4096
IdentityMapped == 4194304      \* 0x400000

ASSUME EndAssumption == End \in Nat /\ End % PageSize = 0 /\ End >= PageSize
ASSUME DevicesAssumption == MaxDevices \in Nat

VARIABLES pc, placement_address,
          objects        \* what kmalloc gave: where, for what, bytes in use

boot_vars == <<interrupt_vars, pc, placement_address, objects>>

BootInit ==
  /\ InterruptsInit
  /\ pc = "scan" /\ placement_address = End /\ objects = {}

-----------------------------------------------------------------------------
(* kmalloc_int without a heap *)

AlignedNot(a) == a                                        \* mutant
\* A page is skipped wherever the address has a bit above the offset, which it
\* has on a page boundary as well.
Aligned(a) == IF a >= PageSize THEN (a \div PageSize + 1) * PageSize ELSE a

\* used is what the caller goes on to write, whatever size it asked for.
Place(name, at, size, used) ==
  /\ placement_address' = at + size
  /\ objects' = objects \cup {[name |-> name, at |-> at, used |-> used]}

Places(name, size, used) == Place(name, placement_address, size, used)
PlacesPages(name, size) == Place(name, Aligned(placement_address), size, size)

-----------------------------------------------------------------------------
(* main *)

Goes(from, to) == pc = from /\ frames = <<>> /\ ~lost /\ pc' = to

MemoryStep(from, to) ==
  Goes(from, to) /\ UNCHANGED interrupt_vars

TableStep(from, to) ==
  /\ Goes(from, to)
  /\ UNCHANGED <<scan_code, cpl, frames, lost, placement_address, objects>>

\* scan_pci_bus keeps a header of 68 bytes for every function it finds and
\* reads 60 into it.
ScanPciBus ==
  /\ MemoryStep("scan", "scan")
  /\ Cardinality(objects) < MaxDevices
  /\ Places("pci_header", 68, 60)

\* keyboard_create asks for the size of a pointer.
ScanDone == MemoryStep("scan", "ring") /\ Places("keyboard", 4, 312)
CreateRing == MemoryStep("ring", "data") /\ Places("ring_buffer", 20, 20)
CreateRingData == MemoryStep("data", "keyboard") /\ Places("ring_data", 8, 8)

KeyboardInstall ==
  /\ TableStep("keyboard", "gdt")
  /\ register_interrupt_handler(33, "keyboard_callback")
  /\ UNCHANGED <<pic, gates, tss_base, intr, tasking>>

InitGdt ==
  /\ TableStep("gdt", "idt")
  /\ tss_base' = GateBase(TssEntry)
  /\ UNCHANGED <<pic, gates, interrupt_handlers, intr, tasking>>

InitIdt ==
  /\ TableStep("idt", "zero")
  /\ gates' = Gates /\ offset' = RemappedOffset
  /\ irr' = {} /\ in_service' = {}
  /\ UNCHANGED <<interrupt_handlers, tss_base, intr, tasking>>

\* The last step of init_descriptor_tables, and the sti of main.
ZeroHandlers ==
  /\ TableStep("zero", "syscalls")
  /\ interrupt_handlers' = [v \in Vectors |-> None]
  /\ intr' = TRUE
  /\ UNCHANGED <<pic, gates, tss_base, tasking>>

InitialiseSyscalls80 ==                    \* mutant: 80 is not hexadecimal
  /\ TableStep("syscalls", "noop")
  /\ register_interrupt_handler(80, "syscall_handler")
  /\ UNCHANGED <<pic, gates, tss_base, intr, tasking>>

InitialiseSyscalls ==
  /\ TableStep("syscalls", "noop")
  /\ register_interrupt_handler(128, "syscall_handler")
  /\ UNCHANGED <<pic, gates, tss_base, intr, tasking>>

RegisterNoop ==
  /\ TableStep("noop", "timer")
  /\ register_interrupt_handler(34, "do_nothing")
  /\ UNCHANGED <<pic, gates, tss_base, intr, tasking>>

InitTimer ==
  /\ TableStep("timer", "bitmap")
  /\ register_interrupt_handler(32, "timer_callback")
  /\ intr' = TRUE
  /\ UNCHANGED <<pic, gates, tss_base, tasking>>

\* The bitmap of 4096 frames gets a byte where it needs a word.
InitialiseFrames == MemoryStep("bitmap", "directory") /\ Places("frames", 128, 512)
MakeDirectory == MemoryStep("directory", "heap_table")
                   /\ PlacesPages("kernel_directory", 8196)
MakeHeapTable == MemoryStep("heap_table", "low_table")
                   /\ PlacesPages("heap_table", 4096)
MakeLowTable == MemoryStep("low_table", "fault")
                  /\ PlacesPages("low_table", 4096)

EnablePaging ==
  /\ TableStep("fault", "tasking")
  /\ register_interrupt_handler(14, "page_fault")
  /\ UNCHANGED <<pic, gates, tss_base, intr, tasking>>

InitialiseTasking ==
  /\ TableStep("tasking", "initrd")
  /\ tasking' = TRUE /\ intr' = TRUE
  /\ UNCHANGED <<pic, tables>>

\* The selector of user code that iret loads; its low bits are the ring.
UserCode == 27

SwitchToUserMode ==
  /\ Goes("initrd", "write")
  /\ cpl' = UserCode % 4 /\ intr' = TRUE
  /\ UNCHANGED <<pic, scan_code, tables, frames, lost, tasking,
                 placement_address, objects>>

\* int $0x80 of the program that main has become.
Syscall(from, to, eax) ==
  /\ Goes(from, to)
  /\ Enter(128, eax)
  /\ UNCHANGED <<pic, scan_code, tables, tasking, placement_address, objects>>

\* The loop behind main is left for interrupts only.
Main ==
  \/ ScanPciBus \/ ScanDone \/ CreateRing \/ CreateRingData \/ KeyboardInstall
  \/ InitGdt \/ InitIdt \/ ZeroHandlers \/ InitialiseSyscalls \/ RegisterNoop
  \/ InitTimer \/ InitialiseFrames \/ MakeDirectory \/ MakeHeapTable
  \/ MakeLowTable \/ EnablePaging \/ InitialiseTasking \/ SwitchToUserMode
  \/ Syscall("write", "test_noop", 0) \/ Syscall("test_noop", "loop", 3)

HandlerStep == Handling /\ UNCHANGED <<pc, placement_address, objects>>
Accepts(l) == Accept(l) /\ UNCHANGED <<pc, placement_address, objects>>
Raises(l) == Raise(l) /\ UNCHANGED <<pc, placement_address, objects>>

BootNext == \/ Main \/ HandlerStep
            \/ \E l \in Lines : Accepts(l) \/ Raises(l)

BootSpec == BootInit /\ [][BootNext]_boot_vars

\* The processor goes on, and it takes a request that it could take again and
\* again.  Devices need not raise any.
BootFairSpec ==
  /\ BootSpec
  /\ WF_boot_vars(Main) /\ WF_boot_vars(HandlerStep)
  /\ \A l \in Lines : SF_boot_vars(Accepts(l))

-----------------------------------------------------------------------------

\* Whichever device raises its line, at whatever point of main, the processor
\* finds a gate for it, and not the one of an exception; and isr_handler is
\* never left to spin with interrupts off: main registers a handler for every
\* trap its own code takes before it takes it.
InterruptsAreServed ==
  /\ intr => \A l \in Lines : Vector(l) \in gates /\ IsIrq(Vector(l))
  /\ \A k \in DOMAIN frames : frames[k].at # "spin"

\* Nothing is left in service while interrupts are on: a handler need not
\* return (switch_task jumps to another task) for the next one to be let in.
NothingInService == intr /\ ~lost => in_service = {}

\* An EOI ends the interrupt whose handler sends it and no other one, the EOI
\* of the int $0x22 in test_noop included, which no controller raised.
EoiEndsOwn ==
  [][frames # <<>> =>
       \A l \in in_service \ in_service' :
         Top.vector \in {Vector(m) : m \in {k \in Lines : Level(k) = Level(l)}}
    ]_boot_vars

\* What the page directory and its tables are placed in is theirs: they start
\* on page boundaries, no object reaches into them, although two are used
\* beyond what was asked for, and all of it is mapped when paging goes on.
Pages == {"kernel_directory", "heap_table", "low_table"}
TablesUntouched ==
  \A p \in objects : p.name \in Pages =>
    /\ p.at % PageSize = 0
    /\ \A o \in objects \ {p} : o.at + o.used <= p.at \/ p.at + p.used <= o.at
    /\ p.at + p.used <= IdentityMapped

\* A request is accepted in the end, provided those before it are not pending
\* for ever whenever the processor would take it.
RequestsAccepted ==
  \A l \in Lines :
    []<>(intr /\ Len(frames) < MaxNest /\ \A m \in irr : m >= l) =>
      ((l \in irr) ~> (l \notin irr \/ lost))

\* A key pressed once interrupts are on is read: keyboard.c registers its
\* callback for it.
KeystrokesAreRead == (scan_code /\ 1 \in irr /\ intr) ~> (~scan_code \/ lost)

=============================================================================
