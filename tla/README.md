# A formal model of stevienix

stevienix is a small x86 kernel in C. This directory holds TLA+ models of its
tasks, memory, interrupts, boot sequence, console and initial ramdisk, the TLC
configurations that check them on small instances, and proofs, checked by
TLAPS, for every instance. Paths below are relative to the repository's
`src/`, for instance `task.c`.

## 1. Inventory

| Component | Code | State | Operations | Hard part | Status |
|---|---|---|---|---|---|
| Tasks and the scheduler | `task.c`, `timer.c`, `process.s` | list of `task_t`, `current_task`, `ready_queue`, `next_pid` | `initialise_tasking`, `switch_task`, `fork`, `sys_exit`, `queue_count`, `queue_watcher` | a timer tick between any two accesses; the new task resumes in the middle of `fork` | `Tasking`, `RoundRobin`, `Kernel`, `KernelProofs` |
| Kernel heap | `kheap.c` | memory tiled into blocks and holes, an index of the holes, `end_address` | `create_heap`, `alloc`, `free`, `expand`, `contract` | long call sequences; u32 wrap-around; four data structures that have to agree | `Heap`, `HeapContract`, `Allocator`, `HeapProofs` |
| Placement allocator | `kheap.c:18-44` | `placement_address` | `kmalloc_int` before the heap | alignment; callers that write more than they asked for | `Boot` |
| Ordered array | `ordered_array.c` | array, size | insert, remove, lookup | loop bounds | `OrderedArraySteps`, `OrderedArray`, `OrderedArrayProofs` |
| Paging | `paging.c` | frame bitmap, page tables, directories | `alloc_frame`, `free_frame`, `get_page`, `initialise_paging`, `clone_directory` | sharing decided at clone time; memory that runs out | `Paging`, `Kernel`, `PagingProofs` |
| Ring buffer | `ring_buffer.c` | data, head, tail, count | create, read, write | the keyboard interrupt writes while a task reads | `RingBuffer`, `LossyFifo`, `RingBufferProofs` |
| Interrupts, descriptor tables | `isr.c`, `interrupt.s`, `descriptor_tables.c` | gates, handlers, EFLAGS.IF, the two controllers | register, dispatch, acknowledge, return | nesting; acknowledgement before a handler that may not return; order of registration and reset | `Interrupts`, `BootProofs` |
| Boot, system calls, timer, keyboard | `main.c`, `syscall.c`, `timer.c`, `keyboard.c` | where `main` is, current ring | `main`'s steps, `syscall_handler`, `timer_callback`, `keyboard_callback` | interrupts at any point of it | `Boot`, `Interrupts`, `BootProofs` |
| File system and initrd | `fs.c`, `initrd.c`, `io.c` | node table, one `dirent` | mount, read, readdir, finddir | bounds that wrap; an answer that other callers overwrite | `Initrd`, `InitrdProofs` |
| Ramdisk image builder | `make_initrd.c` | headers, offsets | both loops | two loops that have to agree on places; `char argc` | `MakeInitrd`, `InitrdProofs` |
| Screen | `screen.c` | cursor, video memory, CRT controller | put, scroll, move_cursor | preemption between cursor and scroll | `Console`, `ConsoleProofs` |
| Formatted output | `printk.c` | none | directives and number conversions | integer widths | `Printk` |
| PCI | `pci.c`, `pci_vendor.h` | none | scan, print | takes memory per device | its memory in `Boot` |

How they interact. `timer_callback` calls `switch_task`, which resumes a task
by loading its `esp`, `ebp`, CR3 and jumping to its `eip`. `fork` calls
`clone_directory`, which calls `kmalloc_ap` for tables and `alloc_frame` for
pages. The heap calls `alloc_frame` and `free_frame` page by page in `expand`
and `contract` and keeps its index in an ordered array. The keyboard's handler
is meant to write to the ring buffer; it does not yet, and it is not registered
any more by the time it could. No path of the kernel as it is calls `kfree`, and
`main.c` calls `fork` nowhere: the models ask what these functions
do once they are called.

What makes each component correct:

- tasks: a tick always finds a saved context to resume; the list has no cycle
  and holds each live task once; the address space follows the task; `fork`
  returns 0 to the new task and its pid to the other; every task gets its turn;
- heap: blocks handed out are disjoint, inside mapped memory and survive what
  other callers do; no memory is lost;
- ordered array: sorted between calls, nothing lost or doubled;
- paging: a frame has one owner; low memory stays identity mapped; a clone is
  a copy, and private memory stays private;
- ring buffer: a bounded queue, whose count tells the truth;
- interrupts: whatever comes has a gate and an end; an EOI ends what it is for;
- boot: what is placed before the heap is written by its owner alone;
- console: undisturbed text is shown as it is, disturbed output leaves the
  cursor where it can be; numbers read back;
- ramdisk: headers tell where files are; a listing is complete, its names can
  be looked up, a read gets the file and no more.

## 2. Modules

**`Tasking`.** One processor: `intr` is EFLAGS.IF, `pc` the point it executes.
`stack[t]` holds the points at which interrupts have suspended task `t`, one
per interrupt frame that has not returned. A task that is not running is what
its `task_t` holds: `eip[t]` is `"switch"` (after `read_eip` in `switch_task`),
`"fork"` (after `read_eip` in `fork`) or `"none"`. Actions follow the code
statement by statement wherever two accesses to shared state can be separated:

| Code | Actions |
|---|---|
| `initialise_tasking` | `InitCli`, `InitPublish`, `InitFields` |
| timer interrupt, `switch_task` | `TickBeforeTasking`, `Tick`, and `IrqReturn` for the `iret` |
| `fork` | `ForkCli`, `ForkNew`, `ForkWalk` (one iteration), `ForkLink`, `ForkParent`, `ForkChild` |
| `sys_exit` | `ExitCli`, `ExitLoop` (one iteration) |
| `queue_watcher`, `queue_count` | `CountStart`, `CountTest` and `CountStep` (the two loads of a link), `CountReturn`, `CountAstray` |

A tick is one action because the handler runs with interrupts off until the
`sti; jmp` of `switch_task`. The jump is taken with interrupts on, so a tick can
hit a task that is still inside its last interrupt: stacks nest. Pointers are
pids; `Null` is 0, and `Garbage` is what a field of fresh `kmalloc` memory
holds. A task may call anything at any time; which tasks call `sys_exit` and
`queue_watcher` is a constant. `size`, `queue`, `tmp_task`, `rv`, `parent_task`
and `new_task` are locals, one per task because each has its stack; `fork`'s are
copied by `ForkNew` as `clone_directory` copies the stack. `count_from` and
`exited` are history. `queue` is a pointer to volatile, so the loop test and the
advance of `queue_count` load the link each: an exit in between can clear it,
and the walk goes on from NULL through low memory, which is mapped, to the first
word that is 0 (`CountAstray`; a page fault on its way is not modelled). The ESP
and EBP that go with an EIP are implied by it; what the stacks hold is in
`Kernel`.

**`RoundRobin`** is the abstract scheduler: the queued tasks run in turn, a new one
is queued last. **`Kernel`** composes `Tasking` with an instance of `Paging`: the
locals and interrupt frames that `Tasking` keeps per task are there the content
of one frame, reached through the directory in CR3. Each action of `Tasking` is
taken together with its store to that frame (`Stores`), `fork` waits for
`clone_directory` to copy the pages one by one, and `Tick` loads CR3. So
`StackHoldsTask` shows what `Tasking` assumes: that a task finds its own locals.
`move_stack` copies the stack as one value; the relocation of base pointers by
scanning is left out. No task exits in it.

**`Heap`** models memory as cells: a header is one cell, a footer one cell, any
other cell is user data. All the offsets of the code are kept, in units of
cells, and u32 arithmetic is arithmetic modulo `Word`. A call of `alloc` is
`CallAlloc`, then `Expand` as often as the recursion recurs, then `Take`; `Free`
is the whole of `free` including both unifications and the contraction. The
failed `ASSERT`s of the code set `status` to `"assert"`, an access to a page
without a frame sets it to `"stray"`. `Heap` contains what the code does, its
errors included: `Chosen` is the first hole of the index whatever the search
found, `ContractTo` rounds with the wrong mask, `ExpandTo` adds a page to a
size that is already aligned, `Free` leaves the absorbed hole's footer.

**`HeapContract`** states six clauses a caller can keep (A1 to A3 on `alloc`, F1
to F3 on `free`) and the promises the heap then keeps. **`Allocator`** is the
abstract specification: a set of disjoint blocks. `HeapContract` implements it
with `live` mapped to itself.

| Clause | Says | When waived, the model breaks |
|---|---|---|
| A1 | if a hole serves the request, the first one does | `Tiled` |
| A2 | if none does, the only hole is the one at the end | `Tiled` |
| A3 | there is room around an aligned block | `IndexComplete` |
| F1 | the freed block is not the last thing in the heap | `NeverStops` |
| F2 | a block before the last hole is freed only below the minimum size | `IndexComplete` |
| F3 | no hole but the last follows the freed block | `Tiled` |

To see the last column, name the clause in `Waived` in `HeapContract.cfg`.

**`OrderedArraySteps`** is the array iteration by iteration, **`OrderedArray`** the
same calls as operators on sequences; `Heap` uses the latter, and
`LoopsComputeOperators` says that the former computes them.

**`Paging`** maps directories to tables and tables to entries; an address is the
pair of the two numbers, and `content` is one value for each frame.
`initialise_paging` and `clone_directory` go page by page. `KernelHeap` and `Low`
are the tables `initialise_paging` makes, `Stack` is where `move_stack` maps
pages. `GrowHeap` and `ShrinkHeap` are one page of the heap's `expand` and
`contract`, `Write` (external) is a store by the processor. Entry flags other
than `present`, and `page_fault` (it prints and panics), are left out.

Two of its memsets have the wrong size. The bitmap has a fourth of its bits
cleared (`paging.c:106`): `Zeroed` is how many, and `Init` leaves the others
open (in the code they are cleared as far as the frames of low memory go, 1024
of 4096). `clone_table` clears `sizeof(page_directory_t)`, 8196 bytes, in a
block of 4096 (`paging.c:228`): 4100 bytes of what lies behind. As long as
nobody calls `kfree`, which nobody does, a page-aligned block of 4096 lies at
the end of what the heap has given out, and behind it are its own footer and the
header of the last hole: the heap is hurt, but no table. Once blocks are freed
and used again (`Frees`), the next page-aligned block begins two pages further,
behind its own header, and loses its first word: the entry of page 0 if it is a
table (`ClearsEntry`), the pointer to table 0 if it is a directory
(`ClearsPointer`; the processor walks `tablesPhysical`, which stays, so
`Pointer` is what the code sees and `tables` what the processor sees). `hit` and
`forgotten` are the history of that. What else of the heap is cleared in the
page between (footers, headers, a `task_t`), and a heap that ends there (a page
fault), are not modelled.

**`RingBuffer`** has the interrupt handler's write as one action and the
reader's memory accesses one by one; `count--` is a load and a store, as the
Makefile builds it. `ring_buffer_read` asks for nothing, and the file's own
comments say that it underflows (`ring_buffer.c:3-8`, `ring_buffer.c:27-28`). No
code calls it, so what a caller does is not in the source: `caller` says whether
it `"checks"` that count is not zero before the call (`Call`, external) and
whether it `"masks"` interrupts from the check to the return. The run has all
four callers; each property names, as its antecedent, the contract it needs.
`unread` counts writes less reads; `MaxGap` bounds it. **`LossyFifo`** is the
abstract bounded queue.

**`Interrupts`** has the devices and the two 8259 controllers (external: requests,
lines in service, the EOI that ends the most urgent one), the processor's entry
through a gate, and the handlers. `frames` is the stack of interrupts being
handled: each goes `"eoi"`, `"dispatch"`, `"iret"`; a trap begins at `"dispatch"`.
**`Boot`** extends it with `main`: one action per step that registers, resets,
enables or allocates, with the addresses and sizes of the code. `lost` is a
processor that found no gate or no stack. `keyboard_callback` is modelled though
its registration does not survive: no behaviour of `BootSpec` runs it, and what
the properties and theorems say of its extra EOI is empty.

**`Console`** goes through `screen_put` load by load and store by store, since
without `-O` an increment is two accesses, with tasks switched in between;
scrolling goes line by line, and the register that the CRT controller has
selected is shared. **`Printk`** holds the conversions as operators on character
codes; `MCConsole` chooses what is printed. The copy to the serial port is left
out. A cell of video memory is one element of the `int` array of the code.

**`MakeInitrd`** is the host program; `UInt` is where `off` and the lengths in
the headers wrap. **`Initrd`** mounts what `main` makes the kernel see and lets
clients of `fs.h` use it: `List`, `Readdir`, `Finddir`, `Listed` are the `ls`
that `main.c` keeps in a comment, `Open` and `Read` read from any offset in
pieces of any size. `client` is each task's place in such a loop. The table that
is mounted is any table (`HeadersAt`), for `main` passes a small number as its
address; each offset in it is moved by the word at that address (`Relocated`),
which is the number of files. `dirent` is a row of characters with the first
byte of `inode_no` behind it; `Readdir` picks the name, `CopyCharacter`,
`Terminate` and `StoreInode` are one store each, and clients are switched
between any two. An entry into which another client stored while it was filled
or looked up is `mixed`: what it holds is left open, and `finddir` may not find
it. `NameIn` is what is read back of an entry that is not, also when a name is
too long for the dirent and the inode number takes the place of one of its
characters; what lies behind the dirent is not modelled.

## 3. Runs

| Run | Question | Bounds |
|---|---|---|
| `tasking` | does the task list survive forks, exits, counts and ticks in any order? | 4 tasks: enough for an exit to cut out another task and a fork after it; 2 nested interrupts; tasks 2 and 3 exit, 1 and 3 count |
| `kernel` | does a task find its stack again, is the scheduler round robin, does every task run again and again, does the new task's `fork` return? | 4 tasks, 2 nested interrupts, one page each of low memory, heap and stack, 6 frames, no exit |
| `heap_contract` | does the heap keep its promises under the contract? | page of 4 cells, heap of 4 to 5 pages, requests of 1 and 4 cells, aligned or not: splits, both unifications, growth and contraction occur |
| `heap_first_hole` | *violated:* does `alloc` hand out the hole it found? | two aligned requests |
| `ordered_array` | do the loops keep the order and compute the operators? | 4 items, two of which are equal, from empty to full |
| `paging` | has each frame one owner, is low memory identity mapped, is a clone a copy, does what is private stay private and what is the heap's stay shared? | 3 directories, a clone of a clone among them, 5 tables of 2 pages, 5 frames: they run out during a clone; the heap grows into a second table and shrinks; new tables overrun older ones. A directory whose pointer was cleared is not cloned again within 3 directories: the theorem covers it |
| `ring` | is the buffer a bounded queue, and what can `count` not do? | 3 slots, 3 items, all four callers, at most 5 items written and not read or the reverse |
| `boot` | do interrupts at every point of `main` find gates and ends, does nobody write into the page tables? | timer, keyboard and one line of the slave; 2 nested interrupts; up to 52 PCI functions; the kernel ends at 0x110000 |
| `boot_keys` | *violated:* is a key read? | the same with one PCI function |
| `console` | is text shown, does the cursor come back, do numbers read back? | screen of 3 by 2, tab of 2; one task with all triples of control and printable characters and 11 numbers in each form, or two tasks that print at once |
| `initrd` | is an image tiled, a listing complete and found, a read exact? | `char` of 16 values, 4 headers, 17 arguments, offsets modulo 64 and a file of 68; any table of up to two files, of three names (empty, the directory's, another) and two lengths; a dirent of 4 characters, which a name can fill; two clients; numbers modulo 5 |
| `initrd_image` | *violated:* is what was packed mounted? | the same |

`boot` runs with `CHECK_DEADLOCK FALSE` because a lost processor stops,
`console` and `initrd` because programs end and a file may be missing. The
bounds reach the cases that matter: in `boot` an interrupt nests in one that has
switched interrupts on again; 52 functions fill the page under the bitmap of
frames to its last bytes (from 53 to 57 the bitmap, four times as long as what
was asked for, would reach into `kernel_directory`: another number breaks
`TablesUntouched`); the screen is wide enough for a tab to stop inside a line
and to pass its end; the ramdisk's arguments, places, offsets and sizes wrap.
The two clients are symmetric. `heap_contract` runs with `CHECK_DEADLOCK FALSE`:
in a heap of bounded size no request may be left that the bound or the contract
admits. `count_from` and `size` bound `queue_watcher` to one call per task.

What the violated runs show, each a disagreement with a comment of the code:

- `alloc` looks up the hole named by an iterator that is 0, not the one its
  search found (`kheap.c:242`): the second page-aligned request of a fresh heap
  gets the address of the first. The boot sequence makes two such requests.
- `init_descriptor_tables` zeroes the table in which `keyboard_install` has just
  registered its handler (`descriptor_tables.c:43`, `main.c:37`): no key is read.
- `main` mounts the ramdisk at the address that is the number of its files
  (`main.c:50`), and the header table would be looked for three words too far
  (`initrd.c:66`).

Others that the models contain and no run is kept for:

- `sys_exit` sets the *head's* successor to its own, which drops every task in
  between (`task.c:269`), the caller's elders; at the head of a longer list the
  same loop never ends, with interrupts off. `ExitSparesYounger` says what
  holds.
- `free_frame` clears the bit of frame 0 (`paging.c:94`): freed frames leak, and
  frame 0 is handed out as if it were free. A search that fails yields frame 0
  too (`paging.c:68`). `FramesExclusive` therefore excepts frame 0.
- A table the heap grows into is the kernel directory's alone once there is a
  clone (`paging.c:279`); `HeapSeenEverywhere` speaks of the first one.
- `clone_table` clears 4100 bytes too many, the bitmap's memset 384 too few
  (`paging.c:228`, `paging.c:106`; section 2). `CloneIsCopy` and
  `IdentityMapped` say what is left: a first page, or the low table of a clone,
  can be missing. `MemorySpacesApart` speaks of what tasks do while they run; a
  fork of one task can take the first page of another's table away. The bits of
  the bitmap that are not cleared lie behind its allocation, where the page
  directory may begin; their overlap is left to `TablesUntouched`.
- With interrupts on, a write between the load and the store of `count--` is not
  counted, and a later one overwrites an unread item (`ring_buffer.c:33`).
  `CountSpansBuffer` and `IsFifo` hold only of a caller that masks them;
  `CountIsBacked` says that one that checks never gets an empty slot and never
  wraps the count. One that does not check wraps it, and then the buffer takes
  nothing more.
- `initialise_initrd` adds the word at `location`, the number of files, to each
  offset, where its comment wants the offset "relative to the start of memory"
  (`initrd.c:103-106`); `initrd_read` copies from there. `ReadsAreExact` says
  where that is (`Base`): the count and the pieces are those of the file, the
  place is not.
- A name that `readdir` gave can be torn by another task's, and is not found
  then; a name of 128 characters and more ends in the inode number (`fs.h:46`).
- An exit between the two loads of `queue_count` sends the walk to NULL
  (`task.c:50-52`).
- The new task's `kernel_stack` is never written (`task.c:212`); the size of an
  indexed hole changes in place (`kheap.c:335`).
- `gdt_set_gate` takes the base as a `u8` (`descriptor_tables.c:65`), so the TSS
  descriptor points to low memory, and `esp0` is 0: the first interrupt at ring
  3 may find no stack. The comment at `descriptor_tables.c:97` says the TSS can
  be used to switch to kernel mode; `cpl = 3 => ~lost` is not an invariant of
  `Boot`.
- `keyboard_create` asks for 4 bytes and writes 312 (`keyboard.c:59`), the
  bitmap gets a quarter of what it uses (`paging.c:105`); what is placed next
  suffers, and it is chance that the page tables do not.
- Key presses before the controllers are remapped block the keyboard.
- `%d` is wrong from 128 on, `sprintk` bounds the wrong index
  (`printk.c:24,164`); the video memory is an array of `int`, so a character
  takes two cells of the board; a backspace of one task between test and
  decrement of another's makes the column -1; each task switched away at the
  wrong moment lets the next one write a line further below the screen.
- `initrd_read` gives more than the file when offset plus size wraps
  (`initrd.c:20`); a file called `dev`, or as an earlier one is, cannot be
  found.

## 4. Fairness

`FairSpec` of `Tasking` assumes that a call once made goes on (weak fairness of
`Progress`; calls themselves are the programs' choice), that a tick comes if
interrupts are on again and again (strong fairness: the PIC holds a request
until it can be delivered), and that a task switched to again and again gets
through the `iret` and the end of `fork` (strong fairness per task: ticks are
20 ms apart, thousands of instructions). `ChildReturns` further assumes that
ticks do not for ever hit the few instructions between a switch and the `iret`
(`NestingEnds`): the code does not exclude it, and each such tick deepens the
stack. `Kernel` assumes the same of the composed steps. `BootFairSpec` assumes
that the processor goes on (weak fairness of `Main` and of the handlers) and that
a request that can be accepted again and again is (strong fairness per line:
the controller keeps it); devices need not raise any, and `RequestsAccepted`
leaves out a line while more urgent ones are requested whenever it could be
let in. The heap, paging, the
ring buffer, the console and the ramdisk assume nothing.

## 5. Proofs

`KernelProofs` proves of `Tasking`, for any number of tasks, any depth of
nesting and any choice of which tasks exit and count (`BoundsAssumption`,
`ProgramsAssumption`):

| Theorem | Property |
|---|---|
| `TypeCorrect` | `TypeOK` |
| `TickIsSafe` | `ReadyHasContext` |
| `ListHasNoCycle` | `LinksLeadToYounger` |
| `ListIsCreationOrder` | `QueueIsCreationOrder` |
| `DirectoryFollowsTask` | `AddressSpaceFollowsTask` |
| `CountTheorem` | `CountIsSound` |
| `ForkResult` | `ForkReturnsTwice`, an action property |
| `YoungestTheorem` | `YoungestIsQueued` |
| `ExitTheorem` | `ExitedStaysAway`, an action property |
| `SparesTheorem` | `ExitSparesYounger`, an action property |
| `RoundRobinTheorem` | `IsRoundRobin`, if no task exits (`Exiting = {}`) |

All follow from `Invariance`, `Spec => []IInv`. None of the properties is
inductive alone. `ReadyHasContext` needs to know who the one task without a
context is (`ContextsSaved`: the task being forked, interrupts off), which needs
`fork`'s locals (`ForkLocals`), which needs that `intr` and `pc` belong together
(`Phase`). The return of an interrupt jumps to what the stack holds, so
`StackShape` says what can be on it. `CallPoint(t)`, where the code of `t` stands
below its interrupts, is the key idea: a tick and the return from it leave it
unchanged for every task, so the conjuncts about tasks half way through `fork`
(`Newborns`) or `queue_count` (`WalkLocals`, `Counts`) survive interrupts
without a word about nesting. `Chain` says which link is missing while `fork`
walks. There is one lemma per action, with one step per conjunct.

The theorems about exits add `QueueInv`, which says what the list is once
`sys_exit` has cut pieces out of it: the youngest task is reachable from
`ready_queue` unless it has left, what has left is not (but the head, which
never is), and the running task leads back into the list. `Queued`, the tasks a
walk meets, is defined without recursion, and that links lead to younger tasks
takes the place of an induction along the list: of the tasks that break a claim,
the oldest one has a predecessor that keeps it. `RoundRobinTheorem` takes the
link that `fork` writes as the step that admits a task. It assumes that nothing
exits because a task that cuts out others takes their turns away, which the
abstract round robin does not allow.

`BootProofs` proves, for any lines, depth of nesting, position of the kernel and
TSS (`LinesAssumption`, `InterruptBounds`, `EndAssumption`):

| Theorem | Property |
|---|---|
| `ServedTheorem` | `InterruptsAreServed` |
| `NothingInServiceTheorem` | `NothingInService` |
| `EoiTheorem` | `EoiEndsOwn`, an action property |
| `TablesTheorem` | `TablesUntouched`, if `Fits` |

The first three follow from `BootInv`. Its core is `Shape`: every frame but the
last waits for its `iret`, the last one has interrupts on only if it does too,
and what is in service is exactly the line of a last frame that has not sent its
EOI yet. `Phase` says from which step of `main` on the gates, the vectors and
the handler of `int $0x80` are there. `TablesTheorem` follows from `MemoryInv`,
which bounds `placement_address` at each step of `main`. `Fits` is its
assumption: 68 bytes per PCI function and 544 for what is placed behind
them fit a page (52 functions and no more), and the tables end below what is
identity mapped. The run shows 52 to be within it; the theorem says that it
is this sum and no accident of the addresses.

`RingBufferProofs` proves `TypeOK` (`TypeCorrect`), `CountSpansBuffer`
(`CountTheorem`), `CountIsBacked` (`BackedTheorem`) and that the buffer
implements `LossyFifo` for a disciplined caller (`Refinement`, property
`IsFifo`), for any size, word, items and set of callers. `Backed` is inductive
for a caller that checks: what it has loaded of the count is never more than the
count, since interrupts only add to it, and the slots written are all or those
before `tail` (`Written`). `Tight` is inductive for the disciplined one: the
item it has loaded still lies at `head`, the count it has loaded is still
`count`. The refinement follows the sequence of unread items through the
wrap-around of both indices, one lemma for each step.

`PagingProofs` proves `FramesExclusive` (`FramesTheorem`) and, if the addresses
below 0x400000 have a frame and a cleared bit each (`Fits`), `IdentityMapped`
(`IdentityTheorem`), for any number of frames, pages, tables and directories.
`FrameInv` adds that a frame an entry names has its bit set; that survives
`free_frame` because the bit it clears is that of frame 0, the one frame whose
owner is not told apart. `IdentityInv` follows the loop of `initialise_paging`,
whose frames are the first ones (`MappingInv`), and then says that the low table
is reached through table number `Low` alone (`TablesInv`, `HeapInv`): whatever
is mapped or freed later has another number, and so does every table
`clone_directory` copies, since the kernel shares the low one with each
directory (`RunningInv`). It matters because the entry of page 0 has frame 0,
which `alloc_frame` takes for none. That the overruns of `clone_table` stay off
the low table and the kernel's directory, which were placed before the heap, is
`ClearFacts`.

For what directories share, `PInv` adds `OwnInv` (two directories that reach one
table reach it under one number, and then it is one the kernel has; every other
table has one directory), `LoopInv` (how far `clone_directory` has come, and
what it has copied) and `CopyInv`. From it follow `CloneIsCopy` (`CloneTheorem`)
and `MemorySpacesApart` (`SpacesTheorem`), and `HeapSeenEverywhere`
(`HeapTheorem`).

`KernelProofs` then proves that each step of `Kernel` is one of `Tasking` or changes
none of its variables (`KernelSchedules`), so that what is proved of `Tasking`
holds there, and `IsRoundRobin` with it (`KernelRoundRobin`). `StackHoldsTask`
(`StacksTheorem`) needs `MaxPid + 2 <= NFrames`: a frame for each stack besides
those of low memory and the heap. Without it `alloc_frame` yields frame 0 and two
tasks share a stack. `KInv` has the tables as `initialise_paging` leaves them
(`MapTypes`, `BootMap`), the directories and the frames of the stacks of tasks
that run (`RunTables`), which step of `fork` and of `clone_directory` go together
(`RunPhase`), and what each of these frames holds (`StacksInv`), half way
through a copy too.

`HeapProofs` proves `NeverStops`, `Tiled`, `IndexComplete`, `BlocksIntact` and
`IsAllocator` of `HeapContract` for any page size, heap sizes, addresses, word
and requests that `LayoutAssumption` admits, if no clause of the contract is waived
(`Waived = {}`). All follow from one invariant, `HeapInv`:

- `Tiling`: there is a set of places at which headers lie, each one's size leads
  to the next place, and each piece has its footer, except a hole at the very
  end: the one `create_heap` makes has none until the heap grows. `RowHeaders`
  shows that this set is `Boundaries`, what stepping over the sizes meets; the
  recursive function there is followed by the least number at which a claim
  fails, without induction over data.
- `Lists`: the index names the holes of this row once each. Its keys are not in
  the invariant: the size of an indexed hole changes in place, so the index need
  not be sorted, and nothing that is promised depends on it.
- `Held`: the caller's blocks are in the row, and their insides are untouched.
- `Memory`: the end is a page boundary, and every page below it has a frame.
- `Asked`: what A1 to A3 said when `alloc` was called still holds when the hole
  is cut, also after the recursion through `expand`.

An operation lays a part of the row anew. `Repave` says once when that
gives a row again; `TailPave` (`expand`, `contract`), `CutPave` (`alloc`) and
`MergePave` (`free`) apply it, and say which holes there are afterwards and
that other callers' blocks stay. `TakeHeap` also finds that the block
shares no cell with one in use (`ApartFacts`), which makes it a step of `Allocator`.
Where the code adds and subtracts words, `WordFacts` and `SubFacts` show that
nothing wraps; `ContractFacts` is why F2 makes the wrong mask of `contract`
harmless.

`OrderedArrayProofs` proves `SortedBetweenCalls` (`SortedTheorem`), for any keys and
capacity. `Extent` is how much of the array is sorted at each turn of the loops:
one cell more than `size` at the end of an insertion, one cell less at the end of
a removal, whose last turn has read past the end. `ShiftUpInv` places `tmp`
between the part already shifted and the part to come. It also proves
`LoopsComputeOperators` (`LoopsTheorem`): a call leaves what its operator of
`OrderedArray` says, on which `Heap` and `HeapProofs` rest. `LoopInv` compares the
array with `was`, its content when the call began. `Precede` is what the scan has
seen, which `PassedContent` turns into the number `Passed` counts; `Raised` and
`Lowered` say of each cell whether the loop has moved its item yet, except the one
cell past the end that the loop overwrites or reads. That no item is in the array
twice is part of the invariant, because the code removes by place and the operator
by item. The loops are steps of the model and not a recursive
definition, so the invariant of the loops takes the place of an induction.

`InitrdProofs` proves `PackTiles` (`PackTheorem`), `ListingComplete`
(`ListingTheorem`) and `ReadsAreExact` (`ReadTheorem`) for any number of
arguments, slots, files, clients, size of the dirent and word sizes, from
`ArgumentAssumption` and `MountAssumption`: half of half the range of a `char`
headers fit the slots (63 and 64 in the code), the table of a ramdisk is shorter
than a word can count, names hold no NUL. `PackInv` chains each header's offset
to the end of the one before, modulo `UInt`, which is where the second loop
writes. `FsInv` is `ClientInv` for every client: a listing is a beginning of the
directory, as long as `index` says; while a client that is not mixed fills the
dirent, the first `copied` cells are those of its name, then comes the NUL, and
`StoreInode` does not reach them if the name fits; a reader stands between where
it began and the end of its file. A step of one client changes the record of
that client only, except stores to the dirent, which mark the others
(`OtherStores`).

`ConsoleProofs` proves that the cursor comes back, for any screen, number of
tasks and texts. While calls go on it may be anywhere to the right or below, so
the invariant names who brings it back: past the last column, some task has the
test of the column before it (`ColumnInv`); below the last line, some task has
the test of the line before it (`LineInv`), and an increment of the line never
leads past that test (`WayBack`). With this `PastScreenTheorem` holds of every
interleaving. `CursorComesBack` (`CursorTheorem`) also says that the column is
not negative, for which `BackspaceAlone` is assumed of the behaviour: no other
call goes on between the test of a backspace and its decrement. The code does
not see to that (section 3); the run's calls satisfy it, because only tasks that
print alone use backspaces.

It also proves what is printed: `NumbersReadBack` (`NumbersTheorem`), of every
u32, and `OutputShowsText` (`ShowsTheorem`), of every text. Both speak of
functions that go over digits or characters (`Digits`, `Value`, `Sheet`). The
inductions are made on sets of numbers, each of which has a least element
(`LeastElement`, `Induction`), so that no theorem with an operator as parameter
is needed; `Recursion` and `FoldExists` show that the functions which recursions
and folds define exist and keep their equations. `NumbersTheorem` adds one digit
at a time to the value, from the front; of `u32_to_hex` it also needs that the
digits it does not skip are the lowest ones. `ShowsTheorem` rests on `ShowInv`:
while calls have not overlapped, at most one goes on; what is typed is what
`printed` has before the rest of the call's text; and there is a number `top`,
the lines scrolled out, for which the screen is the window of the sheet that
starts there (`Image`). `PointInv` says at each load, store and turn of
`scroll`'s loop how far the screen, the cursor and the CRT controller are behind
the sheet; half way through scrolling, the lines above `i` are already those of
the next window (`Moved`). The cursor may be one line below the screen only
where `scroll` is about to bring it back (`Begun`).

Its assumptions, evaluated by TLC on the run: `ScreenAssumption`, a screen of at
least one place, a tab of at least one column; `PlacesAssumption`, two registers
hold any place (80 * 25 places, 256 * 256 values), finitely many
tasks; `ProgramsAssumption`, numbers are u32, which the C types say, and each call
prints a finite text.

Only model-checked:

- liveness (`EveryTaskRuns`, `ChildReturns`, `RequestsAccepted`),
  which the prover cannot do under fairness;
- what becomes of the heap when a clause of its contract is waived.

## 6. Not modelled

- Serial port, video, CPU detection, panic: port output and text, no state that
  anything later depends on.
- Scanning the PCI bus, beyond the memory it takes. Its table of vendors
  (`pci_vendor.h`, 9908 lines) is data; it makes up two thirds of all lines, so
  the lines that the modules stand for are a small part of the whole, though
  they are most of those with state behind them.
- The stack relocation of `move_stack`, which scans the stack for values that
  look like base pointers; `Kernel` copies the stack as one value.
- Two tasks inside the heap at once: `Heap` goes from call to call. The code has
  no lock around it.
- `page_fault` (prints and panics), entry flags other than `present`, `write`,
  `open` and `close` of the file system (no node has one), `strcat` (not
  called), the length of `printk`'s buffer, colours.
- The ordered array's `max_size`, which nothing compares with `size`;
  `CallInsert` takes its callers to stay below it.
- What the overruns of `clone_table` do to the heap's own headers and to blocks
  that are not page tables: `Paging` has no heap in it.

## 7. Plan

1. `Tasking` together with `Heap`: two tasks in `alloc` at once, statement by
   statement.
2. The relocation of base pointers in `move_stack`, in `Kernel`.
3. `Paging` together with `Heap`, for the memory that `clone_table` clears.
