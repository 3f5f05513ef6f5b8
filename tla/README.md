# TimbOS in TLA+

TimbOS is a small 32-bit x86 kernel in C++: it boots through GRUB, builds its
own memory management, preempts ring-3 tasks with the interval timer and reads
a FAT12 floppy. This directory holds TLA+ models of its subsystems, the TLC
configurations that check them on small instances, and proofs that hold for
every value of the constants. File names and line numbers refer to `src/` of the
repository (`kheap.cpp:298` is `src/kheap.cpp`, line 298).

Check a configuration with `tlc -config X.cfg M` (the pairs are listed under
"Runs"), and a proof module with `tlapm M.tla`.

## The system

`kmain` (`kernel.cpp:182-286`) runs once, in ring 0, on the boot stack. It
initialises descriptor tables, memory, heap, interrupts and drivers in a fixed
order; tasks, if any, are created at its end and preempted from then on.

| Component | State | Operations | Interacts with | Correct when |
|---|---|---|---|---|
| Physical frames, `physical.cpp` | three pools: bitmap, cursor `_prev_idx`, base, size | `alloc`, `alloc_dma`, `alloc_himem`, `free`, reservation in `init` | called by `mm`; pools fall back on one another | no frame has two holders, none is lost, none reserved is lent |
| Memory facade, `mm.cpp` | ends of the kernel image and of memory | `init` reads the multiboot map; `alloc_pages*`, `free_pages`, address conversion | frames, heap, drivers, paging | no reserved memory is given to the pools; addresses are in the range they are promised in |
| Heap, `kheap.cpp` | 17 chunk groups: list of chunks with room; per chunk free list and count; per object a header | `operator new`, `operator delete` | `mm::alloc_pages`, `free_pages` | objects are disjoint, lists exact, pages released only when unused |
| Scheduler and interrupts, `scheduler.cpp`, `irq.cpp`, `irq_.s`, `syscall.cpp`, `gdt.cpp`, `isr.cpp` | task list, current task, saved frames, TSS `esp0`, the controllers' in-service lines | timer tick, other interrupts, `new_task`, `Yield`, fault | CPU, 8259 controllers, every handler | each task resumes where it was, on its own stack; every interrupt is ended |
| Atomics, `interlocked.h` | words of memory | 32 and 64-bit increment, compare-exchange, `enter`, `leave` | tasks (`counting_test`, `kernel.cpp:63-104`) | mutual exclusion, no lost update |
| Floppy, `floppy.cpp` | cached cylinder, motor state and ticks, interrupt flag | `read`, seek, calibrate, transfer, reset, `floppy_timer` | DMA buffer from `mm`, line 6, FAT12 | data is that of the block asked for; motor on while needed, off later |
| Disk cache, `diskcacheimpl.cpp` | buffers with reference counts | `lock`, `unlock`, `free` | a block device | a buffer in use is not reused |
| FAT12, `FAT12*.cpp`, `FAT12*.h`, `dirtree` | table, sectors and index of each open directory | mount, enumerate | floppy | a listing has every entry once; chains lead to directories only, and end; what a failed read leaves does not lead out of the volume |
| Paging, `paging.cpp`, `pagedir.cpp` | page directory and tables, the CPU's TLB | map, translate both ways, page-fault handler | frames | what the kernel uses is mapped, each reserved page gets a frame of its own, the TLB is not stale |
| Console, `console.cpp`, `video.cpp`, `format.cpp` | cursor, window, text buffer; cursor registers of the controller | format, print, scroll | keyboard interrupt | writes stay in the buffer, what is printed is shown |
| Keyboard, `kb.cpp` | shift and lock flags, scancode prefix | interrupt on line 1 | console | flags follow the keys |
| Device and driver managers | tables of probes and devices | register, probe, look up | floppy, `kmain` | everything is set up before it is used; the drive found is the one read |
| C++ runtime, `cppsupp.cpp` | table of 32 destructors | `__cxa_atexit`, `__cxa_finalize` | global objects | each destructor runs once, last first |
| C library subset, `lib/klibc` | none | strings, blocks of memory | everyone | agrees with the standard functions |
| Pointers, `lib/libc++/src/memory.cpp` | owners and weak references of an object | copy, reset, `lock` | file system | objects outlive their references and are freed after the last |
| Entry, `isr_.s`, `irq_.s`, `gdt.cpp`, `idt.cpp` | descriptors, gates, the frame on the stack | entry, return | every handler | the interrupted code notices nothing |

What makes it hard: any ring-3 task is preempted between any two instructions;
interrupt handlers switch stacks by returning another frame; the 8259s are told of
the end of an interrupt by the number in the *resumed* frame; the driver polls
a flag an interrupt sets and retries on every failure; and the two allocators
must survive any order of calls. Nothing but the spin lock protects anything:
the heap asks "lock?" in comments (`kheap.cpp:298`, `322`).

The list of hazards, with lines, is the `hazards` array of `PROJECT.json`;
each names the properties below that cover it, or the reason none does.

## Modules

| Module | Models | Proved in |
|---|---|---|
| `PageAllocator` | abstract specification of the frame allocator | |
| `PhysicalMemory` | `physical.cpp`, with the calls of `mm.cpp:86-116` | `PhysicalMemoryProofs` |
| `KernelHeap` | chunk groups of `kheap.cpp`, lists as sequences | `KernelHeapProofs` |
| `HeapPointers` | the same code with its pointers and headers; implements `KernelHeap` | |
| `HeapLayout` | sizes and address arithmetic of the 17 groups | `KernelHeapProofs` |
| `Heap` | `KernelHeap` and `HeapLayout` | |
| `SpinLock` | `counting_test` with `enter` and `leave` | `AtomicsProofs` |
| `Interlocked64` | the increment and decrement of 64 bits, and those of 32 | `AtomicsProofs` |
| `Scheduler` | interrupt path, scheduler, system call, controllers | `KernelProofs` |
| `Floppy` | the driver, the controller, `floppy_timer` | `DriverProofs` |
| `Fat12Table` | the packing of the FAT | `Fat12Proofs` |
| `Fat12` | mounting a volume and listing its tree | `Fat12Proofs` |
| `Paging` | the page directory, its tables, translation, the TLB | `BootMemoryProofs` |
| `BootMemory` | `mm::init` on `Paging`, then page faults | `BootMemoryProofs` |
| `Console` | `printf` access by access, interrupted by the keyboard's | `DriverProofs` |
| `Keyboard` | `kb.cpp` and the keyboard it is attached to | `DriverProofs` |
| `Terminal` | `Console` under the interrupts of `Keyboard` | `DriverProofs` |
| `DiskCache` | `diskcacheimpl.cpp` over pages and a device | `DiskCacheProofs` |
| `SharedCount` | the control block of `shared_ptr` and `weak_ptr` | `AtomicsProofs` |
| `Atomics` | `SpinLock`, `Interlocked64` and `SharedCount`, on words of their own | |
| `ByteLoops` | the loops of `string.cpp`, of the memory dumps and of `video_print`, `video_clear`, `video_scroll` | `KernelProofs` |
| `Format` | `format_string_varg` | |
| `Conversions` | `std::stoi` ... `to_wstring` over the C library, `labs`, `div` | |
| `InterruptEntry` | descriptors, gates, stubs and handlers as far as they return | `KernelProofs` |
| `Startup` | from the static constructors, with `__cxa_atexit`, through `kmain`'s calls to the first read | `KernelProofs` |
| `Support` | `ByteLoops`, `Format`, `Conversions`, `InterruptEntry` and `Startup` | |

`MC*` modules give values to constants. `Heap`, `Atomics` and `Support` join models
that share no state, for one run and one proof: a variable `model`, chosen by the first state, says which of
them moves, and the variables of the others keep one value. `Terminal` is a true
composition: the console under the interrupts of the keyboard.

**PhysicalMemory.** `words` is the memory of the three bitmaps, which
`linear_alloc` puts one after the other, so that a mark past the end of one pool
lands in the next, as in the program; `_prev_idx` are the cursors. `AllocFrom(p,
q, ...)` is one call of `alloc` on pool `p` that pool `q` answers after those
above it had no room; `AllocFails` is the return of 0; `Free` is
`mm::physical::free`, frame by frame through `find_pool`. Addresses count
frames. `refs`, `overrun` and `ret` are history. The search reads the bitmap
modulo the pool's size, but the run is marked and returned without it
(`physical.cpp:73`, `86`): the model keeps both.

**KernelHeap.** A chunk is named by its run of pages. `_first_chunk[g]` is a
group's list, `_first_free[c]` a chunk's; the actions are the branches of
`heap_chunk_group::alloc` and `free`. A run that `mm::alloc_pages` returns is
any run that is not owned; the failure of `alloc_pages` changes nothing and is a
stuttering step. `HeapPointers` has the `_next`, `_first_free`, `_status` fields
and the union of `heap_object` that holds a link while free and the size while
used; `Heap == INSTANCE KernelHeap WITH ...` walks the links to get the
sequences. `HeapLayout` has the template arguments of the groups.

**SpinLock.** One step is one access to shared memory. `pc` names the place in
`counting_test`. `Acquire` is the `xchg` of `enter`, which spins, `Release` the
store of `leave`.

**Interlocked64.** `*p` is read in two halves, in either order, the
`cmpxchg8b` is one step. The 32-bit operations are single locked instructions (`Xadd`), on a
counter of their own.

**Scheduler.** Each context has a program counter modulo `PcMod`; a frame is
who was interrupted, where, and `int_no`. `Accept` is the entry of a request
through the stub, on `esp0` from ring 3 and on the stack in use from ring 0;
`irq_handler` is the handler, the EOIs and the return. A switch is the handler
returning another task's frame. A frame built by `new_task` holds in `int_no`
what its page held (`memset` clears the size of a pointer, `scheduler.cpp:72`):
`Leftover` has a value below 32 and one that looks like an interrupt of the
second controller. `Yield` from ring 3 raises a protection fault, since the gate
of its vector has privilege 0, and `fault_handler` halts. The controllers
(priorities, fully nested mode, cascade, non-specific EOI) and the CPU are
external. The calls of `new_task` in `kmain` are commented out
(`kernel.cpp:270-275`); the model is of the scheduler when they are made.

**Floppy.** `pc` and `job` are the place in the driver and the command it works
on, `i` the counter of the retry loop that runs. A block is its cylinder: the
512 bytes within it are cut off by an offset that nothing else depends on.
`_cyl_cache` is the cylinder whose data the DMA buffer holds, or `Junk`. The
controller (external) answers each command once with an interrupt; a transfer
succeeds only with the motor on and the heads in place, any command may fail, a
seek may end on a wrong cylinder, a failed transfer may have written anything.
The time-outs of `floppy_write_cmd` and `floppy_read_data` end in a panic.
`floppy_reset` can run before the first read only: no code calls it, and after a
read it would stop the motor without changing `floppy_motor_state`.

**Fat12.** `Mount` is `tryCreate`, the constructor and `root_directory`; `stack` holds the
enumerators of `dirtree`'s calls, innermost last, with their `_sectors` and `_index`. One step is
one round of a loop: `ReadSector`, `Skip`, `ListEntry` and `Leave` are those of `next`,
`FollowChain` and `Descend` those of the constructor of `FAT12DirectoryEnum`. An entry has a kind,
the two padded parts of its name, the directory attribute and a first cluster; `extract_file_name`
makes the name that is printed and by which `dirtree` knows `.` and `..`. The block device is what
`Floppy` shows of it: a read can fail, or succeed with the data of another cylinder, and nobody
looks at its result. What is in `sector_cache` then is memory of the stack that was never written,
or the bytes of any sector: the constant `Garbage` is a set of arbitrary entries, whose clusters
have 16 bits and nothing else in common (`AnyContents`). A file's sector taken for a directory's
holds `files`, and one that is not on the disk leaves the buffer as it was. `WordsBehind` is what
lies behind the vector of the table. A volume is refused as the code does it: `strncmp`
(`string.cpp:67`) does not advance its pointers, so that any type that begins with `F` is taken, and
the null pointer of a refusal is used (`kernel.cpp:263`). `exhausted` stands for a kernel whose
memory or stack is used up.

**Paging, BootMemory.** `Paging` counts addresses in pages: `dir` is `KernelPageDirectory`, `tables`
the contents of the frames page tables lie in, `walk` what the CPU does, `tlb` what it remembers,
and the operators `paging_init`, `init_unmap_0`, `handle_fault`, `map_page` and
`paging_build_kernel_table` the functions, with the `invlpg` of each. Tables are reached through the
last entry of the directory as in the code (`pt_pointer`). `BootMemory` adds `mm::init`: `pc` steps
through `FindEnds`, `InitPaging`, `InitPhysical` and `InitUnmap0` for whatever map and sections the
boot loader hands over, if its flags say that it does (`iterate_mmap`, `kernel_sections`), with
64-bit values truncated to 32 bits and `linear_alloc`'s way of aligning, and then lets pages fault.
What the code does not check is an action as well. The loader's data (`info`) lie on any pages:
above the first 4 MB, of which `loader.s:79` warns, the first read faults, and as `idt::init` comes
later the machine resets (`FindEndsFaults`). Without section headers the kernel's end wraps, and
with little memory the bitmaps end behind what is mapped (`BitmapsMisplaced`). The bitmaps may lie
on the loader's data, and a reserved page between two pools makes an index of `find_pool`'s pool
underflow (`overwrites`, `strays`): what follows is harmless, or `pc` is `"lost"` and nothing is
said any more (`Intact`). `map_page` where the directory has no table halts the system
(`MapDeviceFaults`). The pools are sets of frames there: which free frame of a pool is taken is the
matter of `PhysicalMemory`. No code of the kernel makes reserved pages yet; `Reserve` is a caller
that does it as the fault handler expects. `paging_test` and the call of `paging_build_kernel_table`
are not compiled; both are actions, as they are complete.

**Console, Keyboard.** The kernel is built without optimisation, so that every use of a
field is an access of its own; `Load`, `Store` and `Branch` are these, and `pc` names the
place in `write_char_to_console`, `video_display` and `video_move_cursor`. The handler runs
behind an interrupt gate and is one step, `PrintFromHandler`. A write past the end of the
buffer is counted (`past`); the model has nothing behind the buffer, where the linker puts other data
of the kernel, so that nothing is said from then on. The keyboard (external) holds, repeats and releases keys,
queues their bytes, prefixes included, and acknowledges the LED commands. Around a grey key (arrows, Insert
and their kind), Print Screen and the slash of the keypad it feigns the press or the release of a shift key,
E0 2A and E0 AA: which, and when, depends on the shift keys that are held and on the NumLock LED, which the
handler sets (`feigns`, `hides`, `fakes`). The handler ignores E0 (`kb.cpp:256`, `268`) and takes these bytes
for a shift key's.
`Terminal!Interrupt` is `keyboard_handler` and, for a key with a character, its printing
into the middle of `kmain`'s.

**DiskCache.** `_cache` is searched and never filled (`diskcacheimpl.cpp`), so that each
`prepare` or `cache` makes a buffer. `LockPresent` and `LockLoads` are the branches of
`lock`; the second does not count. `free` gives back one page at `_buffer`, whatever
the length; a null `_buffer` is the page at 1 GiB (`high`). Other code allocates from
the same pages. A run may pass the pool's end, since the search takes its index modulo the size
(`Searched`, see Findings); then `overrun` is set and nothing more is said.
`held` is what callers hold; they return each lock once.

**SharedCount.** The actors are the pointer variables. One step is one access
to a counter; `Exchange` is the `cmpxchg` of `lock`, `LoadWeak` and `DecrementWeak` the load
that spares the decrement of the last reference and the decrement. `kind[p] = "group"` is
the weak reference that the owners have in common.

**ByteLoops, Format, Conversions, InterruptEntry.** A behaviour of the first three is one call,
a step one iteration, a character a model value. In `Conversions` the code of
`string.cpp` runs on the stubs of the kernel's C library or on a whole library, so that a
run tells what a stub changes. `strcmp` and `strncmp` compare their first characters
over and over, `strcat` writes at the beginning of its destination, a dump of the last
line of the address space starts again at address 0: as in the code. In
`InterruptEntry` the stack is a sequence of words that tell what they are and whose, and
`cpu_state` is the structure handlers read it with; a kernel that halts shows the message it
finds in `exception_messages`.

**Startup.** The constructors of static objects run in any order, then `kmain` steps through
its calls (the sequence `kmain`); from `interrupts_enable` on an interrupt may come
between any two of them. The drive types come from CMOS; `floppy_probe` adds the controller and
the first drive, makes the second and forgets it. `early` collects whatever was used before it
was set up, `outcome` is how the first read goes. What the calls do inside is in the other modules.

## Runs

| Run | Configuration | Shows |
|---|---|---|
| `physical` | `MCPhysicalMemory`, `Physical.cfg` | pools of 4, 2 and 2 frames, requests of one or two pages that may run past the end: frames stay exclusive and bitmaps exact up to the first overrun, answers are right, safe requests do not overrun, refinement of `PageAllocator` |
| `physical_accessible` | `PhysicalAccessible.cfg` | *violation*, see Findings |
| `heap` | `MCHeap`, `Heap.cfg` | two groups over three runs (lists) and four runs (pointers): lists and counts exact, no page in use released, no PANIC; the pointers implement the lists; sizes around every boundary of the 17 groups |
| `atomics` | `MCAtomics`, `Atomics.cfg` | two tasks, 5 iterations, a report every 2; three tasks, two calls each, any mix of increments and decrements of either width; three pointers to an object |
| `scheduler` | `MCScheduler`, `Scheduler.cfg` | two tasks, lines 0, 1, 3 and 8, task 2 may yield: safety and liveness |
| `floppy` | `Floppy`, `Floppy.cfg` | the driver without and with the timer's thread |
| `floppy_motor` | `FloppyMotor.cfg` | *violation*, see Findings |
| `fat12` | `MCFat12`, `Fat12.cfg` | five volumes, one read that goes wrong: exact listings of directories only without it; with it no sector outside the clusters of the table, and an end unless the walk leaves the directories |
| `boot_memory` | `MCBootMemory`, `BootMemory.cfg` | ten machines are taken over, five of them with the loader's data, the sections or the bitmaps out of place; three pages fault until memory is used up |
| `terminal` | `MCTerminal`, `Terminal.cfg` | two `printf`s, three key events at any access |
| `diskcache` | `MCDiskCache`, `DiskCache.cfg` | two buffers over three pages, every order of calls and failures |
| `support` | `MCSupport`, `Support.cfg` | every call on six bytes; every format of up to two items; numbers to strings and back; three nested entries; the start with any drive types |

Bounds, and why they are enough:

- *Pools*: three pools give every length of fallback; two pages fit aligned, unaligned and
  across the end of a pool, and with cursors anywhere a search wraps before, inside and after a run.
  `MaxRefs = 2` tells one holder from two. `Gap1`, `Slack` leave words between and after
  the bitmaps. The theorems below hold for every size.
- *Heap*: three (four) runs make a list on which a chunk is first, in the
  middle and last; 3 objects tell empty, partly used and full apart; groups with
  one object never have a list. `HeapLayout` follows 0 to 40 and the three sizes around
  each group's limit.
- *Counters*: halves of 4 values; the one of two halves starts at 14, so that three tasks
  with two calls each pass 15, 0 and 4, the wrap and the carry; the other starts at 2 and
  wraps too. Three pointers are enough for an owner, a weak reference and a `lock` between
  them, or for two releases at once.
- *Scheduler*: a master line above the cascade, one the system call shares, the
  timer and the first line of the second controller, requests in every
  combination; `PcMod = 2` tells a resumed context from one that is a step off.
  `quiet` stops a device from interrupting twice with no instruction in
  between; without it the CPU can be drowned in interrupts.
- *Floppy*: two cylinders, a read that spans both, retries 3 and 4
  in place of 10 and 20, a motor time of two ticks in place of six. Each retry
  loop is run to its end and left early.
- *FAT12*: two entries in a sector and two sectors in a cluster, so that a
  directory crosses both; chains forward, backward and ended by each marker, a
  nested directory in the middle of another, deleted entries, a directory
  without an end, a full root directory; a volume with the usual marker 0xFF8,
  one whose table is not a multiple of three bytes (7 sectors, as on a disk of
  1.2 MB) and one that is not FAT. Names have parts of three and two characters,
  full and padded, with an extension and without. One wrong read supplies directory entries for
  the root, a parent, the directory itself, a free cluster, a file whose data look like a
  directory that contains itself, the cluster behind the table, and clusters 1 and 65535.
  With an intact table the stack stays below `MaxDepth` as long as the walk is in directories.
- *Memory at boot*: pages of 4 bytes, tables of 8 entries, 256 addresses: small enough
  for each byte to be looked at. The machines have blocks that begin and end inside pages,
  more memory than the kernel maps, ACPI memory, a block above 4 GB and one that ends
  there, very little memory, and none. Five are out of place: one without section headers, two
  whose loader's data lie above the first 4 MB, one whose bitmaps come to lie on them, and one with a
  reserved page between two pools. Three pages under two directory entries fault.
- *Terminal*: 2 columns, 5 rows and a window of 2 rows; the first text wraps and ends
  with a newline, so that the window scrolls during it, and with three keys the cursor can
  pass the buffer's last row, so that writes behind it happen. Two shift keys, a lock, a letter,
  Enter and an arrow key, with the NumLock LED lit at first or not, so that shift keys are feigned to be
  pressed and released; three events (`EventBound`), a queue of six bytes (`QueueBound`), which holds an
  arrow key's four and the acknowledgements of a key before it.
- *Disk cache*: one buffer of two blocks and one more overlap on three pages; two locks
  per caller tell a counted lock from one that is not, and the count wraps at 4.
- *Support*: words have 3 digits, widths are none, shorter, exact and too wide; memory has 6 bytes
  of 2 values (every overlap of two blocks) in 16 addresses, a screen two lines of one character;
  the words of `Conversions` have 4 bits, its numbers lie around the limits of the four widths and
  the powers of 10. All drive types of a first drive, those above 7 as one; interrupts of the timer,
  the keyboard and the drive.

Fairness: `SpinLock` assumes that a task that can take a step
eventually does, which `Scheduler` shows (`EveryTaskRuns`): the timer preempts
everyone and the list is circular. `Scheduler` assumes that the CPU executes,
takes deliverable interrupts, that handlers return and that the timer ticks;
nothing of the other devices. `Fat12` is sequential and assumes that it runs.
`Floppy` assumes that the reading thread runs, that `floppy_timer` does if it
has a thread, and that the controller answers each command: `irq_wait` has no
time-out, so a silent controller hangs the driver. Weak fairness is used
throughout. `Read` and `init` are not fair. The other modules state safety only: their
steps are those of code that runs to its end (`BootMemory`, `Format`) or of
callers that may stop.

### What the properties say

- *Frames*: `Exclusive`, `BitmapExact`, `StaysInPool`, `AnswerIsRight`: a run is
  aligned as asked, and 0 is answered only if no pool of the chain has room; and the
  refinement `ImplementsPageAllocator`.
  The first two are stated up to the first overrun;
  `StaysInPool` says which requests never cause one: a single page, or no more
  pages than an alignment that divides the pools' sizes. Every multi-page chunk of
  the heap, asked for unaligned, is outside it.
- *Heap*: `ListExact`, `NoLiveInReleased`, `NeverPanics`, `HeaderMatches`,
  `FreeFindsChunk` (chunks fit their pages although `overhead_size` is 8 for 12 bytes of
  fields), and the refinement `ImplementsKernelHeap`.
- *Tasks*: `OwnKernelStack`, `ResumesWhereInterrupted`, `EveryTaskRuns`, and
  `EveryRequestHandled`: the EOI goes by the number in another task's frame, yet
  both controllers are told in the end.
- *Lock, counters, pointers*: `MutualExclusion`, `TasksFinish`, `CounterExact` (both widths);
  `OutlivesItsReferences` and `NothingLeaks` for the control block, with the
  shortcut that gives up the last reference without a store.
- *Floppy*: `InterruptIsForCommand`, `CommandsArePrepared`, `EveryReadReturns`,
  `TimerStopsMotor` and `CopiesTheCylinder`. The last names
  its exception: `read_block` remembers a cylinder whose transfer failed
  (`floppy.cpp:673`), and a second read of it succeeds with whatever the buffer
  holds. What it shows is that this does not spread: the buffer is not taken for another cylinder's.
  `CommandsArePrepared`: a transfer is issued with the heads on its cylinder and,
  without the timer, with the motor running; with it, `floppy_motor_kill`
  can run between the check and the set in `floppy_motor`, and the driver waits
  for a motor that is off: the property says nothing of the motor then.
- *FAT12*: `ListsTheTree` (the decoded names, once each and in order), `WriteSuccess`,
  `OnlyDirectories`, `WalkEnds`. The last two say how far a device that fails can mislead the
  kernel. Without a failure only directories are taken for directories. After one, with any bytes in
  the buffer, entries may lead to files and free clusters, but to no sector that the table has no
  cluster for; and if the table was read in full the recursion ends, through ancestors listed again
  if need be, unless the walk has left the directories (`Astray`): there a file's data may describe
  a directory that contains itself, and nothing ends the recursion but the stack. `WalkEnds` says
  nothing of a table that was not read in full: its zeros lead every chain to the root directory
  (`FAT12FileSystem.cpp:104`), cluster 0 follows itself, and the vector of sectors grows until
  memory ends. On the floppy the table is on the boot record's cylinder, so that its read is
  answered from the cache; the model does not count on that, as a block device promises nothing.
  0xFF8, the end marker most formatters write, is taken for a cluster: a panic. `next_cluster`'s
  check lets one cluster past the end through (`FAT12FAT.h:23`); the model reads any 16-bit word
  there, and `VolumeSectors` has that cluster too.
- *Memory at boot*: `ReservedNeverLent` relates what the boot loader said to what faults are
  answered with, and names what is not promised: regions above 4 GB, and the last,
  partly reserved, frame of a region that begins inside a page (`physical.cpp:205`
  steps by pages from an unaligned address); nor is a region of all 4 GB, whose length is
  truncated to 0. Types 3 and 5 (reclaimable and bad memory) count as available, as in the
  code (`physical.cpp:259`), and are lent. `KernelMapping` says that each step of `mm::init`
  that is reached finds what it reads and writes (the step before it resets the machine
  otherwise, see above), and that the two translations agree with
  the CPU's. `PagesApart`: no two reserved pages share a frame but frame 0, which a failed
  allocation maps (`paging.cpp:293`), and no translation is stale but those that
  `map_page`, which flushes nothing (`paging.cpp:195`), has changed.
- *Terminal*: `LossBounded`: what an interrupt can spoil is one character and one row for each key
  that is printed, and as long as the rows that the text and the keys may take (`RowBound`) are
  fewer than the buffer's, nothing is written behind it. Once something is (`past`; `console.cpp:43`
  does not look at the row), nothing is promised. `ShownAfterPrinting`: at the end of a print that
  no key fell into, and of the handler's, window, screen and the controller's cursor agree, however
  the ones before were interrupted. It shows that the console recovers; what an interrupted print
  itself leaves on the screen or in a register whose index and data were torn apart (`video.cpp:54`)
  it does not say. `ShiftFollowsKeys`: once all bytes are read, shift is off if no shift key is
  held, nor a key for which one is feigned, so that it is never stuck; and it is on exactly while a
  shift key is held. The second part has two exceptions, which are faults of the driver: while a
  grey key is held under NumLock, or Print Screen, the feigned shift is on (`kb.cpp:268` ignores the
  prefix); and when two shift keys, or one and a key that feigns or hides one, are held together,
  the release of either ends shift for both (`kb.cpp:257`), until all of them are up (`mixed`).
- *Disk cache*: `LockedDataStays`. The data of a locked buffer stays its holders', until an
  overrun of the pool and for buffers that no `lock` loaded; the pages of all buffers are lent to
  nobody else while they have them. A lock that loads does not count itself
  (`diskcacheimpl.cpp:75`), after which `unlock` takes the count below 0 or `free` the
  pages from a holder.
- *Support*: `LoopsDoTheirWork`, `PrintsAsAsked`, `EntriesAreTransparent` (a kernel that halts names
  the exception the CPU raised, too), `StartsInOrder`. Each names in its comment the calls for which
  the code does not keep the promise: `strcmp` of strings that begin alike does not end, `strncmp`
  compares one character; `memmove` is `memcpy` (`string.cpp:18`), which spoils a block that is
  moved up onto itself; a percent sign that is printed twice, a negative `%d`, a field that is to be
  filled around a decimal number, a string or a character, a hexadecimal int wider than 8 digits,
  and a format that ends within a directive (`format.cpp:103`, `125`, `131`); a machine without a
  first drive, whose null pointer is read through, one with a drive the driver has no sectors for,
  which divides by 0, and a drive type above 7, whose name is read from behind the table. What
  `PrintsAsAsked` says of a directive that is not printed as asked is that the ones behind it are.
  `StartsInOrder` takes the loader's data to be in low memory (`parse_command_line` and `mm::init`
  read it); `BootMemory` does not.

### Findings

- `KernelAccessible` (`physical_accessible`): `mm.h:10` says that
  `alloc_pages` returns kernel-accessible addresses. A two-page run found across
  the end of the Default pool reaches into high memory, which is not mapped,
  and its marks are written past the pool's own bitmap.
- `MotorStops` (`floppy_motor`): the motor is to stop after "3 seconds"
  (`floppy.cpp:178`), by a function that "SHOULD BE STARTED IN A SEPARATE THREAD"
  (`floppy.cpp:189`). Nothing starts it: the motor runs for ever.

## Proofs

| Theorem | For every | From |
|---|---|---|
| `PhysicalMemoryProofs!TypeCorrect`, `FramesExclusive`, `BitmapsExact` | size of the pools and gaps, reserved set containing frame 0, set of requests | `SizesAssumption`, `ReservedAssumption`, `RequestsAssumption` |
| `SafeRequestsStay`, `AnswersAreRight` | the same, whatever else is requested, wherever the cursors are | the same |
| `PoolsImplementAllocator` | the same, up to the first overrun | the same |
| `KernelHeapProofs!TypeCorrect`, `ListsExact`, `ObjectsAreExact`, `ReleasedAreUnused`, `PanicUnreachable` | number of groups, runs, objects per chunk | the assumptions of `KernelHeap` |
| `KernelHeapProofs!FreeFindsItsChunk` | size of a request | nothing: the 17 groups are those of the code |
| `KernelProofs!TypeCorrect`, `TasksUseOwnStack`, `TasksResume` | number of tasks, set of lines, leftover of a new task's frame | `SchedulerAssumption` |
| `AtomicsProofs!LockTypeCorrect`, `LockExcludes`, `LockWordExact` | number of tasks and iterations | `IterationsAssumption` |
| `AtomicsProofs!CountersExact` | set of tasks, number of calls, width of a word, initial value | `CounterAssumption` |
| `DriverProofs!TypeCorrect`, `InterruptsMatch`, `CommandsPrepared`, `CopiesAreOfTheCylinder` | number of cylinders and retries, motor time, with and without the timer's thread | `FloppyAssumption` |
| `DriverProofs!LossIsBounded`, `PrintedIsShown` | size of buffer, window and registers, texts, number of keys and where they fall | `ScreenAssumption`, `TextAssumption`, `KeyAssumption` |
| `DriverProofs!ShiftIsFollowed` | set of keys, bytes that wait, events | `KeyAssumption` |
| `Fat12Proofs!PackedUnpacked` | length and content of a table | nothing |
| `Fat12Proofs!WriteSuccessInvariant` | volume, size of sectors and clusters, number of wrong reads | `ImagesAssumption` |
| `Fat12Proofs!WalkStaysInDirectories` | the same, contents of `Garbage` and `WordsBehind` | `VolumesAssumption` (directories are chained, sectors have 16 bits), `MemoryAssumption` (garbage has the width of what is read), too |
| `DiskCacheProofs!LockedDataIsKept` | set of buffers, number of pages, blocks and locks | `CountAssumption` |
| `BootMemoryProofs!TypeCorrect`, `ReservedIsNeverLent`, `KernelIsMapped`, `PagesStayApart` | memory map and kernel image, sizes of pages, tables, pools and the address space, pages of callers | `PagingAssumption`, `SizesAssumption`, `PagesAssumption`, `BootsAssumption` |
| `KernelProofs!EntriesRestore` | depth of interruptions, halves of an address in a gate | `HalfSizeAssumption` |
| `KernelProofs!KernelStarts` | capacity of the table of destructors, drives the CMOS may name | nothing |
| `KernelProofs!LoopsAreRight` | blocks, strings and screens of any size, values of a byte, lines of an address space | `LoopsAssumption` |
| `AtomicsProofs!ObjectsOutliveReferences`, `NothingIsLost` | finite set of pointers | `PointersFinite` |

TLC evaluates each assumption for the constants of the runs. Those that say more than that a
constant is a number: `ReservedAssumption`, that frame 0 is reserved (`physical.cpp:268` does it);
`VolumesAssumption`, that a volume is one: its directories are chained and their entries lead to
directories; `CountAssumption`, that a caller returns its locks before the count of 32 bits wraps;
`BootsAssumption`, that the kernel's image lies in its first large page and holds the directory and
the two tables (the linker script and `loader.s` see to that), where the loader hands its sections
over; its own data may lie anywhere, and the bitmaps end anywhere; `SizesAssumption`, that
`KERNEL_VIRTUAL_SIZE_MAX` leaves the directory's last entry free and the directory covers the
address space; `PagesAssumption`, that callers' pages lie between low memory and the kernel;
`HalfSizeAssumption`, that the two halves of a gate (16 bits each) hold the address of every stub;
`LoopsAssumption`, that the address space consists of whole lines of a dump and that bytes are
numbers; `TextAssumption`, that texts are not empty and have no blanks (a blank that is printed
could not be told from a cell that never was); `KeyAssumption`, that the byte of a key fits 7 bits
and that no extended key has a shift key's code, as in scancode set 1: E0 2A and its kind are only
feigned.

*Frames.* The invariant `IInv` is `TypeOK`, `Exclusive` and `BitmapExact`. Exclusivity
alone is not inductive: that a candidate run is free follows only if the words read are
the words of the frames returned (lemma `FoundRun`), which fails exactly when
the run passes the pool's end. The lemmas on `%` (`ModWrap`, `MultiplesApart`)
show that an aligned run no longer than an alignment that divides the pool does not
pass it. `AnswersAreRight` is proved from the same invariant, for the state after each
call: an aligned cursor stays aligned through the wrap, and the search that fails has
looked at every aligned run of every pool of the chain. The refinement maps `held` to the
frames with a holder: an allocation is `Grant`, a free is `Return`, a failure stutters.

*Heap.* `IInv` is the conjunction of all five properties: that the
PANIC is unreachable needs the list to be exact; that the list stays exact
needs a chunk to be full exactly when its free list is empty; that a released
chunk holds nothing in use needs the count to be the length of a free list
without duplicates (lemma `AllNumbers`: a list of n different numbers of 1..n
has them all). The lemmas `PushFront`, `TakeOut` and `PopFront` say what the operations do
to a list without duplicates. `FreeFindsItsChunk` rests on `FoundAgain` (the sizes of
the groups increase, so that a group's size finds that group again, whatever size
was asked for) and `ChunksFit`, a calculation for each of the 17 groups.

*Scheduler.* A task, its kernel stack and its place in the list have the same number.
`InStep` says that the current task, the CPU and `esp0` agree at every moment, also between
the switch and the return; `StatesOnOwnStack` that a task's saved frame lies on its own stack;
`HandlersFrame` that the frame a handler holds is that of the context it interrupted;
`WaitingFrames` and `Progress` that each frame of a waiting task says how far it has got. The
theorems are about any of these at once: a handler that returns another task's
frame leaves its own task's on its own stack only because the entry used `esp0`, and `esp0`
is right only because the switch set it.

*Entry of interrupts.* `Frames` accounts for every word of the kernel stack: its height is that
of the interruptions under way, the registers are those of the innermost code, and below each
height lies the frame of one interruption with the registers of the code it met, field by field
as `cpu_state` names them (`FrameAt`). Lemma `PushedFrame` is the reason: with or without an
error code, and with or without a task's stack below it, what the CPU and the stub push add up to
such a frame. What lies below is untouched (`FrameStays`), so that the handler reads the last
frame (`LastFrame`) and `LeaveStep` takes just that one away. `StubIsReached` puts the address
of a stub together from its gate; `Named` needs the vector the handler reads to be the one raised.

*Start.* `SetUp` says, for each position in `kmain`, what the calls before it have set up, and
that interrupts are enabled behind the last handler's installation: a handler is there when the
first interrupt comes. `Probed` follows the drives from the CMOS through both managers to
`_floppy0`, `Outcomes` says how the read from it ends; each constructor that registers a
destructor has run (`InOrder`).

*Loops.* `LoopInv` says, for a call under way, how far it has got. `WritesOn`: the first `Done`
bytes of the destination hold what they are to hold (`NewByte`) and every other byte what it held
before the call; a copy whose destination does not reach over its source from below
(`Unspoiled`) reads only bytes it has not written, and so do those whose callers keep source and
destination apart (`Separate`). A string has a length (`StringEnds`): of the places where a
zero is found there is a least one, by the well-foundedness of the numbers. For a dump (`Dumps`)
there are two cases. If the range ends on the last line of the address space (`Endless`), the
address of the next line wraps and never passes it: the dump does not return, the one case in
which the property lets a byte be shown twice. Otherwise the address does not wrap, since lines are multiples of
`LineSize` (`NextLine`), and what was shown are the bytes of the range below it, each once.

*Lock and counters.* `LockInv` is `TypeOK`, `MutualExclusion` and `LockMatches`: the exchange
returns 0 only when no task is inside. For the counters no strengthening is needed but
types: the exchange succeeds only on the value that is in memory, whatever mixture of halves the
task has read, and lemma `ReduceFirst` moves the addition through the wrap.

*Floppy.* `IInv` has six parts beside the types. `OneCommand`: the answer and the interrupt
come together, while the thread waits, and it takes the flag first and then the answer, so
that none is left for the next command. `AnswerIsTrue`: an answer names the cylinder the heads
are on, and a transfer that succeeded has filled the buffer with it. `HeadsInPlace`: from the seek to
the end of the transfers the heads stay, over any number of retries. `Jobs` says which places the
commands can be at, `MotorTurns` (without the timer's thread) that the motor's state is never
ahead of the motor. `BufferHolds` relates `_cached_cyl_index` to the buffer, but for the
cylinder whose transfer failed.

*Console.* `PrinterInv` has, beside the types, `Places` (what the registers hold and where
the column is at each `pc`) and four parts. `RowsBounded`: rows are counted in
cells, since a row that a key begins and a text continues belongs to neither; `Reach`, the cell after the
character under way, and the cursor's row stay below `CellBound`, to which each character
that is stored adds a cell and each newline and key a row. A key that falls between the load of the
row and its store is forgotten by the store, which `Reach` must allow for at every access.
`LossPaid` is the argument for the characters: lost are not only those already written over
but those that still may be, because a store restores an old row or column, or because a
cell was chosen before a key was printed into it. `Frontier` is the first cell that may be
written from here on without counting `Chosen`, the one that is chosen; `Owed` counts
the characters missing and the cells with characters from the frontier on. A step of `kmain`
does not increase it, a key by one at most (lemmas `StoredAtFrontier`, `StoredAsChosen`,
`OtherChosen`), and a write behind the buffer by one. `CleanShown` follows a print without keys:
`Scrolling` up to the window that holds the cursor, `Showing` through the copy to the
screen, cell by cell, and the two registers. It assumes nothing about the console
when the print begins, and therefore holds whatever interrupts did before.

*Keyboard.* That shift follows the keys when all bytes are read says nothing about the bytes
that wait; `Settles` does: the last byte in the queue that the handler takes for a shift key's says
what the keys say, and if there is none the flag does already. Lemmas `OtherByteWaits`, `ShiftByteWaits` and
`ByteRead` are the three things that happen to a queue. What a key sends is up to four bytes: its own
(`OwnBytes`), which say nothing unless it is a shift key, and the feigned ones before or behind them
(`FakesSent`). While at most one key that is down tells of shift (`Telling`, `mixed`), the last of them agrees
with that key.

*FAT12.* `WriteSuccess` follows from `TableInv`, which says that the entries are the
unpacked bytes and how many there are; `PackedUnpacked` is the arithmetic, one case per
byte of a group (lemma `Nibbles`: a byte is its two halves, each kept by one entry).
`WalkInv` has two layers. `RangeInv` holds whatever was read: entries name 16-bit clusters, and each
enumerator's sectors are `VolumeSectors`, because `sector_from_cluster` is only followed by
`next_cluster`'s check (`ClusterSectors`). `RightInv` holds until a read goes wrong: `cache` has
entries of the sector of some directory, so that what the walk enters is a directory; each
enumerator's sectors are directory sectors; and a chain that is followed is in a cluster of a
directory or at an end (`InChain`), which needs the table in memory to be the volume's
(`IntactTable`). The lemmas about the stack are stated once, for any set of sectors.

*Disk cache.* `LockedDataStays` is about buffers that no `lock` loaded; the invariant has
to speak of the others as well, since they share the pages. `Owned`: a buffer's pages
are marked and nobody else's, loaded or not. `Loaded`: a present buffer's pages hold its
blocks. `Counted`: for a buffer that no `lock` loaded the count is what callers hold, so that
`free` of a locked one is refused. `Unmade` describes the buffers to come.

*Memory at boot.* The invariant holds while the machine has not reset and nothing in use was
overwritten (`WhileIntact`), and has nine parts. `Ends` says which ends are known when, and that a
kernel that has got so far had its loader's data in the mapped memory, its sections (lemma
`SectionsFound`: without them the bitmaps would not be mapped) and its bitmaps in place; `Marks`
that what is withheld stays marked and what is lent was not; lemma `RangeCovers` is the loop of
`reserve_range`, which reaches each page of an unaligned region but a partly covered last one,
`BitmapsBehind` that the bitmaps have room for each frame. `KernelEntries` are the directory's own
entries: the last one makes the tables readable, so that `virtual_to_physical` agrees with the CPU
(lemma `SelfMap`). The heart is `UserTables`: the tables of callers' pages lie in frames that were
lent for them, no two in the same, and `paging_test`'s in its own. That none of them is the
directory or `kernel_page_table` follows from `Marks`, as these are part of the image: without the
reservation of the kernel, a fault could be answered with the directory's own frame, and the fault
handler's write would change other pages' walks. With it, a write to one entry changes the walk of
one page (lemma `WriteEntry`), from which `OwnFrames` and `CachedIsTrue`, the two halves of
`PagesApart`, follow. `LowIsLarge` is what makes the one `invlpg` of `init_unmap_0` enough.

*Pointers.* `IInv` of `AtomicsProofs` is `TypeOK`, `Counted`, `Stages`, `OneGroup` and
`Once`. `Counted` is the heart: until the last reference has gone (`Ending`), the counters
are the numbers of owners and of weak references, plus one while there are owners, for
the reference they have in common. It is not inductive without the rest: that the thread
which reads 0, and therefore stores nothing, holds the only reference (lemma `LastGone`)
needs to know what a thread in the middle of a release or of `lock` still holds (`Stages`),
and that the owners' common reference has one holder (`OneGroup`). After the shortcut the
weak counter is one too high; `Once` says that nobody looks at it again. The one
assumption about callers is in the guards: nobody resets a pointer that
another thread is reading.

Model-checked only:

- liveness (`EveryTaskRuns`, `EveryRequestHandled`, `TasksFinish`, `EveryReadReturns`,
  `TimerStopsMotor`, `WalkEnds`): TLAPS has no rules here for fairness and `ENABLED`;
- `HeaderMatches` and `ImplementsKernelHeap`: the walks of `HeapPointers` along pointers are
  recursive operators;
- `ListsTheTree` and `PrintsAsAsked` compare what was printed with the concatenation of what each
  entry or item is to print, which would need induction over trees and formats.

## Not modelled

- *Straight-line set-up*: port writes of the initialisation; `Startup` has their order.
- *C++ runtime*: of the table of destructors `Startup` has `__cxa_atexit`;
  `__cxa_finalize` has no caller. *`stdlib`, `stdio`, `wchar`*: stubs, as far as
  `Conversions` does not call them.
- *Object manager*: declarations only. *The rest of libc++*, the threading stubs, build
  scripts, GRUB image and unit tests: no behaviour of the kernel's own. Most lines of
  the repository are these headers.
- *Functions nobody calls*: `irq::uninstall_handler`, `FAT12DirectoryEnum::reset`;
  `PageDirectory::map_page` checks its arguments and does nothing.
- *Alignment checks*: the exception has an error code but is never enabled.
- *Allocation by tasks*: the pools and the heap are modelled as sequential, as
  they are used: `kmain` allocates, tasks do not.
- *The place of the bitmaps*: `physical::init` puts them behind the kernel without looking
  at the memory map (`physical.cpp:239`); whether there is memory, only that it is mapped
  (`bitmaps_mapped`), is not asked.

## Plan

1. Done: all components with state of their own.
2. Done: theorems about the allocators, the heap, tasks, counters and pointers, the floppy,
   the FAT, the disk cache, memory at boot, the entry of interrupts and the start.
3. Done: theorems about the console under the keyboard's interrupts, and about the keyboard;
   about the loops over memory.
