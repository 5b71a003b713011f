# A verification project for the HeroOS kernel

HeroOS is a small x86_64 kernel in C and assembly: one CPU, kernel threads,
a preemptive scheduler driven by the PIT, a bitmap page allocator, a first-fit
heap, IPC objects, a VFS with an in-memory file system, and a console shell that
runs as a kernel thread. This directory holds TLA+ models of its core, TLC
configurations that check them on small instances, and TLAPS proofs of the
statements that hold for every instance. Paths below are relative to `src/`.

## 1. Inventory

| Component | State | Operations | Hard part |
|---|---|---|---|
| Scheduler `kernel/proc/sched.c` | run queue (linked list), `current`, tick, per-process state, vruntime, sleep_until | `sched_add`, `sched_tick`, `sched_yield`, `sched_sleep` | called both from system calls (interrupts off) and from kernel threads (interrupts on): a tick may fall between any two stores |
| Process table `kernel/proc/process.c` | 1024 slots | `proc_init`, `proc_create`, `proc_exit` | slots are never freed; a full table |
| Context switch `arch/x86_64/cpu/switch.asm` | saved registers | save one, load another | what is on the CPU and what `current` says may differ |
| System calls `kernel/syscall/syscall.c` | none of its own | exit, yield, sleep, kill, getpid, ... | code after a call that switches away |
| Signals `kernel/ipc/ipc.c` | process states | `signal_send` | sequences kill / stop / continue |
| Interrupts `arch/x86_64/cpu/idt.c`, `isr.asm`, `drivers/pit.c` | PIC in-service bit, handlers | IRQ entry, EOI | the EOI follows a handler that may not return for a long time |
| Boot, init `kernel/kmain.c`, `userspace/init/init.c` | services | start-up order, init's sleep loop | who ever gets the CPU |
| Physical memory `kernel/mm/pmm.c` | bitmap, two counters, a hint | init from the memory map, alloc, free, mark | redundant counters updated in five places; ragged maps |
| Kernel heap `kernel/mm/kheap.c` | block list, heap end | kmalloc, kcalloc, kfree, krealloc, growth | list neighbours against memory neighbours; refused growth |
| Message queues `kernel/ipc/ipc.c` | 64 rings | create, destroy, send, recv | redundant head, tail and count |
| Pipes, shared memory `kernel/ipc/ipc.c` | byte rings; page extents with reference counts | create, read, write, close; create, attach, detach, destroy | end of file; destroying what is attached |
| Virtual memory `kernel/mm/vmm.c` | page tables | map, unmap, translate, address spaces | huge pages from `boot.asm` |
| VFS `kernel/fs/vfs.c`, tmpfs `fs/tmpfs/tmpfs.c` | node tree, buffers, mount table | open, close, read, write, mkdir, unlink, mount, unmount, readdir | two ways of cutting a path; nodes freed while in use |
| Keyboard `drivers/keyboard/keyboard.c` | ring of events, modifier flags, pending prefix | IRQ 1, poll, getchar | producer in the interrupt, consumer in a thread; keys of two bytes; the test before `hlt` |
| HeroShell `userspace/heroshell/heroshell.c` | line, saved line, position, history ring | edit a line, walk the history, cut into words, run builtins | array, position and screen kept in step by hand; the ring when full; loops over the VFS |
| Driver registry `drivers/driver.c` | list linked through the drivers, their states | register, unregister, probe all | a probe that fails; unlinking |
| Framebuffer `drivers/framebuffer/framebuffer.c` | pixels, cursor | put a character, scroll, clear; drawing primitives | a height that is no multiple of the font's |
| Library `lib/printk.c`, `lib/string.c` | none | number conversion, C strings | zero, the most negative number, padding |
| Serial, RTC, GDT, boot code | hardware or none | output, set-up | numeric edges |
| HeroServe, HeroPkg, ARM HAL | headers only | no implementation | - |

How they interact. `kmain` runs the initialisers in order, creates init
(`proc_create_kernel_thread`, `sched_add`), enables interrupts and halts as pid 0.
The PIT handler calls `sched_tick`, which may switch threads inside the handler.
init makes directories, starts the shell and sleeps in a loop. User processes
would enter through `int 0x80`, an interrupt gate. `proc_create` takes its memory
from the heap and the page allocator; the heap takes pages from the page
allocator; IPC objects and tmpfs nodes live in the heap.

What makes each part correct: one running process, nobody lost from the run
queue, nobody revived, no wake-up missed, idle only as a last resort, fairness
(scheduler); saved contexts belong to their owner (context switch); every
service gets the CPU (boot); counters exact, no page with two owners, no panic
while memory is left (page allocator); blocks tile the heap and clients' pointers
stay valid (heap); FIFO order (queues); no dangling directory entry, sizes inside
buffers, exact reference counts, one meaning per path (files); every key read
once, in order and as typed (keyboard); the screen, the line and the history agree
(shell); the screen shows the end of the text (terminal); numbers read back as
themselves (library); tables before interrupts, every driver probed (boot, drivers).

The components with their status are in `PROJECT.json` under `components`, and
the behaviours that are hard to test, each at its line, under `hazards`.

## 2. Modules

| Module | Models | Composes |
|---|---|---|
| `SchedOps` | the pure part of `sched.c`: weights, `pick_next`, the wake-up scan | |
| `Sched` | scheduler, process table, signals and system calls, each call one step | `SchedOps` |
| `SchedProofs` | theorems about `Sched` | `Sched` |
| `SchedPreempt` | the same code called by kernel threads, one step per store, with the context switch | `SchedOps` |
| `Kernel` | the booted kernel: interrupt controller, timer, keyboard line, init | `SchedPreempt` |
| `Devices` | interrupt tables, handlers, driver registry | |
| `Boot`, `MCBoot` | `kmain` from its first step on; tag lists for it | `Kernel`, `Devices` |
| `KernelProofs` | theorems about `SchedPreempt`, `Kernel`, `Devices` and `Boot` | `Boot` |
| `Pmm`, `MCPmm` | page allocator; a small memory map for it | |
| `PmmProofs` | theorems about `Pmm` | `Pmm` |
| `Paging` | page tables, mapping of ranges, address spaces | `Pmm` |
| `AddressMap` | the abstract specification: a translation is a function | |
| `Shm` | shared memory regions | `Pmm` |
| `Memory`, `MCMemory` | the allocator with both clients; tables of three entries for them | `Paging`, `Shm` |
| `MemoryProofs` | theorems about `Memory`, the refinement of `AddressMap` | `PmmProofs`, `Memory` |
| `KHeap` | kernel heap over an abstract page supply | |
| `KHeapProofs` | theorems about `KHeap` | `KHeap` |
| `MsgQueue` | message queues | |
| `FifoQueues` | the abstract specification: bounded FIFO queues | |
| `Pipe` | pipes | |
| `ByteStream` | the abstract specification: a bounded stream with end of file | |
| `Keyboard` | keyboard driver and the loop that polls it | |
| `Shell` | line editor, history, tokenizer | |
| `LineEditor` | the abstract specification: a line, a draft and a history | |
| `Terminal` | text on the framebuffer | |
| `Format` | numbers as text | |
| `Services`, `MCServices` | the components that share no state, side by side; keys for them | `MsgQueue`, `Pipe`, `Keyboard`, `Shell`, `Terminal`, `Format` |
| `IpcProofs` | theorems about `MsgQueue` and `Pipe`, the refinements of `FifoQueues` and `ByteStream` | `Services` |
| `ConsoleProofs` | theorems about `Keyboard`, `Shell`, `Terminal` and `Format`, the refinement of `LineEditor` | `IpcProofs` |
| `Tmpfs`, `MCTmpfs` | VFS, tmpfs and the shell's `ls`; paths for them | |
| `TmpfsProofs` | theorems about `Tmpfs` | `Tmpfs` |

`PROJECT.json` maps each definition to its source lines. Operators commented
"Fault: ..." are deliberately wrong variants of the definition that follows them.
They belong to no specification; substituting one for the right definition must
make the property named under `mutants` fail, which shows that the property
depends on the code.

### Scheduler, atomically: `Sched`

`int 0x80` is an interrupt gate, so a system call runs with interrupts off until
it returns or switches: one action per call, and `sched_tick` is one action. The
variables are the fields of `process_t` and `g_runqueue`; the list is the
sequence `queue`, a null slot is the state `"FREE"`. `inExit` holds the processes
that were switched out inside `sys_exit`, whose second `sched_yield` is
`sys_exit_rest`. `exited` is a history variable. A full table is `spawn_no_slot`:
`pid_t` is unsigned, so `pid < 0` is never true and the store goes far outside the
table; the model ends there. A failing `kcalloc` in `proc_create` and signals that
are only logged change nothing and are stuttering steps.

### Scheduler, store by store: `SchedPreempt`

Kernel threads call the same functions with interrupts on. `cpu` is what the
processor executes (thread, place in the code, the local `next`, whether it is in
the handler) and `ctx[p]` what `context_switch` saved for `p`. A tick may come
between any two stores. The windows this opens between `g_runqueue.current =
next` and `context_switch` are real: a tick there saves the running thread in
another thread's context. Such a state is not `ContextsSound`; nothing that follows
can be predicted, so `Next` stops there and the properties speak of what precedes and of
the step itself. Whether such a state is ever reached is a question about the booted
kernel (`TimerHeldByIdle`). `SchedPreempt` states no fairness: `irq_common_handler` does not
send the EOI of a tick that has switched away, so nothing guarantees the next one.

### The booted kernel: `Kernel`

`pic_remap` leaves automatic end of interrupt off and `irq_common_handler` writes
the EOI after the handler returns. When `sched_tick` switches away inside the
handler, IRQ 0 stays in service until the interrupted thread runs again
(`inService`). The keyboard contributes its interrupt line and a count of events.
`SleepersOnCpu` is the consequence for sleepers: no tick would wake one, and none needs it.

### The boot: `Devices`, `Boot`

`boot` names the step of `kmain` that comes next. Steps that allocate may end in
`kernel_panic`; the loader's tag list decides whether there is a framebuffer, and
`fb_init` whether its address is usable. `drivers_probe_all` is one step per driver,
over the list as it is linked. Once interrupts are on, the steps are those of
`Kernel`, behind whatever handler each line has, and a thread may register, remove
and probe drivers. A third driver without a probe function stands for any other.

### Page allocator: `Pmm`

The bitmap is the set `free`. `pmm_init` is a sequence of steps (map entries, low
memory, kernel image); then any client may allocate, free or reclaim a region. `held`
records the extents clients own. `free_stale` is a free by somebody who does not own the
extent (any more): the pages may be free, partly free, or another client's by then, who
is left with the rest of what it held.

### Virtual and shared memory: `Paging`, `Shm`, `Memory`

A virtual page is a number whose four digits in base `Entries` are the indices into
the four levels; the tables `boot.asm` leaves are the initial state. A range call is
walked one table at a time, because `get_or_create_table` allocates and other clients
may act in between; `job` is how far it has come. `Memory` lets page tables, address
spaces and shared memory draw on one bitmap. Two steps end a behaviour, since nothing
can be said of what follows: `follow_huge` (neither `get_or_create_table` nor
`paging_unmap` looks at `PTE_HUGE`, so mapping inside the identity map, which is where
`vmm_alloc_pages` begins, overwrites a word of memory that is no table) and
`vmm_switch_address_space` (a new PML4 maps nothing, the kernel included). In the
kernel as it stands only `vmm_create_address_space` has a caller, `proc_create`; the
others are the interface as any client would drive it. The range functions ignore
the address space they are given. `AddressMap` is what a client may expect of the four
levels: one function from virtual pages to physical ones, that a call changes at its own
pages only.

### Heap: `KHeap`

`blocks` is the list in order, with byte addresses and sizes, headers of 40 and
footers of 16 bytes. The page allocator is represented by what it does while
nothing is freed: each run follows the last one handed out. `other_client` takes
pages in between. Pages never come back in this model, because nothing in the kernel calls
`shm_destroy` or `vmm_destroy_address_space`, the only two that return any. With pages
coming back, a run of the heap could lie inside a block that was merged over foreign
pages (`KHeap_shared`), so that blocks overlap; nothing is claimed of that case.

### Message queues: `MsgQueue`, `FifoQueues`

Rings with `head`, `tail` and `count`; `ret` is the last call with its outcome, so
that the refinement relates return codes and delivered messages, call by call.

### Pipes: `Pipe`, `ByteStream`

`pipe` is a `pipe_t` with its positions modulo the width of `size_t` (`PosMod`, which the
ring's size must divide). A call is one step. No function of the repository stores
`write_closed` or `read_closed`: `close_end` is the client doing so.

### Keyboard: `Keyboard`

A stroke is the byte or the two bytes the device sends; each raises IRQ 1, whose
handler is one step. `keyboard_poll` runs with interrupts on, so its test, its copy
of the event and its store to `kbd_head` are steps of their own, the last two in
either order since nothing is volatile; so is the `hlt` that follows an empty poll. A tick
may wake a halted CPU and is not relied on.
`typed` is the history of accepted strokes with the case they were typed in.

### Shell: `Shell`, `LineEditor`

Lines are arrays of `SHELL_LINE_MAX` characters with a terminator and whatever was
behind it before, copied with `strncpy`; `pos`, `hist_nav` and the ring are the code's.
`shown` is the console's last line: "\b \b" takes a character off it. `LineEditor` is what
the user is promised, on sequences: `EditorSpec` shows that stale bytes behind a
terminator, the ring's head and the navigation index never show through. The
words of a line are defined apart (`Words`, by where they start) and `tokenize` compared
with them. `SkipBlanks` and `SkipWord` are its two inner loops, `TakeWord` one turn of the outer.

### Terminal: `Terminal`

A pixel row is one entry per character column, naming the character and the row of
its glyph, so that scrolling by pixel rows and the rows left over below the last
line of text are told apart. `term_start` is what the start of the machine does to it:
`fb_clear` in `fb_init`, and `fb_term_init` twice before the first character, from `kmain` and
from the driver's probe; nothing else calls them. The reference is a typewriter (`Paper`) on a sheet without
end, of which the screen must show the last lines.

### Numbers: `Format`

`print_uint`, `print_int`, the conversions of `vprintk`, `utoa` and `itoa`, on two's complement
integers. One call is one step and leaves nothing behind. The digit loop is unfolded into
its turns (`TakeDigit`); a long has no more digits than bits, the size of the code's buffer.
The reference (`ReadBack`) reads the text back as a number, from the left.

### Side by side: `Services`

Queues, pipes, keyboard, shell, terminal and formatting share no state. The shell
knows the keyboard through the events of `keyboard_poll` alone and is checked for
every sequence of them; `printk` writes to the serial port, not to the terminal. The
product would add states and no behaviour, so one component moves while the others
are as they began.

### Files: `Tmpfs`

Paths are kept as their text cut at the slashes, empty components included,
because `vfs_mkdir` and `vfs_resolve_path` treat those differently. Nodes are
inode numbers. `ls` holds the locals of `builtin_ls`, whose `dirent` starts
uninitialised. A client whose node was unlinked under it takes no further step on
that node. Calls that return an error change nothing and are not steps. "." is a name like
any other, as in the code; `AsMade` says where `vfs_mkdir` makes a name without a slash. A
write whose `offset + size`, or its `ALIGN_UP`, wraps in 64 bits (`SizeMod`) would write outside
the buffer, or free it and go on using it: the model ends there.

## 3. Runs

| Run | Checks | Bounds, and why they are enough |
|---|---|---|
| `Sched_core` | `RunningIsCurrent`, `QueueExact`, `IdleIsLastResort`, `LeastServedFirst`, `KilledStaysDead` | idle and three processes, quantum 2, four ticks, vruntimes modulo 3 so that they wrap: enough for two slices, a sleeper, a killer and a stopped process, and for one creation too many |
| `Sched_offcpu` | fails: a process that sleeps or exits does not run meanwhile | two processes |
| `SchedPreempt_core` | `CurrentOwnsCpu`, `TickLosesNobody` | two threads and idle, quantum 2, vruntime modulo 4 so that the state space is finite and wraps are included |
| `Kernel_boot` | `TimerHeldByIdle`, `SleepersOnCpu`, `BootOrder`, `RegistryIsList`, `ProbeReachesAll`, `BootStartsInit` (liveness) | init, shell and idle, the real quantum of 10; three drivers, so that one is removed from either end or the middle; no framebuffer, one, and one behind the end tag |
| `Kernel_shell` | fails: the shell gets the CPU | as above |
| `Pmm_api` | `CountExact`, `HeldSafe`, `FreeEndsInRam`, `HintIsLowerBound`, `ReservedNeverHeld`, `PanicOnlyWhenOut` | 12 pages, a map with entries that begin and end inside a page and one that is oversized, requests of 0 to 3 pages: fragmentation, exhaustion, wrap of the scan and frees of what has another owner all occur |
| `Memory_core` | `TableTree`, `RegionsApart`, `MapSpec` (refinement of `AddressMap`) | nine pages, four of them the boot tables, tables of three entries, two regions: a range across two page tables, one under a PML4 entry of its own, one inside the identity map, a region created where a destroyed one was, memory running out in the middle of a walk |
| `Services_core` | `RingConsistent`, `FifoSpec` (refinement), `PositionsAgree`, `StreamSpec` (refinement), `KbdFifo`, `KeysBeforeHalt`, `ShownIsLine`, `TokenizeIsWords`, `EditorSpec` (refinement), `ScreenIsText`, `PrintedReadsBack` | two queues of two slots, two messages; a pipe of three bytes, calls of up to four, positions modulo six: full, empty and wrapped rings, either position wrapped before the other. A keyboard ring of three slots, plain and prefixed keys, Shift and Caps Lock: a key dropped, a prefix and its byte with a read in between. Lines of up to three characters, a history of two: a full line, a ring that has turned, lines edited in the middle of the history. A screen of five pixel rows with a font of two and two columns, five characters: wrapping, scrolling and a row left over. Longs of eight bits and ints of four: every number, base and padding |
| `KHeap_core` | `BlocksTile`, `LiveMatchesUsed`, `FreeNeighboursOnlyAtRuns` | two sizes, growth once and refusal, foreign pages in between |
| `KHeap_shared` | fails: blocks stay in pages of the heap | three sizes, eight pages |
| `Tmpfs_core` | `TreeSound`, `RefCountExact`, `DataCovered`, `MadeIsFound` | four nodes, two handles, directories of two entries, paths of up to two components, one through ".", one with a trailing slash and a relative one; writes that end at the capacity, one past it, and where the sum wraps |
| `Tmpfs_ls` | fails: a listing ends | as above |

Type invariants are part of the invariants that are proved (section 4) and not
repeated in the runs. Deadlock is not checked where the model has a bound on
ticks, pages or nodes, or a panic, at which it stops.

**Fairness.** `Kernel` and `Boot`: weak fairness of the interrupts, each only while the
controller lets it through (the PIT requests one every millisecond and the PIC keeps the
request latched until it is taken), and of the thread that has the CPU (a processor
executes). Nobody has to press a key. `Boot` adds that `kmain` runs on. `Tmpfs`: the shell
goes on with its loop. The other specifications state none; in particular no tick is
assumed that preempts a thread or wakes it from `hlt`, as the timer falls silent with the
first dispatch (`TimerHeldByIdle`).

### What the failing runs show

* `Sched_offcpu`: `sched_yield` stores READY over the SLEEPING or ZOMBIE its caller
  has just stored, so the caller may be chosen again at once.
* `Kernel_shell`: after the first dispatch out of idle no EOI is sent, no tick
  arrives, vruntimes stand still, and init's sleep always returns to init.
  `TimerHeldByIdle` states the cause and passes; it also keeps the races of
  `SchedPreempt` from happening (its conjunct `ContextsSound`). Repairing the EOI would
  expose them.
* `KHeap_shared`: `kfree` merges list neighbours that do not touch in memory.
* `Tmpfs_ls`: `vfs_readdir` ignores the error of the file system's `readdir` and
  looks the previous name up again, so `ls` never ends on a directory with entries.

Other divergences met while modelling, visible in the modules and without a run of
their own: SIGSTOP to oneself is undone by one's next yield; a zombie stopped and
continued is READY again (`KilledStaysDead` excepts it, and shows that nothing else does
it); `pid_t` is unsigned, so the test for a full process table is dead code and
`proc_create` stores far outside the table (`spawn_no_slot`); a key that arrives between
`keyboard_poll`'s test and `hlt` stays in the ring until the next interrupt, if there is one;
the weight `256 - priority`
favours large priority numbers; a newcomer at vruntime 0, and a vruntime that
wraps, break fairness; refused growth of the heap
loses the pages it took; `O_CREAT` is ignored by tmpfs, so `/etc/motd` is never
made; two directories of one name may be made; mounts elsewhere than on `/` are
recorded and never consulted; `shm_destroy` ignores the reference count; a huge page
is taken for a page table; a `pipe_read` of no bytes returns 0, as at the end of file, and a
`pipe_write` of none EAGAIN; `boot.asm` maps the first GiB only where its comment says
two, since the second entry of `pdpt_low` is never set. Available map entries that share a
page are counted twice, and the page in which an unaligned entry begins is freed although
part of it lies outside (`FreeEndsInRam` is what holds for every map); a relative path of one component is made in "/." by `vfs_mkdir` and looked for in "/" by `vfs_open`; queue identifiers are never reused. Releasing either Shift key
clears the flag for both, and Caps Lock changes digits too; `keyboard_getchar` (no caller)
halts again after a key without a character; the keyboard's handler stays in place
after `driver_unregister`, and a second `driver_register` of one driver would tie the list
into a loop. A tab is shown wider than Backspace erases it; a framebuffer lower than
one character makes the cursor's row wrap. `%lo` and `%lb` ignore the length,
a negative number padded with blanks has them after its sign, `%-20s` (used by
`driver_list`) is no conversion `vprintk` knows, and a format that ends in `%` is read past
its end. The RTC is read after one look at the update flag, the PM bit is lost in
BCD, 12 PM becomes 24, and the leap days of the epoch are off. The double fault's
gate names a stack (IST 1) that nothing sets up.

## 4. Proofs

All proofs are checked by TLAPS (SMT, Zenon, and LS4 for the temporal steps). A theorem
holds for every value of the constants that satisfies the named assumptions; TLC
evaluates these on the small instances. Each is stated about the specification that
a run checks, and names the property of that run.

Where an argument needs an induction over data (the entries of a list, the components
of a path, the bytes of a copy), the proofs take the least element of a set of
counterexamples: the library's induction theorems have an operator as a parameter, which
the provers cannot instantiate, but the theorem that a nonempty set of natural numbers has a
minimum has a set.

**`SchedProofs`**: `SchedTypes`, `OneRuns`, `NobodyIsLost`, `IdleOnlyWhenNothingReady`,
`LeastIsServed`, `DeadNeverRun`. Assumptions: `SchedOpsAssumption`, `SchedAssumption` (ranges of
the constants). The invariant adds `SlotsInUse` to the types, `RunningIsCurrent` and
`QueueExact`: pid 0 and the current process have a slot. Without it a hand-over might
create a process that is not queued. The argument goes through one fact, `HandOver`:
whatever step calls `switch_to` on the choice of `pick_next` keeps the slots in use, leaves
one RUNNING process at most and gives the CPU to idle only if nothing is READY. For
`LeastIsServed` it is `QueueExact` that carries the choice from the entries of the queue to
all processes created. For `DeadNeverRun` the invariant adds `DeadOffCpu`: a zombie on the
CPU would make itself READY at its next yield.

**`KernelProofs`**: `CurrentIsOnCpu` and `TickKeepsRunnable` of `SchedPreempt`, for any number of
threads and a tick between any two stores; `NoTickUnderThreads`, `SleepersNeedNoWakeUp`,
`BootIsOrdered`, `RegistryStaysList`, `EveryDriverIsProbed` of the kernel from the first step of `kmain` on.
Assumptions: those of `SchedOps`, `SchedPreemptAssumption` (pid 0 is not the only slot),
`KernelAssumption`. `CpuInv` says what `CurrentOwnsCpu` leaves open: no saved context is
between the publication of a choice and the switch, since a tick there is what
`ContextsSound` excludes; and a switch under way goes to another thread. `TickKeepsRunnable`
covers the steps into such a state too: a thread may be lost RUNNING between the
publication and the switch, and nowhere else. `HeldInv` is the
state the missing EOI freezes: every thread but idle has the context it was created
with, since none has ever been switched out, and idle's is inside the handler as soon as
the timer is in service. `DevInv` relates the links to the list of registrations position by
position (`Linked`) and says which drivers a probe has already passed (`AtEntry`); `Tables`,
`DriversOn` and `Processes` say which steps of `kmain` have left what, for each value of `boot`.

**`PmmProofs`**: `PmmTypes`, `CounterIsExact`, `OwnersAreApart`, `PanicIsJustified`, `HintIsBelow`,
`ReservedIsSafe`, `FreePagesAreRam`, for every memory map. Assumptions: `PmmAssumption` and
`MapAssumption`: the pages that available entries are cut to do not overlap.
`FreePagesAreRam` has no further one: an entry may begin and end anywhere. The invariant adds `FreeFromPastEntries` (while the map is read, free pages come
from entries already passed, so the next entry's pages are all new to the counter),
`NothingHeldAtBoot` and `HintAtBoot`; `Known`, the pages that are free or held, grows by
`pmm_mark_free` alone once `pmm_init` is over, which carries `ReservedKept` and `KnownIsRam`.

**`MemoryProofs`**: `RegionsStayApart`, `TablesFormTree` and `TablesTranslate`, of the allocator with all
its clients. Assumptions: those of `Pmm` and `PagingAssumption` (tables of more than two entries;
the boot tables are four different pages of the kernel image; a range that is mapped ends
with the address space at the latest, whose 48 bits the indices cover). The first rests on
`Owned`: every table beyond the boot tables, every address space and every region holds its
extent, and no extent serves two of them, so `HeldSafe` keeps their pages apart; `KernelKept`
keeps the boot tables out of the allocator's reach. The second adds that a walk is in a
table of the level it has come to (`WalkInTable`), which other clients' frees must not change,
that an entry points one level down (`Linked`) and that no two entries share a table
(`OneParent`). `TablesTranslate` is the refinement of `AddressMap`. Its invariant `MapInv` says
that the huge entries are those of `pd_table`, unchanged (`HugeInPd`), that what `boot.asm` built is
still there (`BootKept`), that a walk in progress stands where the digits of its address lead
(`OnPath`), that what is left of a range fits (`CallFits`), and that, unless one
is being mapped, no user heap has moved from its start (`HeapsAtStart`), which lies under a huge
page, so that its mapping never stores.
A number is its digits (`DigitByDigit`, `SameDigits`); with `OneParent` two pages that reach one
entry of a page table have all digits alike (`OwnEntry`), so a store changes the translation of one page.
A table newly linked is empty, and where it is linked nothing was translated before.

**`KHeapProofs`**: `HeapIsTiled`, `BlocksHaveOneOwner`, `FreeBlocksAreMerged`.
Assumption: `KHeapAssumption`. `Sound` says of a list, whoever owns its blocks, that they lie one
behind the other below the pages not yet handed out (`Ordered`), that they fill the heap if
its runs touch (`Tiles`) and that free neighbours meet at runs only (`Apart`). Splitting a
block, handing it out whole, absorbing the next and appending a run each keep it, shown
for any list at any position; `kmalloc`, `kfree` and `krealloc` combine them. `Counted` ties
`heap_end` to whole pages: if the runs touch after the heap has grown they touched before
(`TouchBefore`), so a gap that refused growth or foreign pages have left is never closed
again, and the tiling claimed for touching runs need not be recovered. `Owns` is a bijection between used blocks and allocations, stated without
cardinalities; these follow at the end (`UsedAreCounted`). All three speak of a page
supply that takes nothing back, as `KHeap` says.

**`IpcProofs`**: `RingSafe` and `QueuesAreFifo`, the refinement of `FifoQueues` by the rings, for
every capacity; `PipeCountsItsBytes` and `PipesAreStreams`, the refinement of `ByteStream`.
Assumptions: `MsgQueueAssumption`, `ZeroAssumption`, `PipeAssumption` (the ring's size divides the
range of the positions). The queues' invariant adds `LiveIsIssued`, without which a creation
might reuse a live queue. The lemmas on modular indices (`Wrap`, `Advance`, `Apart`) show that
a send appends to, and a receive takes the head of, the sequence the ring stands for. For
the pipe, what the copying loops do is one fact per loop (`Taken`, `Put`) shown for all counts.

**`ConsoleProofs`**: seven theorems, each about one component and every size of it.

* `KeysAreFifo`. Assumption: `KeyboardAssumption` (a stroke is one byte, or the prefix and one
  byte, neither being the prefix). `EventsMatch` relates the ring from `kbd_head` on to the keys
  typed, shifted by one while the reader has advanced and not yet copied (`Taking`): the slot
  it is about to copy is not in the ring any more, and `ReaderOK` shows that the interrupt
  cannot have written it, because one slot is always left empty.
* `HaltsWhenAllRead`, from the same invariant: an empty ring found by the test is an empty
  `typed`, since nothing is taken and not yet handled at that point.
* `ConsoleShowsLine`. Assumption: `ShellAssumption` (printable characters are none of NUL, LF, BS,
  ESC). `ShellInv` adds that both buffers end in a terminator that no key overwrites and
  that every history entry is a string: `strncpy` alone stores none.
* `TokensAreTheWords`. The inner loops stop where a word begins and ends (`BlanksSkipped`,
  `WordSkipped`); `OneTokenMore` says that a turn of the outer loop adds the next word to those
  before it (`Tokens`), and `NthWord` that the words that start below a position are counted.
* `ShellIsLineEditor`, the refinement of `LineEditor`: `EditInv` adds to `ShellInv` the bounds of
  the ring and of the user's place in it. `HistAdded` is the step in which the ring may turn:
  the lines `hist_get` gives are the new one before the older ones, the oldest dropped when
  the ring is full. One lemma per key relates it to the step of the editor it stands for.
* `ScreenShowsText`. Assumption: `TerminalAssumption` (the screen holds one line of text).
  `TermInv` says that the frame shows the last lines of the paper (`OnScreen`, `Shows`);
  drawing a character (`DrawShows`), a line feed (`NewLineShows`) and a scroll by one font height
  (`ScrollShows`) each keep it. The paper is a fold over what was written, which `PaperGrows`
  unfolds at its last character.
* `NumbersReadBack`. Assumption: `FormatAssumption` (an int is no wider than a long, and a long
  is a whole number of hexadecimal digits, which `%p` relies on). A quotient of a number below
  2^n by a base of at least two is below 2^(n-1), so the turns the buffer has room for
  exhaust the number (`LoopShrinks`); quotient and remainder give the value back digit by digit
  (`DigitsSpell`); the reading from the left passes over the sign, the prefix and the padding
  (`SpelledReads`). The most negative number is its own negation and, read as unsigned, its
  absolute value (`IntReads`, `ItoaReads`).

**`TmpfsProofs`**: `TreeStaysSound`, `CountsAreExact`, `BuffersCoverFiles`, `MadePathsAreFound`.
Assumption: `TmpfsAssumption`. The invariant `FsInv` adds that nodes not yet made or freed have no entries and no
references left over for their next use (`Unmade`), that the directory a listing reads is one
of the handles counted (`Opened`), so that its close finds a reference to drop, and that the
buffers of freed nodes are covered too (`Covered`). `MadePathsAreFound` compares two ways of
reading a path: `AllWalk` unfolds the walk of `vfs_resolve_path` into its turns for paths of
every length, and a step that appends a node to one directory changes no turn before it;
`MadeSplits` says that `AsMade` of a path is the directory `vfs_mkdir` cuts off and the name it makes.

Only model-checked: liveness (`BootStartsInit`), since this prover handles neither fairness
nor `ENABLED`; and the four runs that fail, whose counterexamples are TLC's. Every
other property of a run is stated by a theorem.

## 5. What is not modelled

Serial and RTC ports: the driver waits for a status bit, or copies what the device
gives, and keeps no state. The drawing primitives (`fb_draw_line`, `fb_draw_rect`, ...) set
pixels; the font is data. The string functions other than `strlen`, `strncpy`, `utoa` and
`itoa` are loops over one buffer. GDT and boot assembly, apart from the page tables,
are straight-line hardware access before the first interrupt. Exceptions end in
`kernel_panic`. HeroServe, HeroPkg and the ARM HAL have headers only. `proc_kill`,
`sched_remove`, `sched_wake`, `kmalloc_aligned`, `tmpfs_unmount`, `keyboard_getchar` and
`irq_unregister_handler` have no caller. `vfs_rename` and `vfs_path_canonicalize` are stubs.

## 6. Plan

1. The heap under preemption: `KHeap` with one step per store and `proc_create` split
   at its allocations, composed with `SchedPreempt`.
2. The repairs the failing runs suggest (the EOI before the handler's switch, `sched_yield`
   that leaves a state other than RUNNING alone, a merge that compares addresses, `sti` and `hlt`
   in one), each as a
   variant of its action, with the property that fails today as what it must restore.
