# A TLA+ model of the Eron kernel

Eron is a 32-bit kernel: a heap, a process table with a round-robin scheduler,
a flat-array file system, a PS/2 keyboard driver, a text terminal and a shell
that runs on the kernel's own thread. These modules model the parts that decide
something, TLC checks them on small instances, and TLAPS proves every safety
property of the passing runs for every size: of the heap, the scheduler, the
kernel's use of it, the file commands, the keyboard driver, the screen and the
shell. `PROJECT.json` maps each definition to the lines it models and lists the
runs, the hazards they are aimed at and the theorems.

    tlc -workers 2 -config MCHeap.cfg MCHeap      # one run
    tlapm HeapProofs.tla                          # one set of proofs

## The system

There is one CPU. Ring 0 is never preempted: the timer only switches when it
interrupted ring 3 (`timer.c:21`), and a system call or fault enters through
an interrupt gate, interrupts off. So two threads of kernel code interleave
only where one calls `schedule()`, and the only code that runs *between* two
accesses of kernel code is an interrupt handler, which needs interrupts on.
That decides the grain of the models: a kernel function that neither switches
nor races with a handler is one step, and the others are split.

| Part | State | Operations | Met by |
|---|---|---|---|
| Heap, `mm.c` | chain of block headers in the arena, table of 256 tracked pointers | `mm_init`, `kmalloc`, `kfree`, `kfree_all`, `mm_used`, `mm_free`, `mm_total` | `memtest`, `free`, `/proc/meminfo`, SYS_MALLOC, SYS_FREE |
| Processes, `process.c` | `procs[]`, `current_proc`, `next_pid`, `esp0` of the TSS | `proc_init`, `proc_create`, `schedule`, `proc_yield`, `proc_exit` | `exec`, timer, system calls, faults, main loop |
| Interrupts, `interrupt.c`, `boot.S` | EFLAGS.IF of the running context | timer, keyboard, faults, `swtch`, `trapret` | CPU |
| Timer, `timer.c` | `ticks` | `timer_tick` | PIT |
| System calls, `syscall.c` | none of its own | 35 numbers, of which seven do something | user processes |
| Keyboard, `teclado.c` | ring of characters, modifiers | `keyboard_irq`, `keyboard_getchar` | IRQ 1; main loop |
| Main loop, `kernel.c` | none | drain the keyboard, reap zombies, `sti; hlt` | boot |
| Terminal, `tty.c` | text memory, cursor | `terminal_putchar`, `terminal_scroll`, `terminal_clear`, `terminal_writestring` | shell, SYS_WRITE, the echo of the keyboard interrupt |
| Program registry, `task.c` | table of 32 programs | `program_register`, `program_find` | shell |
| Shell, `shell.c` | command line, services, batch mode | `shell_input`, `shell_run_script`, `execute_command`, 34 commands | main loop, boot |
| File system, `vfs.c` | `nodes[]`, `node_count`, one data buffer per node | `vfs_*` | shell, SYS_OPEN, SYS_MKDIR, boot |
| Virtual memory, mouse, ELF, display, descriptor tables | see "Not modelled" | | |

What is hard here: the heap's chain is edited in place by splits and merges
while loops walk it; the scheduler has to keep five fields consistent through
any order of creates, yields, exits and recycled slots; `swtch` does not save
EFLAGS, so a kernel thread resumes with somebody else's interrupt flag;
SYS_SLEEP waits for the clock inside a handler entered with interrupts off;
the keyboard interrupt falls between the accesses of `keyboard_getchar`, and
between the last empty check and `hlt`; the same interrupt draws on the screen
in the middle of the kernel thread's own drawing; script and command line are
cut into words in place while they are still read; a file command makes
several VFS calls of which a later one may fail.

## Modules

| Module | Models |
|---|---|
| `Allocator` | what an allocator promises: disjoint grants inside the arena, ended only by their own release |
| `Heap` | `mm.c`, refining `Allocator` |
| `UserHeap` | SYS_MALLOC and SYS_FREE over `Heap` |
| `Process` | `process.c` used by any client |
| `Kernel` | main loop, `exec`, system calls, faults and timer over `Process` |
| `KeyQueue` | a bounded FIFO |
| `Keyboard` | `teclado.c` with the main loop and `shell_input`, refining `KeyQueue` |
| `Terminal` | `tty.c`, each call as a whole, and the roll of paper it promises to be |
| `Console` | the kernel thread's output by single accesses, the echo, line editing and SYS_WRITE over `Terminal` |
| `Shell` | `task.c`, the boot script, line buffer, parsing, dispatch and services |
| `Rtc` | the `date` command against a running clock |
| `Vfs` | `vfs.c` and the shell's file commands |
| `HeapProofs`, `ProcessProofs`, `KernelProofs`, `VfsProofs`, `KeyboardProofs`, `ConsoleProofs`, `ShellProofs` | theorems about the module of that name |
| `Induction` | induction and recursion over the naturals, for the proofs |
| `MC...` | instances for TLC |

Definitions whose comment begins with "Mutant" are wrong variants of the
definition that follows them; they show that each property can fail.

### Heap

`hdrs` maps the address of each header of the chain to its size and flag. A
header that a merge absorbed is dropped from `hdrs`: the bytes stay in memory,
but a cursor that reached them would be off the chain, and `LoopInvariant`
says that none does. The magic number is right exactly for the addresses in
`hdrs`, which makes `is_block_valid` a test of membership. `tracked` is the
pointer column of the table; its size column is never read. `pc`, `cur` and
`slot` are the program counter and cursor of the call in progress: each loop
iteration is a step, so that a property can look inside a pass. `live` is the
history of what clients hold. `kfree` is called with every address of the
arena, so double frees, stale and interior pointers are all tried. `kmalloc`
rounds in 32-bit arithmetic (`WordSize`).

### Process and Kernel

`Process` keeps state, pid and context of each slot, the current slot,
`next_pid` and the slot whose stack the TSS names. `ctx` tells apart a context
that `proc_create` prepared, one that `swtch` saved, and none. `waits` is a
history variable. Exit codes, names and the parent table, which nothing reads,
are left out. Its clients may create, yield and exit in any order; the real
kernel is a narrower client, because `exec` waits for its child, so that at
most one user process exists. `Kernel` models that client and its run checks
that it only uses the table as `Process` allows (`ProcessSpec`), which
`KernelUsesProcess` proves, hence that the theorems apply to it.

`Kernel` adds where the kernel thread is (`kpc`), which user process is in
the loop of SYS_SLEEP and until when (`target`), the tick counter and the
interrupt flag `intr`. The flag is set by `sti` and by an `iret` to user mode,
cleared by an interrupt gate, and otherwise carried across a switch
(`Resumed`).

Ticks and targets are words that wrap at `WordSize`, for 2^32, and SYS_SLEEP
may be asked for any word. So the clock goes back to second 0 after
`LastSecond`, which lasts less than a second as 2^32 is no multiple of 100; a
large argument wraps the sum and asks for an earlier second, in which case the
call returns at once or early; and a sum above `LastSecond` (497 days) asks
for a second that never comes. The last two need no long uptime, since the
argument is the program's choice. `SleeperWakes` is about every
target the clock has, and `ExecReturns` names the others (`Oversleeps`).

The entry of a program is "zero" (not an executable), in kernel range (the
programs linked into the image), in user range or above. No program in the
repository has an entry in user range: only an ELF image stored in a file
would have one. The model includes it, since everything behind it is there
for it.

### Keyboard

The interrupt handler is one step and may come between any two steps of the
main loop: the check, the read and the advance of `keyboard_getchar`,
`shell_input`, the command, and `hlt`. Scancodes are classes: a letter, Enter,
Backspace, a digit, the modifiers, releases and ignored codes. Enter belongs
to the range that Caps Lock shifts (scancodes 0x10 to 0x32), without effect.
The echo that the handler writes to the terminal is in `Console`.

### Terminal and Console

`Terminal` has the functions of `tty.c` as operators on a record of text
memory, row and column; colours are left out. Calls made with interrupts off,
the echo and SYS_WRITE, are one such step. The kernel thread's calls run with
interrupts on, so `Console` takes them apart into the loads and stores of the
compiled code: `terminal_putchar` loads row and column once (`reg`), stores
the column before the row, scrolls cell by cell (`k`) and stores the last row
at the end. The statics are not volatile, so another compiler may order the
accesses differently; the model is of the one order that the makefile's
options give. `Cells` includes one row below the screen, because an echo that
comes while the thread scrolls finds `row = VGA_HEIGHT` and writes there: text
memory goes on behind the screen, so that this is lost and harms nothing.

`todo` is what the kernel thread has still to print and `after` what it does
then. What commands print is any of `Outputs`. `queue` is the key buffer, by
`QueueSpec` of module `Keyboard` a FIFO. `roll` is a history variable, the
abstract screen, forgotten when an echo falls inside a call (`torn`) until the
next `clear`. `disturbed` remembers whether something happened since the last
Enter after which the line shown is *known* to differ from the line kept: a
character struck while the kernel still prints or has an erasure or Enter
queued, a tab, a character for which buffer or line has no room, an erasure at
the left edge. `EchoMatchesLine` says that nothing else makes them differ.

### Shell

`prog_table`, `cmd_buffer` and the script are the arrays of the code, with
terminators in place. One letter may stand for a whole name, so that the real
names of programs and the real `/etc/init.rc` take few cells; word comparison
is then comparison of sequences. `ParseWord` is one round of the loop of
`parse_args`, which returns the array it has cut. `typed` is what the user
sees as the line; `Words` and `Lines` are the reference for parser and script,
defined by the places where words begin and end, not by a scan. The effect of
programs on files, heap and processes is in the other modules; services are
here.

### Rtc

`date` reads six registers one after the other. `Moments` are consecutive
times, and the chip may go on to the next between any two reads. The registers
hold BCD, which `bcd_to_bin` takes apart.

### Vfs

Every function of `vfs.c` that makes, changes, finds or reads a node is an
operator from the array of nodes to the new array and a result, and the
commands are compositions of those, as in the code. `vfs_list` and
`vfs_basename` with their helpers, which choose what `ls` prints and the name
of a process, are left out. `vfs_mkfile` checks the length of its content only
after it has taken a node; no caller passes one that is too long. A path is the sequence of its names and only absolute, normalised paths
occur; the count of names stands for the length of the string, and a name
`..` for the substring. A text is a sequence of characters. `gen` is what a
`/proc` reader produces at that moment. Commands are given any path that
fits a command line; SYS_MKDIR also longer ones, which `vfs_strcpy` cuts.
Read and write permissions are modelled; the execute bit, owners and the
`size` field decide nothing.

## Runs

Passing:

| Run | States | Shows |
|---|---|---|
| `heap` | 13 thousand | The chain stays whole and exact about what clients hold; `kfree_all` skips nothing; an idle heap with nothing held is one block; NULL only if there is no room; `free` adds up; calls return; the heap implements `Allocator`. |
| `process` | 143 thousand | One process RUNNING, on its own stack; contexts valid; pids distinct, recycled slots included; no READY process passed over PROC_MAX times; an ended process stays ended. |
| `kernel` | 2 thousand | `exec` waits for its own child and for as long as it lives; no process is left READY outside `exec`; sleepers wake and the clock never stops, whatever programs do; `exec` returns if its program ends. |
| `keyboard` | 251 thousand | The driver is a FIFO queue whatever the interleaving; characters are lost only when the ring is full; a waiting key always reaches the shell. |
| `vfs` | 97 thousand | A command that fails changes nothing visible; `cp` copies the whole file; `mv` clobbers nothing; a protected file stays. |
| `console` | 2.6 million | Wherever an echo falls into the kernel thread's output, neither ever writes outside the screen and the row below it; the screen is the end of the roll while no echo tore a call; the line shown is the line that Enter executes, but for the listed disturbances. |
| `shell` | 60 thousand | Enter passes exactly the words typed, whatever earlier lines, erasures and terminators left in the buffer; the script runs each of its lines with that line's words; one prompt per line, none inside the script. |

Runs that end in a violation, each a disagreement of the code with what the
repository says of it (`findings` quotes the lines):

| Run | What happens |
|---|---|
| `user_free` | SYS_FREE ignores every pointer that SYS_MALLOC returned: the heap lies below the range it accepts. |
| `vfs_append` | `append` to a file without read permission replaces its content. |
| `vfs_rm` | A second `mkdir` of a path makes a hidden node that `rm` uncovers. |
| `program_table` | The table has 32 entries for 34 programs: `reboot` and `halt` are never registered. |
| `date_torn` | The clock advances while `date` reads it, and it prints a time that never was. |

Smaller disagreements that need no state space to see: `kmalloc` returns
addresses that are 4 modulo 8 (`mm.c:143`), where the repository's README says
8-byte alignment; a block that is granted while the table is full can never be
freed (`mm.c:60`); `exec` of a built-in program fails for its entry point and
reports a full process table (`shell.c:903`); `ls` of an empty directory says
"not found" (`shell.c:658`).

### Bounds

- Heap: 92 bytes, table of 3, requests 0, 1, 9, 33. Four minimal blocks fit,
  one more than the table; splits that just succeed and just fail, merges on
  either side and of three blocks, and requests that fragmentation defeats all
  occur. The proofs drop the bounds.
- Process: five slots, pids to 8, so that slots are recycled while others are
  in use. The proofs drop the bounds.
- Kernel: three slots, four ticks a second, a preemption every two, words of
  0 to 10: seconds 0, 1 and 2, the last one cut short, sums that wrap and
  targets that never come. With words up to 14 the same properties held in 4
  thousand states. More slots add no behaviour: `exec` is not reentrant and
  gets slot 1 every time, so that the table with stale pids in several UNUSED
  slots is left to the run `process`.
- Keyboard: a ring of 4 (the ring wraps, is full and empty), a line of 3 bytes
  (full when Enter comes), six scancodes.
- Vfs: five nodes at boot and one more, three paths, texts of one and two
  characters, files of at most three. One free node is enough for a hidden
  duplicate and for running out; with two, the same properties held on the two
  paths `/motd` and `/proc`.

- Console: a screen of 2 rows and 3 columns with a tab stop at its edge, two
  keys typed ahead, lines of two characters, one prompt character, and at most
  two echoes inside one terminal call (`EchoMax`). Prompt and a full line wrap,
  every second line scrolls, and two echoes inside a scroll are enough to wrap
  and scroll inside it.
- Shell: lines of up to 7 letters and blanks, an `argv` of 3 (four words fit a
  line), the real script and the real 34 names. With the letters `service`,
  `stop` and `netd` the same properties held in 650 thousand states.
- Rtc: the four seconds around the turn of a year.

`PidLimit` stops the count of processes far below the 2^32 at which
`next_pid` would wrap, which no uptime reaches.

### Fairness

- `Heap`: weak fairness of the call in progress. It runs in ring 0 to its end.
- `Kernel`: strong fairness of the timer interrupt: user programs and the
  kernel's waits turn interrupts on and off all the time, and the PIC holds an
  interrupt that comes while they are off. Strong fairness, second by second,
  of the kernel thread's steps and of those inside a system call: the CPU is
  faster than the clock, so a wait that is in progress whenever the clock shows
  a certain second gets a round done in that second. Without it, a sleeper
  might look at the clock only when it has wrapped. Nothing is assumed of
  programs, which may yield or sleep for ever: `SleeperWakes` and `ClockRuns`
  hold for these too. Only `ExecReturns` says of itself that it assumes of the
  program that it ends if it gets the CPU again and again (strong fairness of
  `UserEnd`); without that, it is not to be had of any kernel. TLC refutes the
  properties if any one of these assumptions is dropped or made weak.
- `Keyboard`: weak fairness of the main loop, which includes that a command
  returns, and of the timer interrupt that ends `hlt`. No fairness of key
  strokes.

## Proofs

`HeapProofs` assumes `ArenaAssumption`, `TrackedAssumption` and
`RequestAssumption`: an 8-aligned arena that holds more than a header at a positive
address, and requests that do not wrap when rounded up, which SYS_MALLOC's
limit and the constants in the code guarantee. The inductive invariant
`IndInv` is the conjunction of the type invariant, `Tiling`, `Coalesced`,
`GrantsAreUsedBlocks`, `TrackedAreGranted`, `SweepLeavesNothing` and
`LoopInvariant`. None of the first ones is inductive alone: a merge keeps the
tiling because its cursor is on the chain; the cursor is on the chain because
the chain is linked; a free hits the block of its client because the table is
exact. Lemmas say what a flag change, a split and a merge do to the tiling;
each action then has a lemma with one step per conjunct. From `IndInv` follow
`FreedHeapIsWhole`, `NullOnlyIfNoRoom` (a run of free bytes lies inside one
block of a coalesced heap, and the search has passed every block) and the
refinement `HeapImplementsAllocator`.

`ProcessProofs` assumes at least two slots. `BoundedBypass` is not inductive:
`BypassBudget` bounds the switches a READY process has seen *plus* the rounds
the scheduler's loop is still away from it, and every switch spends at least
one of those rounds. The other conjuncts of `ProcInv` are the checked
invariants. `ZombiesStayDead` is an action property proved from the type
invariant and `OneRunning`.

`KernelProofs` adds `KernelAssumption`, that ticks per second, quantum and width
of a word are positive. `KernelInv` adds to `ProcInv` and the checked invariants that
`exec`'s child is the only user process that may run (`OnlyChildRuns`):
without it, `NoStrayProcess` could not be shown when `exec` returns. Switches
and exits neither revive nor recycle a process (`NoneRevived`), and `exec`
finds its own child because pids are distinct in the whole table, UNUSED slots
included.

`VfsProofs` assumes `VfsAssumption`: command paths fit a node and texts fit
the buffers of `cp` and `append`, as a command line guarantees, those buffers
are no larger than `VFS_DATA_MAX`, and the names and characters that the model
spells out exist. `VfsInv` strengthens the type invariant by a bound that no
function checks: every file is shorter than the buffer of `append`, which is
that of `cp`. `TypeOK` only bounds a file by `VFS_DATA_MAX`, from which
`CopyIsWhole` does not follow. Every command is shown to keep `VfsInv`, function by
function. The other theorems rest on `LookupFirst`: the lookup returns the
least index with the path, which exists because the naturals are well founded.
A file that `write`, `cp` or `append` creates is behind all others
(`FileAdded`), so it is either the one its path names, and then can be written
(`MadeIsWritable`), or it is hidden (`MadeIsHidden`): hence
`FailureIsInvisible`. `VfsMoveMoves` follows the nodes of each path through a
rename, and `VfsProtectedStays` each change of a node.

`Induction` states induction with the *set* of the numbers for which something
holds (`SetInduction`, from the well-foundedness of the naturals) instead of a
predicate, which the provers could not instantiate, and that a function
defined by recursion along a text exists (`Recursion`, `RecursionIn`). What
loops over a text or a chain compute is proved with it: a recursive definition
is a CHOOSE, so each such proof first shows that a function as described
exists, and then by induction what each of its values is.

`HeapAccounting` compares the sums that `mm_used` and `mm_free` add up while
they walk the chain with the sums over the sets of used and free blocks.
A sum over a set is defined by a choice of its members in some order;
`SumsAnyOrder` shows that the order does not matter, so that the set can be
summed along the chain (`AddsUp`).

`KeyboardProofs` assumes a ring of at least two bytes and a line of at least one. `Contents` is the queue
that head, tail and ring stand for; the refinement maps it to `KeyQueue`.
`GetcharInv` says what `keyboard_getchar` may rely on although the interrupt
handler runs between its accesses: behind its empty check the ring stays
non-empty, and the byte it read is still the one at the tail when it advances.
The handler never writes at the tail, because it leaves one byte free.

`ConsoleProofs` assumes `TerminalAssumption` and `ConsoleAssumption`: at least
two rows and columns, tab stops that divide the width, a prompt without control
characters, and room for it and a full line in all rows but one. It has three
layers.

- `ConsoleInv` says what each label of a call may rely on wherever echoes fall
  between its accesses (`CallInv`): registers that are out of date but inside
  the screen, a row that may be one past it, a cell counter inside the scroll.
  `CursorStays` follows, and is not inductive without it.
- Until an echo falls inside a call, `Result`, the terminal that the remaining
  accesses lead to, is the same at every label: it is what the whole call
  returns. `RollInv` says that this terminal shows the roll (`Pictured`);
  one lemma per kind of character shows that `terminal_putchar` and the roll
  keep step, wrapping, scrolling, tabs and erasures included. `ScreenIsRoll`
  is the case where no call is in progress.
- `LineInv` follows the line: while nothing of the list under `disturbed` has
  happened, `Prompt`, the line and what is typed ahead stand before the cursor
  (`Typed`), or what is still to be printed puts them there (`PromptAhead`), or
  the cell of an erased character is about to be blanked (`EraseAhead`). That a
  line which wraps and scrolls still stands before the cursor is `Ends`, a
  statement about cells counted backwards from the cursor.

`ShellProofs` assumes `ShellAssumption`: letters are not control characters,
and the script has no terminator in it. A sequence `Enumerates` a set of numbers
when it lists them in rising order; then it is what the reference definitions
`Words` and `Lines` pick out by counting (`NthOf`). `Rounds` is the invariant
of the loop in `parse_args`: after n rounds `argv` enumerates the places before
p at which words begin, each word has a terminator behind it and is otherwise
as it was (`Cut`), and nothing outside the part already read has changed.
`ParsesWords` says so of the whole call, on any array that holds a string.
For the line, `TypedInv` says that what was typed is the front of `cmd_buffer`;
for the script, `Reading` says that the copy is still the text from the next
line on, and `Progress` that the commands that ran enumerate the lines before
it that have a word.

Only model-checked: liveness (`CallReturns`, `SleeperWakes`, `ExecReturns`,
`ClockRuns`, `KeysReachShell`), which is out of the prover's reach, and the
properties that the code violates.

## Not modelled

- Virtual memory (`virtual_mm.c`): only `vmm_init` is ever called, once at
  boot, and no other function of the file has a caller. `enable_paging` then
  sets the paging bit of CR0 (`kernel.c:148-149`) although nothing loads CR3
  with the directory that `vmm_init` fills: what addresses mean from there on
  is not decided by this code. All modules take them as physical, as every
  other part of the code does.
- Mouse (`mouse.c`): `mouse_init` and `mouse_handler` have no callers, and IRQ
  12 stays masked.
- ELF loader: no file can begin with the ELF magic, whose first byte cannot be
  typed, so `elf_load` always returns 0. `Kernel` takes an entry or none as an
  input.
- Commands that only print (`help`, `about`, `stat`, `free`, `ps`, `uptime` and
  the like), the readers of `/proc` and `memtest`, a fixed sequence of calls
  that `Heap` makes in any order. `uptime` reads the clock three times and can
  be torn as `date` is.
- A fault in ring 0 halts the machine (`interrupt.c`) and has no further
  behaviour.
- `keyboard_clear_buffer`, `keyboard_available` and `keyboard_get_state` have
  no callers.
- Display and framebuffer: `fb_init` has no caller outside the file, and
  `display_get_info` returns constants. GDT, IDT: written once.
- Boot order before the main loop, except what it leaves in the tables.

## Plan

Every invariant and action property of the passing runs is proved. What could
still be added are theorems that combine modules: that the key buffer of
`Console` is the queue that `Keyboard` implements, and that the line which
`Console` executes is the one that `Shell` cuts into words.
