# TLA+ specifications of LOSS-OS

LOSS-OS is a small 32-bit teaching kernel: paging with 4 MiB frames, a
round-robin scheduler, a file system in the style of ext2, a keyboard, a text
console in graphics mode, a real-time clock and a shell in user mode. The
modules in this directory model its core logic; TLC checks them on small
instances and TLAPS checks the theorems about them. Paths are relative to the
root of the repository; `src/` is its source directory.

## Inventory

| Component | State | Operations | Correct when |
|---|---|---|---|
| Page manager, `memory/paging.c` | `page_frame_map`, `free_page_frame_count`, the pool of directories and its used flags, the entries, CR3 | allocate and free a user frame, create and free a directory, load CR3 | no frame is mapped twice, the count and the map agree, an unused directory is empty |
| Processes, `process/process.c` | `_process_list`, `is_process_active`, `active_process_count`, `current_running_pid` | create, destroy, find the running PCB | count and slots agree; a process has a space of its own until it is destroyed; failed creations do no harm |
| Scheduler, `process/scheduler.c`, `context-switch.s` | `pit_ticks`, contexts in the PCBs | timer interrupt, save, switch, `sleep_ms` | one PCB is RUNNING and it is the current one; registers survive a preemption; nobody starves |
| System calls, `cpu/interrupt.c` | none of its own | calls 0 to 16, exceptions, timer, keyboard | each acts on its component as a whole: every gate of `idt.c` is an interrupt gate, so handlers run with interrupts off |
| File system, `filesystem/ext2.c` | bitmaps, inode tables, directory blocks, data and pointer blocks on the disk; cached superblock and group descriptors | format, read, read directory, write, delete | no block has two owners, none is lost, counts agree, the directories form a tree, a call touches only what it names, what was written can be read |
| Keyboard, `drivers/keyboard.c` | one character, modifiers, the mode after 0xE0, one arrow key | interrupt handler, activation, reading | no mode outlives its key |
| Console, `drivers/console.c` | the cursor | `putchar`, `puts`, `clear_screen` | the cursor stays on the screen |
| Shell, `user/user-shell.c`, `commands/*.c` | command line, inode of the current directory, path | line editor, `process_command`, the commands | the line is what was typed; a command does all of what it says and nothing else, although other shells run |
| Real-time clock, `drivers/cmos.c` | globals of the last reading | `read_rtc` | a reading is a moment, although the chip counts on |
| Descriptor tables, entry code, disk, graphics, strings, programs | tables written once; ports; pixels | start, block transfer, drawing | taken as given by the models |

How they interact: user programs reach everything by `int 0x30`; the timer
interrupt preempts user code and calls the scheduler; process creation calls
the page manager and reads a file into the new space; the shell polls the
keyboard's one-character buffer and prints through the console, which in turn
asks the keyboard for arrow keys; any number of shells can run. What is hard:
preemption between any two system calls, creations that fail half-way,
directories that are cleared while CR3 names them, long sequences of splits
and merges in directory blocks, three kinds of counts kept by hand, disks that
fill up in the middle of a call, bytes of one key that a system call gets
between, and a clock that is read while it changes.
Recursive commands hold inode numbers over many system calls while other shells
delete and create.
`PROJECT.json` lists the hazards line by line with the properties that cover
them.

## Modules

| Module | Models | In terms of |
|---|---|---|
| `Paging` | the page manager | operators from one page-manager state to the next, which callers chain; actions for the interface on its own |
| `Process` | processes, scheduler, context switch, calls 9, 10, 11, 13, timer, exceptions, `kernel_setup` | one action per handler, over `Paging` |
| `FileStore` | what the file system promises (abstract) | a tree of named entries; the outcomes of each call |
| `Ext2` | the file system driver | operators from one file system to the next; actions Write, Delete (calls 2, 3) and Reboot |
| `Ext2Crash` | the driver switched off in the middle of a call; the refinement of `FileStore` | the disks that a call may leave behind |
| `Shells` | `rm`, `cp`, `mv`, `mkdir`, `touch`, `echo`, `cd` of several shells | one action per system call, over `FileStore` |
| `Terminal` | keyboard driver, console cursor, line editor of several shells | one action per byte of the keyboard, per system call of a shell |
| `Rtc` | `read_rtc` against a running chip | one action per register read and per update of the chip |
| `ProcessProofs`, `ShellProofs`, `TerminalProofs`, `RtcProofs` | theorems | `ProcessProofs` has those of `Paging`, too, `ShellProofs` those of `FileStore` |
| `CopyProofs` | the theorems about `cp` and `mv` | over the lemmas of `ShellProofs` |
| `Ext2BlockProofs`, `Ext2Proofs` | theorems about `Ext2` | lemmas about blocks and counts; directories, entries and the invariants |
| `Ext2StoreProofs` | theorems about what the calls of `Ext2` do, and that it implements `FileStore` | over the lemmas of `Ext2Proofs` |
| `MC*` | constants of the instances | |

**Paging.** A frame is a number, a directory a function from the used user
pages to frames plus a flag for the entry that maps the kernel. `Least` of the
free frames is the scan of `paging_allocate_user_page_frame`. Freeing a single
frame is modelled with its arithmetic: the frame number is shifted once more,
so that the element of the map that is cleared is not the frame's.

**Process.** `pcb` folds `is_process_active` into the list. `mode` says what
the machine does: user code, `sleep_ms`, the endless search of the scheduler
without a process, `hlt` after an exception, a triple fault. Creation is one
operator with its checks in their order and its three ways to fail after the
slot is taken: no directory (CR3 becomes 0), a failed read (CR3 stays on the
new directory, the PCB has none), no frame under the buffer (a page fault in
the kernel). Exit and a kill of oneself clear the directory CR3 names; whether
the machine survives depends on the TLB, and both outcomes are in the model.
The registers are EAX, EDX and the rest, because the context switch loads EAX
from EDX's slot. The store before the list at the first switch
(`scheduler.c:51`) falls outside the state.

**Ext2.** A directory block is the sequence of its entries with their record
lengths; file data is a value with the number of the block in its file, so
that an exchange of two blocks shows; a pointer block is a sequence of blocks.
The blocks of a file are taken in *turns*, the order in which
`allocate_node_blocks` takes direct blocks, pointer blocks and data. The
constants scale 12 direct pointers, 128 pointers in a block, 7 inodes
in a block of the table and so on down; the structure (two bitmaps, table, counts per group and
in the superblock, saved copy of the counts) is the code's. The third indirect
pointer is not used by the code for files of this disk. A call is one step,
because the driver runs with interrupts off. `ReadResult` and
`DirectoryResult` are the calls that change nothing.

**FileStore.** The state is `tree`: for each inode number and name, the entries
with that name, the one that is found first at the head (the driver may write a
name twice, `ext2.c:557`). An entry has a type, a number, and a file's size and
data. There are no blocks, records, bitmaps or counts. A write is refused or
stores its entry; all that a full disk may do besides is to cut the data short.
A deletion may take an empty directory for one that is not empty, never the
other way round.

**Ext2Crash.** `WriteCuts` and `DeleteCuts` are the states of the disk after
each of the driver's writes within a call, in the code's order: bitmaps block
by block, superblock and descriptors apart, inode, directory block. `CutOff`
takes one of them and restarts the machine on it. `TreeOf` maps a disk to
`FileStore`'s tree. A deletion that is cut off is no step of `FileStore`: the
entry goes last (`ext2.c:784`), so that a name may be left that stands for a
cleared inode whose blocks are free. What does hold is that no other name
notices (`DeleteCutsOthersKept`); behaviours go on after cut writes only.
`CrashMax` bounds the cuts of a behaviour.

**Shells.** The recursive functions are frames of a stack; a step is one system
call and what the program does with its answer, so that the timer may let
another shell run between any two. The answer is stored in one byte of a
variable that the commands leave uninitialised: a success may be read as a
failure (`Sees`), a failure never as a success. The loops of `cp -r` and
`rm -r` go through a listing read earlier. `began` and `scope` are histories:
the tree when the command began, forgotten when something happened that
excuses the command, and the directories that `rm -r` may touch. Directories
have one block, so that a listing is complete (`read_directory` returns the
first block only); arguments are single names, not "." or "..".

**Terminal.** Keys are grouped by what the driver distinguishes. `held` and
`half` are the keyboard, `typed` remembers what a shell was given. `Poll`,
`Echo`, `NewLine` and `ShowPrompt` are the system calls of `terminal()`.

**Rtc.** The chip may update between any two reads. During an update a register shows the
old or the new value.

## Runs

| Run | Checks | Instance and why it is enough |
|---|---|---|
| `paging` | FrameIsolation, MappedIsMarked, FreeCountExact | 5 frames, 2 directories, 2 pages: four calls exhaust frames or directories |
| `process` | TypeOK, CountExact, RunningIsCurrent, LiveSpaces, RunsOnUsedDirectory, SpacesUndisturbed, ExecFindsDirectory, EveryoneRuns; the three of `paging` hold there by `SpacesApart` | 3 slots, 4 directories, 10 frames: slots, directories and frames each run out; requests succeed, find no file, ask for the kernel's half, for too much, and for sizes that wrap |
| `process_context` | ContextKept | 2 processes, two values for each register |
| `process_sleep` | SleepReturns is violated | 2 processes |
| `ext2_files` | BlocksOwned, NoBlockLost, CountsExact, TreeExact, RecordsFit, OthersKept, AcceptedIsStored | 2 direct pointers and 2 pointers in a block: sizes 0, 1, 3 and 5 use every kind of pointer, four groups fill up in the middle of a file; names of two lengths in small directory blocks: records split and merge, and the directory grows by a block |
| `ext2_tree` | TypeOK, BlocksOwned, EntriesTrue, CountsSaved, StoreImplemented, CallsPromised, DeleteCutsOthersKept, OnlyWriteCutsLose | 4 inodes in two groups: directories nested three deep, restarts between calls, and one write cut off anywhere in a behaviour; names are symmetric |
| `ext2_write_back` | AcceptedIsStored is violated | two inodes in a block of the inode table, and a directory that grows |
| `ext2_rmdir` | NotEmptyKept is violated | blocks of length 3 |
| `shells` | OneEntry, DeadIsEmpty, Rooted, MoveExact, CopyExact, RemoveExact, RemovesBelow | one shell with all the commands, and one that makes a directory in between, where the first one works: the interference that brings something in. What removals in between do to `rm -r` is proved for any shells (`RmStaysBelow`). Four inodes to give away, enough to copy a directory with an entry and to give a number to a new owner; free inodes are symmetric |
| `shells_move` | MoveExact without its exception for full disks is violated | one shell |
| `terminal` | TypeOK, LineIsTyped, CursorOnScreen, NothingStuck | 2 shells, 6 keys (the keypad's Enter, an extended key, ends a line), a screen of 2 by 2, lines of up to four characters: wraps, erasing, a full screen; at most two keys are held |
| `rtc` | ReadsAMoment, ReadEnds | all four formats; ranges around carries and BCD digits in every field that is read; days and months have one value, so that a year's end is a carry from the hour |

Bounds: `DirMax` (blocks of a directory), `CrashMax`, `Room` (blocks in the
buffer of `cp`), `TickSpan` (the tick counter wraps), `SizeSpan` (sizes wrap at 32 bits,
in frames), `LineMax` and the room a line keeps (`HasRoom` of `Terminal`),
`Rollover`, and two passes of the reader between two updates of the clock
(`passes` of `Rtc`; a pass takes microseconds, an update comes once a second).
`CHECK_DEADLOCK FALSE` stands where the system really may stop: the machine
halts or resets (`Process`), `read_rtc` returns (`Rtc`).

The passing instances of `Ext2` leave out what the code does not handle (see
Divergences): in `ext2_files` two inodes never share a block of the inode table
and there are no subdirectories that grow; in `ext2_tree` a directory never
grows. AcceptedIsStored speaks of writes with room for their blocks. MoveExact
and CopyExact, and RemoveExact, speak of a command that no other shell
disturbs, whose codes are read right and whose files fit `Room`; `Excused`
says whether a full disk excuses it too: TRUE in `shells`, FALSE in
`shells_move`. RemovesBelow excuses none of this; it ends only when a directory
is made while `rm -r` runs, because its number may be one that `rm -r` still
holds, and then it does remove what it was never asked to.

Fairness: `process` assumes the timer interrupt is not ignored for ever while
interrupts are on (the PIT is periodic and its line is unmasked by
`activate_timer_interrupt`), and nothing of user code. `process_sleep` adds
that the waiting loop goes on when its condition ends; with the timer's
fairness this is all the loop could ask for, and it still never ends. `rtc`
assumes that the processor runs and that an update that began ends.

## Theorems

For every value of the constants that satisfies the assumptions of the modules:

* `PagingSafe`, `MappedStaysMarked`, `FreeCountIsExact`: `PagingSpec` implies
  FrameIsolation, MappedIsMarked and FreeCountExact.
* `TypeCorrect`, `CountIsExact`, `OneRunning`, `SpacesApart`, `DirectoryInUse`,
  `SpacesStay`, `DirectoryForExec`, `ContextStays`: `Spec` of `Process` implies
  TypeOK, CountExact, RunningIsCurrent, then FrameIsolation, MappedIsMarked,
  FreeCountExact and LiveSpaces together, RunsOnUsedDirectory, and the three
  action properties SpacesUndisturbed, ExecFindsDirectory and ContextKept.
* `BlocksStayOwned`, `BlocksComeBack`, `CountsStayExact`, `CountsStaySaved`,
  `Ext2TypesHold`, `RecordsStayFit`, `EntriesStayTrue`: `HandledSpec` of
  `Ext2Proofs` implies BlocksOwned, NoBlockLost, CountsExact, CountsSaved,
  TypeOK, RecordsFit and EntriesTrue of `Ext2`. `TreeStaysExact`: `HandledSpec`
  and NotEmptyKept imply TreeExact.
* `OthersStayKept`, `AcceptedStaysStored` of `Ext2StoreProofs`: `HandledSpec`
  implies OthersKept and AcceptedIsStored.
* `DriverIsAStore`, `ReadsKept`: `HandledSpec` and NotEmptyKept imply
  StoreImplemented (`Ext2` implements `FileStore`) and ReadsPromised, which is
  the half of CallsPromised about read and read_directory.
* `SmallDirectoriesKept`: while every directory has one block (OneBlock),
  `HandledSpec` implies NotEmptyKept. `CallsKept`: in these behaviours
  CallsPromised holds in every state in which no write that could be asked for
  is one of the four mishaps (AllHandled).
* `StoreSafe`: `StoreSpec` of `FileStore` implies StoreTypeOK, OneEntry,
  DeadIsEmpty and Rooted. With StoreImplemented, it is what the tree on the disk
  keeps.
* `RmStaysBelow`, `ShellsKeepTree`, `ShellsNameOnce`, `ShellsLeaveNothing`:
  `ShellSpec` implies RemovesBelow, Rooted, OneEntry and DeadIsEmpty.
* `RmRemovesAll`: `ShellSpec` implies RemoveExact.
* `CpCopiesAll`, `MvMovesAll` of `CopyProofs`: with `Excused` and LinesFit,
  `ShellSpec` implies CopyExact, and MoveExact.
* `LineAsTyped`, `NeverStuck`, `TypeCorrect` of `TerminalProofs`,
  `CursorStaysOnScreen`: `Spec` of `Terminal` implies LineIsTyped,
  NothingStuck, TypeOK and CursorOnScreen.
* `ReadsTheClock`: `Spec` of `Rtc` implies ReadsAMoment.

The assumptions are those that the modules name. Most type the constants.
Those that say more: the number of frames is even and there is a directory for
every two frames but the kernel's (`ProcessAssumption`, `PoolAssumption`; 32
frames and 32 directories in the code); `None` is no inode number and `Bin` is
not the root (`ShellAssumption`; 0, 2 and 1); what `Lines` gives a shell is a
command with names.

The argument. `MemInv` of `ProcessProofs` is the type of the page manager with
Isolated, Marked and Counted; each of its operators preserves it (one lemma
each), which gives the three theorems about `Paging` at once (they cite the assumptions of
`Paging` alone). `IInv` adds the
address spaces of the live processes, the count, and what CR3 names in each
mode. Two of its parts are not obvious. *Parity*: once the machine has booted,
the number of free frames is even, because the kernel takes one of an odd
number and every creation two; so the first allocation of a creation fails
only when the second does, and a live process always has its stack. It needs
the assumption that the number of frames is even (it is 32 in the code),
and it is why the missing rollback in `process_create_user_process` does no
harm. *CR3*: while a PCB is RUNNING, CR3 is its directory or, after a failed
creation, one that is in use and that no live process has; so no kill of
another process can clear it. `FrameNumberFits` states that a frame number fits the ten
bits of `lower_address`.

`StoreInv`, the four properties of `FileStore` together, is inductive:
giving a name a number that nothing uses (`Pushed`) and taking a file or an
empty directory away (`Popped`) each keep it. Rooted says without recursion
that there is no cycle and no orphan: every set of directories has one with an
entry from outside the set.

`Pool` of `ProcessProofs` carries ExecFindsDirectory: the directories in use,
counted twice, and the free frames never exceed what the kernel left, since
every creation takes a directory and two frames, and a destruction returns the
directory alone. So a free frame implies an unused directory, and the check
for frames, which comes first, hides that the one for directories is missing.

`IInv` of `ShellProofs` types the stacks and says of every shell that runs
`rm -r`: its scope is closed (what a directory of the scope names is in the
scope); each frame of `remove_recursive` works on the name that was given or in
a directory of the scope; the number it has looked up is of the scope or no
directory at all. The last part is why the order of the system calls matters:
`rm` looks a name up and lists the directory in two calls, and a number that
went dead in between is no directory any more, so that the listing is refused.
Every step of a shell changes the tree by one `Push` of a free number or one
`Pop` (`TreeStep`, one lemma per command). A step that brings no directory in
shrinks what every name stands for (`NamedShrinks`), so the other shells'
invariants survive it; after one that does, the scope is every directory.

`IInv` of `TerminalProofs` relates the driver's modes to the keys held and the
byte to come (`KeyboardInv`), bounds the index of a line by the state of the
editor (`RoomInv`), and says how the line and what was typed differ while a
character waits for its echo (`LineInv`).

`Puts` of the console is a recursive function over the text, and the theorem
about it is still a proof by induction: the library's theorems on induction
take an operator, but "the set of lengths for which the cursor stays on the
screen" is a set, and a set of numbers with 0 and every successor is Nat. The
same argument gives what `LenUpTo` sums up in `RecordsStayFit`.

`ContextStays` rests on what `IInv` of `ProcessProofs` says of the current PCB:
the timer saves into the PCB that the next switch of that process reads, and no
creation takes a slot that is active.

`Invariant` of `RtcProofs` relates the reader's registers to the clock. Of two
passes one after the other, one sees no update (`Clean`), because `Rtc` bounds the passes
between two updates from below; so when both agree, what they agree on is the clock of
that one. The other half is that BCD and the 12-hour format lose nothing: what a
format does to a field is undone (`BcdUndone`, `HourUndone`), but for the hours
that the code exchanges.

The theorems about `Ext2` are about `HandledSpec`: every deletion, every
restart, and every write but those in which the code is known to break its own
structures (`Handled`). There are four of them, each named among the
divergences or the findings: a new directory in a group without a free block
(`ext2.c:113`); and, when the parent has to grow, no inode left (`ext2.c:650`), a
new inode that shares a block of the inode table with the parent
(`ext2.c:701`), or a parent with all of its direct blocks (`ext2.c:640`).
Each one breaks what the theorems state or what they rest on. A disk or a
group that fills up in the middle of a file is not among them, nor is a write
that is refused. In the instances of `ext2_files` and `ext2_tree`, without the
cuts, TLC finds that every write is `Handled`: the theorems speak of the
behaviours that these runs check.

`Sound` of `Ext2Proofs` is the inductive invariant, TLC's and then TLAPS's. Its
parts: the types (`FsInts`); the counts in memory and on the disk (`Counted`);
*Owned*, which says of an inode's blocks that they are marked, of one
owner, and all the marked ones; *Shape*, that no slot of an inode and no
pointer block goes beyond the number of its blocks; *DirSound*, that the records of a directory fit
and begin with "." and "..", and that its blocks are direct ones; *LinksTrue*
and *LinksOnce*, that an entry names an inode in use of its type that knows
its parent, and that no two entries name the same. *Shape* is what the
properties leave out and the induction needs: `deallocate_node` reads the
blocks of a file by their numbers, and finds all that its slots point to
only if nothing lies beyond them (`FreedIsOwned`), also for a file that was cut
short by a full disk. For that the order in which `allocate_node_blocks` takes
blocks (`Laid`) is put against the places where they end up in the slots and the
pointer blocks (`LaidReached`, `LaidShape`), with the quotient and the remainder
by the length of a pointer block (`DivIs`). The other half of the work is what one call does to the
directory it changes, and not to the others (`LinkAdded`, `LinkGone`): records
are split, merged and shifted, and every link but the one is carried over.

TreeExact adds that every inode in use has an entry. A deletion keeps it only
if what is deleted has no children, which `is_directory_empty` answers wrongly
where a directory's first block holds nothing but "." and ".."; this is the
premise NotEmptyKept of `TreeStaysExact`, which the run `ext2_rmdir` refutes for
an instance of such blocks and which `ext2_files` and `ext2_tree` meet.

`Ext2StoreProofs` proves what the calls do. Of a write it shows which link it
adds and that the file's data is found again by its turns (`WriteCalled`); of a
deletion, that it takes the first entry of its name and leaves every other link
and all other data (`DeleteCalled`). `TreeOf` lists the entries of a name by
their rank in a scan (`Ranked`), not by a recursion over the blocks, so that a
write puts its entry at one rank and shifts the later ones, as Push says, and a
deletion takes the first away, as Pop says. AcceptedIsStored needs no more
than a sound disk for its premise: a write that returns 0 with room for its
blocks is none of the four mishaps (`AcceptedHandled`). `is_directory_empty` is right about a
directory of one block (`EmptyIsRight`): a sound block begins with "." and "..", and
a third record would be an entry in use, which the scan sees. So NotEmptyKept holds
where OneBlock does. The two premises of `CallsKept` are met: in the
instance of `ext2_tree` without cuts OneBlock and AllHandled hold in every state.

`RemoveInv` of `ShellProofs` says how far an undisturbed `rm -r` has come. What
each frame found in the directory above it is still there (`Found`); a loop
that waits for the frame it called has yet to meet, in its list or in that
frame, every name that its directory holds (`Waits`, `Within`); nothing outside
the scope has changed, and the scope is what was below the name at the
beginning. It is inductive because entries go before their directory, and
because no inode has two entries (`OneEntry`): an inner frame can then delete
nothing that an outer one has found. At the end of a loop its directory is
empty, so the deletion that follows is not refused.

`CopyInv` of `CopyProofs` says how far an undisturbed `cp` or `mv` has come with
its copy. It needs what no variable of the code holds: a map M from the directories
that are copied so far to their copies. The names of these directories, and the
one that `cp` was given, are the places of the copy (`Places`); where a place is
copied to follows from M (`Place`). `CopyState` says that a place is empty in
the copy while a frame of the stack waits for it, and holds the same as the
original otherwise (`Alike`), that M takes no two directories to one and none to a
number that was in use, and that all else is as it was. `Waiting` reads off a
frame what it waits for, and no two frames wait for the same (`Framed`), so
that the frames together are the work that is left: a file that is written is
one place less (`FileGoes`), a directory that is made adds its names
(`CopyDirAdds`), a call hands a place from one frame to another. When nothing
is waited for, M is closed under the directories of the original, hence all that
is below the name, and its inverse all that is below the copy (`CopyEnds`). The
source cannot grow while it is read because it is never below the copy: the
directory that the command works in is not below a name in it, by Rooted
(`NotBelow`).

`MvInv` takes over where `mv` begins to remove its source, with `CopyInv` in
`MovesInv`. `Moved` keeps two things: everything that was copied is still in the
copy (`Whole`, which `CopyEnds` gives), and nothing has changed outside the copy but
what there was below the source at the beginning. The removal is `rm -r`'s loop, so
`Cleared` and `Erasing`, of which `RemoveInv` is made, are stated for both
commands (`Goal` is the name that goes). The removal stays below the source, and
the copy has numbers that were not in use at the beginning: so it cannot touch
the copy (`MovedOn`). At the end the name has no entry (`Cleared`), what there was
under it is excused by OthersSame, and `Whole` is Copied.

The two premises of `CpCopiesAll` and `MvMovesAll` are met in the instance of `shells`. `Excused`
leaves out a disk that fills up, after which the property claims nothing: for
the status of a child's copy is ignored (`cp.c:155`). LinesFit says that no file
is written that is longer than `Room`, the buffer of `copy_file` (8192 bytes,
`cp.c:11`): `echo` writes no more than a line, and lines have at most the 1000
characters of `command` (`user-shell.c:13`). `Sized` of `ShellProofs` carries it to every
file there is, copies included, which `cp` pads to `Room`.

Model-checked only: OnlyWriteCutsLose and DeleteCutsOthersKept of `Ext2Crash`,
which speak of calls that are cut off; and liveness (EveryoneRuns, ReadEnds), which is out of the prover's reach.

## Divergences

Four runs show what contradicts a comment of the code (one in `Process`, two in
`Ext2`, one in `Shells`); they are the findings of `PROJECT.json`. While translating, more
disagreements were met, which the models reproduce and no run is spent on:

* `paging.c:107`: a frame that is unmapped stays marked (`FreeUserPageFrame`);
  the frames of a destroyed process are never returned (`FreePageDirectory`),
  so that with 32 frames 15 processes can be started before a restart.
* `context-switch.s:52`: EAX is loaded from EDX's slot (`LoadContext`).
* `process.c:115` says that creation restores the memory state: after a read
  that failed CR3 stays on the new directory, after a full pool it is 0
  (`CreateUserProcess`).
* `ext2.c:784`: a deletion that is cut off leaves the name, for a cleared inode
  whose blocks may be given away (`DeleteCuts`).
* `rm.c:71` and its like: codes are read from four bytes of which one was
  written (`Sees`); where the variable is initialised, -1 is read as 255, so
  that `mkdir` prints "mkdir success" when it failed (`mkdir.c:37`).
* `cp.c:155`: what a child's copy returned is ignored; `cp` pads files to 16
  blocks with what the stack holds (`cp.c:34`, `Buffer`); a file longer than 16
  blocks is not copied.
* `rm.c:157`: `rm -r` keeps 64 names of a directory and no more; `rm .` removes
  the current directory's "." entry, `rm -r .`, `cp -r . x` and `mv . x` recurse
  into themselves; `rm -r bin` is not refused in the root (`rm.c:245`).
* `ext2.c:377`: the header says that read returns 2 for a small buffer and 3 for
  a missing name; it returns -1 and 2 (`ReadResult`).
* `ext2.c:557`: a write takes the first entry with room before it has looked
  for the name further on, so that a name can be there twice (`WriteResult`).
* `ext2.c:182`: the superblock counts blocks beyond the last group as free
  (`Formatted`).
* `ext2.c:650`: when a directory grows and no inode is left, the block is lost
  and after a restart it is counted as free (`GrowDirectory`).
* `ext2.c:113`: a new directory in a full group is written over the group's
  first data block, in group 0 the root directory (`InitDirectory`).
* `ext2.c:1153`: a write on a full disk stores a part and returns 0
  (`AllocateNodeBlocks`).
* `ext2.c:640`: a directory grows without limit (`GrownParent`).
* `keyboard.c:97`: releasing one of two shift keys ends the shift (`Decode`);
  `keyboard.c:121`: caps lock changes symbols while shift is held (`Typed`);
  `keyboard.c:46`: activation between the two bytes of an extended key makes
  the second one a plain key (`Activated`).
* `cmos.c:83`: noon becomes 0 and midnight 12 in the 12-hour format (`To24`).

## Not modelled

Not modelled, because they are output or run once: descriptor tables and entry
code, the disk driver's ports, graphics, `ps`, `ls`, `cat`, `find`, `flex`,
the demonstration programs, the host's inserter. The screen's contents are not part of
`Terminal`, nor the wrapping of a line past `command[0]`.

What could follow: theorems of the properties of `Ext2Crash` that speak of cuts; `process_command`'s splitting of the line, `itoa` and the
string functions as operators against reference definitions; `find` and the
display of the path while other shells change the tree.
