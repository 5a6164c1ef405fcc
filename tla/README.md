# A TLA+ model of the kernel

The repository is a small 32-bit operating system: a kernel with paging, a round-robin
scheduler, a FAT32-like file system and a keyboard driver, and user programs (a shell, a clock,
a music player) that call it through `int 0x30`. This directory holds TLA+ modules of its core
logic, the instances TLC checks and the proofs TLAPS checks. Paths below are relative to
`src/src/`.

## The system

| Component | State | Operations | Called by |
|---|---|---|---|
| Paging (`memory/paging.c`) | `page_frame_map`, `free_page_frame_count`, `page_directory_used`, the directories, `cr3` | check, allocate a frame, create, free and use a directory | process list, scheduler, boot |
| Process list (`process/process.c`) | `_process_list[16]`: state, context, directory | `let_there_be_a_new_process`, `process_omae_wa_mou_shindeiru` | boot, system calls 11 and 13 |
| Scheduler (`scheduler/`) | `a_certain_magical_index` | switch on the timer interrupt, first entry into user mode | timer, boot |
| Interrupts (`interrupt/`) | none of its own | dispatch of timer, keyboard and `int 0x30` | hardware, user programs |
| FAT32 driver (`filesystem/fat32.c`) | the allocation table in memory, a table buffer, the disk | format, mount, read, write, delete, move | system calls 0-4, 21, 22; process list |
| ATA driver (`driver/disk.c`) | the disk | read and write blocks | FAT32 |
| Keyboard (`driver/keyboard.c`) | command buffer, its length and insertion point, shift and caps lock | interrupt handler; poll (call 6) | hardware; every shell |
| Screen (`text/`) | cursor, cells | put, clear, set and get cursor | system calls 5, 8, 9, 18-20; keyboard |
| Line editor (`user/io.c`) | the line being edited | `get_line`, `put_char_color` | shell |
| Shell (`user/command.c`, `user/directorystack.c`) | a stack of directories and the command it is carrying out | cd, ls, mkdir, cat, cp, rm, mv, find, echo, exec, ps, kill, sound | user |
| Clock (`driver/clock.c`) | the registers of two passes | `read_rtc`, `get_indonesian_time` | system call 14 |
| Speaker (`driver/speaker.c`) | a counter of the timer | `play_sound` | sound command, music player |
| Other programs, GDT, ports, string library, host inserter | little or none | tables, byte copying | |

Interrupt gates clear the interrupt flag, so system calls and interrupt handlers never overlap
each other inside the kernel; what interleaves is the user programs' sequences of calls, the
timer and keyboard interrupts between them, the ticks of the clock chip, and a power failure between
any two disk writes. Everything in the kernel is shared by all processes, and nothing is checked
against the caller.

What makes the components correct, and hard to test:

* Paging: after any history of creations and kills no frame has two owners, the counter that
  admits processes agrees with the map, and a recycled directory is clean.
* Processes: creation is all or nothing although the slot becomes `RUNNING` first and there is
  an early return after that; kills through stale pointers harm nobody; the borrowed `cr3` comes
  back.
* Scheduler: saved registers stay with their slot although the index moves before they are saved;
  every `RUNNING` slot gets its turn although `exec` and `kill` change the list between ticks.
* FAT32: chains of clusters end, never meet and are given back whole; a file's blocks are those of
  one write; the disk stays usable when power fails between two writes.
* Keyboard, line editor, screen: keys reach the shell in order and once, whatever the timing of
  the poll; output of several programs does not run off the screen.
* Command line: a path, the words of a line and a number mean what stands there, although each is
  found by one pass that keeps lengths and flags over separators and errors.
* Shell: a path means the same entry for the whole of a command, also when another shell changes
  the disk meanwhile; a directory that is found again by its name is the one that was meant.
* Clock: a time read while it changes is the time of one moment.

`PROJECT.json` lists the components with their status and, under `hazards`, each of these
difficulties at its line.

## Modules

* `Paging` - frames, directories, `cr3`. An action for each operation of `paging.c` that is called;
  the directory's table is a function from page index to frame.
* `Process` (extends `Paging`) - the process list. Creation is three steps, cut at the allocation
  loop: `BeginCreation`, `AllocateFrame` (one turn, or the early return), `LoadProgram`. The element
  `_process_list[255]`, which the code reaches when the list is full, is part of the state.
* `Scheduler` (extends `Process`) - the composition: boot, timer interrupt, `exec` and `kill` at any
  moment of a time slice. Two history variables: `cpu`, the thread that executes, and `waited`, the
  switches a slot has sat out.
* `ProcessTable` - what process management promises: processes with memory of their own, started,
  ended and scheduled in single steps. `Scheduler` refines it (`TableSpec`): a process's memory is the
  frames its directory maps, from the moment its creation is over.
* `FAT32` - the driver on a disk that writes one cluster at a time, from formatting on. A call decides
  on the table it read, changes the allocation table in memory and puts its cluster writes in `pending`;
  `write_clusters` does the next one; `Restart` drops them and reads the allocation table back, or
  formats a disk without the signature. `read`, `read_directory` and the codes of each call are
  operators on the disk, which `Shell` uses.
* `FileStore` - what the file system promises: slots of directories that hold files and folders, of
  which a call adds, removes or moves one. `FAT32` refines it (`StoreSpec`): the store is what the disk
  will hold when the running call is over. A file there is the sequence of its blocks.
* `MCFAT32` - the symmetry and the view TLC uses with `FAT32`.
* `Screen` - the characters and the cursor, as one number: the position `row * WIDTH + column`.
* `Keyboard` (extends `Screen`) - the interrupt handler and the poll. The handler also moves the
  screen's cursor. History: `pressed`, the keys since the last poll.
* `Terminal` (extends `Keyboard`) - the composition: one shell that prints with `put_char_color`, waits
  for Enter at a page break and reads lines with `get_line`. One step is one system call or one turn of
  `get_line`'s loop over the polled keys, and a key may be pressed between any two steps. History:
  `typed`, the keys of the line so far, while `orderly` says that each poll found its keys in order
  and left nothing stale; `drawn`, the last drawing of the line. The reference is an editor of two sequences,
  the characters before and after the insertion point (`Type`), against which the code's moves of
  single bytes in `buf` are compared.
* `MCTerminal` - the view TLC uses with `Terminal`.
* `CommandLine` - functions of a string: `extract_args` (quotes and spaces), `path_to_dir_stack`
  (components, lengths, codes), the number of `kill` and the counter `play_sound` makes of a frequency.
  The state is the line; a step types a character, so that TLC visits every line. The code's passes are
  folds of one step per character (`ScanChar`, `SplitChar`, `AddDigit`). The references look at the line as
  a whole: `Parts` and `Cut` are the `Pieces` of a string, runs of positions that are no separators, and
  `NumberOf` weights each digit with its place. Numbers wrap around at 64 bits and a system call takes the lower
  32; how many numbers that are is a constant (`UINT64`, `UINT32`), since TLC's own are smaller.
* `Shell` (extends `FAT32`) - the composition of the driver with any number of shells. Each shell has a
  stack of directories and a command; a step is one system call of it, so the calls of two shells
  interleave between the resolution of a path and its use. cd, mkdir component by component, cat, cp with
  its growing buffer, rm, mv and echo are actions; `handle_ls` and the search of find are operators.
  `Install` is the host's inserter, which puts a program on the formatted image.
* `MCShell` - the symmetry and the view TLC uses with `Shell`.
* `Clock` - the chip, which announces an update and makes it at any moment, `read_rtc` register by
  register, and the decoding and the shift to local time. History: when the seconds of each pass were
  read. `MCClock` has the moments at which a read begins.
* `Scheduler_proofs`, `FAT32_proofs`, `FAT32Sound_proofs`, `Shell_proofs`, `Terminal_proofs`,
  `CommandLine_proofs`, `Clock_proofs` - the theorems; `Induction_proofs` - induction up to a bound and folds.

Abstractions. A process image is the number of its occupant: the n-th process of a slot is generation n. Saved
registers are the thread that was running when they were saved; zeroed ones are generation 0 and start a program
at its entry, which is what `eip = 0` does. Contents of files are a tag for each write with the position of the
block; what a copy writes behind the end of its source, and the slots of a new folder's table that the code
leaves uninitialised, are rubbish or hold any of a few values. The bytes behind the two dots of `..` in such a
table are taken to be zeroes, so that the entry is always found, and what is written behind `delete`'s list of
clusters (for sizes that are a multiple of the cluster size) and in place of `_process_list[255]` hits nothing
else that is modelled. Files have at most 255 clusters, beyond which the loop that writes them never ends. Names
and extensions are model values, except in `CommandLine`. A cluster is written in one step: a power failure
inside one is not modelled. A character of the keyboard is a key with the state of shift it was typed in. Of the
screen's cells only the last drawing of the line is kept: that cells of an earlier, longer drawing are blank is
not claimed, and not so when two characters are erased between two redraws, since call 19 puts one blank behind
the line. That call also falls into call 20 and stores the cursor over the shell's first instructions, which are
not executed again; this is left out. `Terminal` has one shell at the keyboard: the other programs of the
repository neither poll it nor move the cursor. Where `put_char_color` or `get_line` would write beyond an array
of its own the shell goes to `overrun`, from where it does nothing more. The code has no such check and goes on:
that `length_buf` and `t` stay within `LINE_SIZE` in `TypeOK` is a statement about the model and not about
`get_line`, while the bounds of the driver's buffer are the code's, and `LineIsWhatWasTyped` says when `overrun`
is not reached. `get_line` itself has no page break: neither a long line nor the message of a page break that
follows it is claimed to stay on the screen. In `Shell` a line is a command with its paths as sequences of
components; `CommandLine` says that this is what the splitting gives. A stack's length is a byte: the push that
fills the array of `MAX_DIR_LENGTH` takes it to 0 (`push_dir`), and then cd looks below the first entry
(`EntryAt`), where the end of the buffer for a line is, all zeroes as long as no line comes within 64 bytes of
its end. What is found there has no name and leads to cluster 0, which is no directory. Time in `Clock` is
counted in seconds from the first midnight of a month, all months have `DAYS` days, and the chip's registers of
month and year, which the code treats as it does the day's, are left out.

## Runs

| Run | Shows |
|---|---|
| `Scheduler` | type, isolation, accounting, clean directories, atomic creation, private directories, own address space, registers in their slot, bounded waiting, progress; the kernel implements `ProcessTable` |
| `FAT32Session` | files and folders written, deleted and moved in every order: chains apart, nothing leaks, files whole, the table in memory on the disk; the driver implements `FileStore` |
| `FAT32Fragments` | files of one to three clusters in fragmented space: chains apart, nothing leaks, files whole |
| `FAT32Crash` | power failures anywhere in writing a file or moving: disk sound, files whole, at most the interrupted call undone |
| `Terminal` | keys in order, the line is what was typed, the screen follows the line, output stays on the screen |
| `CommandLine` | every short line as a path, a command, a kill and a sound: each means what was typed |
| `Shell` | one shell and every command, in folders that hold each other in every way: working directories exist, cd and ls mean the same directory, find's paths lead where it was, files stay whole |
| `ShellPair` | two shells copy, remove and write between each other's calls: a copy is one version of its source |
| `Clock` | the chip ticks at any moment of a read: the time is that of one moment, and is turned into local time with two errors and no other |
| `SchedulerLeak` | *violated*: frames of killed processes stay marked as used |
| `FAT32Rename` | *violated*: moving within a directory leaves two entries on the same clusters |
| `ShellStale` | *violated*: a shell makes folders in a cluster that another shell has meanwhile given to a file |

The three violations are what the code does against what its own comments say; `findings` quotes them. Other
disagreements have a place in the models, and a hazard or a condition in a property, but no run of their own:
with a full list the next process is made outside it (`OverrunSlot`); a stack of directories that is filled is
empty, since no push is ever refused (`push_dir`); a reused slot starts where its previous occupant stopped
(`Resumed`); a file of a whole number of clusters leaks one when it is deleted (`ClusterAmount` and
`FreedClusters` differ); a second file of the same name and extension is accepted (`AlreadyExists`); a moved
folder still names its old parent (`MoveWrites`); the hours from noon and from midnight are returned twelve
hours off by a chip that counts to twelve (`DecodedHour`), and the evening of a month's last day goes on with a
day that the month does not have (`Shifted`), which `LocalTimeIsTrue` states as what happens; `a.b.c` is read as
`a.bc`.

Bounds. `Scheduler`: three slots are enough for a process to be overtaken, killed and replaced while
another waits; seven free frames let every slot be reused before memory is exhausted (two for the
shell, one for each program, none ever returned), six directories let the pool run short
too, and the fourth process is the one past the end of the list. Generations are bounded by the
frames. `FAT32Session` and `FAT32Crash`: two data clusters, tables of two children, two names, two
contents, files of one or two clusters: enough for a folder with something in it, for every reuse of a
cluster as file and as folder, and for every pair of entries to compete for space.
`FAT32Fragments`: five data clusters and three entries, so that chains of up to three clusters
interleave. Names and contents are symmetric, and the properties checked under symmetry are safety
properties; the view identifies states that differ only in the
first cluster and size of dead entries and in clusters no entry leads to, which no step reads.

`Terminal`: one letter in both cases and the four control keys, a command buffer of two, so that it
fills up, keys overtake each other and a poll may be shorter than the one before; lines of up to four
keys (`MaxTyped`), enough to erase and insert in the middle; a screen of two by two whose second row is
the page break, and a line that starts behind one character of prompt (`Starts`), so that it wraps.
`MaxCursor` bounds how far keys pressed at a page break move the cursor. The view identifies states
that differ in a history nobody reads again, in which of shift and caps lock is on (only their
exclusive or is read without symbol keys), and in a cursor or byte that is overwritten before it is read;
the module says why for each.

`CommandLine`: all lines of up to seven characters (`MAX_LINE`) over a dot, a slash, a space, a quote, a
minus, which no name may have, and two characters that are letters of names and digits as well. Names of two
characters and extensions of one are at their limit within a line, which also holds two components, a quoted
word between two others, or a command with a number of five digits. No number that short wraps around: that
those that do harm none of what is claimed is shown by the proofs only.

`Shell`: two folders, files of one name, three clusters for data: so the two folders can be in each other either
way, removed and made again in each other's cluster, and paths of two components go through them. Files have one
or two clusters, so that cp needs its buffer once too small; a copy has the size of the buffer, so `FileSizes`
has that too where cp is typed (`ShellAssumption`). `MAX_DIR_LENGTH` is 4 there, so that a stack and find's list
both hold as much as their length can say when the two folders are in each other; the push that would wrap a
stack is in the model, but the user of this run does not make it. `ShellPair`: files of two names in the root,
so that the source of a copy is removed and written again between two of its reads. In `Shell` and `ShellPair`
the users are careful (`CAREFUL`, `Sensible`): they do not cd deeper than a stack can count, make no folder
inside one of its name or of a name that lies behind an empty slot, remove no folder a shell is in, and move
nothing within a directory. Without that care the code goes wrong, as `ShellStale` and `FAT32Rename` show and
the hazards on names say. Formatting is part of every run of `FAT32` and `Shell`.

`Clock`: a read begins up to three seconds before a minute, an hour, noon, local midnight, midnight, a tenth day
and a month's end here and seven hours east, on a chip in each of its four modes. A pass may be as slow as it
likes, as long as fewer than `MAX_TICKS` ticks pass during two; four is enough to cross every carry in the
middle of either pass, and the proof shows it for any number below sixty. `HORIZON` bounds a whole read.

`LineIsWhatWasTyped` and `KeysInOrder` are conditional, because the code does not keep the order of keys in
general: a key that follows a newline or backspace before the next poll is put in front of it, keys
typed into a full buffer are lost, and a poll that is shorter than an earlier one of the same line leaves
the earlier one's tail to be applied again. What they show is that nothing else goes wrong: those are the only ways.

What the passing runs leave out, because the code goes wrong there and a violated run or a
hazard says so: renaming within a directory (`FAT32Rename`), sizes that are a multiple of the
cluster size and moving folders (in `FAT32Session`), and power failures inside `mkdir`,
`delete` and formatting: the first two write the entry first and last respectively, so that it leads to garbage or
to free clusters until the call is over, and formatting writes the signature before the allocation table. An
entry that `FAT32`'s own clients move keeps its extension.

Fairness. `Scheduler` assumes weak fairness of the kernel's own steps, which run to their end with
interrupts masked, and of the timer switch, because the PIT fires periodically (1 kHz) and user
code cannot mask it. Nothing is assumed of programs: they may never call `exec` or `kill`. Deadlock
is not checked for `Scheduler`: when the last process is killed the search for the next one
spins with interrupts masked, and the machine does stop. Nor for `FAT32` and `Shell`, where a full disk may
refuse every call that a run allows, nor for `CommandLine` and `Clock`, which end with a full line and a
finished read. `Terminal` states safety only, and it can always go on: a shift key may be
pressed in every state. The other specifications state no fairness: what they claim is safety, and each step
of a call is the program's next one anyway.

## Proofs

`Scheduler_proofs` proves, for any number of slots, frames, directories and page entries, that
`Scheduler`'s specification satisfies every invariant the run checks. The assumptions are the modules'
`ASSUME`s: at least one slot and at most 255 (the index is a `uint8_t`), a limit of frames per
process that lies below the kernel's entry, and memory that holds the shell.

None of the invariants is inductive alone; `IInv` adds what holds in the middle of creation and what
the others lean on:

* while a process is being made, its directory is used, belongs to no other process, and has exactly the
  frames of the turns done, and enough free frames remain for the rest (`CreationInv`): so the
  early return is never taken;
* finished `RUNNING` slots have pairwise different used directories (`DirectoryInv`);
* no saved context is of a generation not yet created (`GenerationInv`);
* a slot's wait plus its distance from the current slot is at most the number of slots (`WaitInv`): the
  distance shrinks by at least one with each switch, which gives bounded waiting.

The first section of `Scheduler_proofs` proves what each paging operation does to isolation, accounting and clean
directories, one lemma per operation; then comes one lemma per action, and `Inductive` combines them.

Its last section proves the refinement `Spec => TableSpec` for the same constants, on top of `IInv`. The
steps of a creation in progress map to stutters, because the memory of a slot shows only when its process is
finished; the last one maps to `Start` with the frames the loop took, which are free in the abstract table
because no finished process has them; a kill maps to `End`, or to a stutter when the slot was empty.

`FAT32_proofs` proves two of `FAT32`'s invariants for every size of disk, cluster and directory table, all
names, sizes and contents, every choice of calls and power failures in any of them, formatting included:

* `TypeCorrect`: the allocation table links into the disk, entries lead into it, and no call writes
  beyond it. `TypeOK` speaks of reachable directories only; the invariant has it of everything on the disk and in
  `pending`, since a cluster that is no directory now may be one later.
* `MemoryIsDisk`: between calls the allocation table in memory is the one on the disk. Within a call it is not,
  and the invariant (`IInv`) says instead that it is on the disk or among the pending writes, that every pending
  write to its cluster is of it, that its cluster never holds a directory table, so that no call can take it for
  its parent, and that no entry leads there, deleted ones included: what a client finds by reading any cluster
  as a table is not there either. The lemmas on the calls (`WriteKeeps`, `FolderKeeps`, `DeletionKeeps`,
  `EntryMoveKeeps`) ask nothing of the parent but that, and the shells' proofs cite them. `FirstIsMember` gives
  the existence of first slots from the well-foundedness of finite sets.

`FAT32Sound_proofs` proves the other four, those about chains and about what can be reached along them:
`NoCrossLink`, `FileIntact`, `DiskIsSound` and `NoLeak`, and the refinement `StoreSpec`, for every size of disk,
cluster and table and any names and contents. They need hypotheses about the calls, because the code keeps them
for some calls only:

* `SensibleClients`: nothing is renamed within its directory and no folder is moved; power fails only while a file
  is written or moved; no entry is named like a table's own. Each part excludes something the code
  does: `FAT32Rename` violates `NoCrossLink` with a rename; a moved folder's table still names its old parent, and
  its entries `.` and `..` are candidates for `delete` like any other; `mkdir`, `delete` and formatting
  write in an order that no power failure may cut.
* `NothingLost`, for `NoLeak` only: power never fails, and no file has a whole number of clusters, since
  `delete` gives one cluster less back than `write` took for those.

`FAT32Session`, `FAT32Fragments` and `FAT32Crash` meet `SensibleClients`, the first two `NothingLost` as well, so
there are disks and clients the theorems speak of. The argument:

* A disk is `Good` for a set of directories when these are a tree from the root along live folders (`Tree`), live
  entries have names clients gave (`Labelled`), and the chains of all files in them are apart, end, and have the
  blocks of one writing each (`Chains`). The set is named in the invariant, not computed: that it is what
  `DirectoriesBelow` reaches (`DirectoriesAreAll`) is a lemma of its own, as is that a chain's clusters are those
  its hops visit (`ChainIsTaken`). In both the bound `CLUSTER_MAP_SIZE` is enough because there are no more clusters.
* `SoundInv` says that what the disk will hold when the running call is over (`Settled`) is good. During a call the
  disk itself need not be, so the invariant adds for writing a file and for moving an entry that the disk is good
  after any number of the call's writes, which is why a power failure between two of them does no harm.
* One lemma for each kind of change to an entry says that it leads from a good disk to a good one (`FileAdded`,
  `FileKilled`, `FolderAdded`, `FolderKilled`); one for each call says that its list of writes amounts to such a
  change, after the last of them and where need be before (`FileWritesAreGood` and its like, which end in
  `Promised`); one for each action ties it to them, and `SoundInductive` combines these. Induction over levels and
  hops goes up to a bound (`BoundedInduction` in `Induction_proofs`): among the numbers at which a claim fails
  there would be a first (`HasLeast`).
* The refinement adds to `SoundInv` that the store of the disk after any number of writes of such a call is at
  most one operation away from that of `Settled`. Two good disks are compared entry by entry: an entry whose
  slot and first block they share is the same in both stores (`KeptItem`), since a file's first block tells
  which writing all its blocks are of; so a call is a step of the store once its two disks have the same entries
  but one (`OneMoreEntry`, then `EntryCreated`, `EntryRemoved` and, through the disk without it, `EntryMoved`).
  A cluster that reaches the disk is a stutter, since `Settled` stays; a restart is a step of the store
  backwards: the interrupted write is a `Remove`, the interrupted move a `Move` back, a `Remove`, or nothing.

`Shell_proofs` proves `ShellTypeOK`, and `MapIsOnDisk` of the driver below the shells, for any number of shells,
all commands and users who are careful or not: another shell may remove a directory, and give its cluster to
a file, between any two calls that rely on it, and a stack may wrap and be popped and pushed again.

* What a shell remembers is then stale, and nothing true of the disk follows from it. `ShellInv` says what still
  does: the places in stacks and commands (`Aside`) are clusters of the disk other than the allocation table's,
  because they were read from what was taken for a directory table, and `IInv` says so of everything that can
  be.
* `Ready` is what a command has when it makes its call: the places the call is about, and for a write a size and as
  many blocks as the driver takes. The loop in which cp looks for a buffer that is large enough ends with one no
  larger than the file's last cluster (`BufferSize`), hence the assumption that `FileSizes` has those.
* One lemma per step. `StackAfterPop` and `StackAfterPush` keep a stack shorter than `MAX_DIR_LENGTH`, which is
  all its length can say; it may be empty, and `EntryOfStack` says that what is found in its place is no more than any
  other directory that is not there.

TLC checked `ShellInv`'s parts on the configurations of `Shell`, `ShellPair` (with careful users and others) and
`ShellStale` before they were proved, and `ShellTypeOK` and
`MapIsOnDisk` on that of `ShellStale` with a `MAX_DIR_LENGTH` of 3, where stacks wrap.

Its second part proves what `Shell` and `ShellPair` check, `WorkingDirectoriesExist`, `CdSearchesWhatLsLists`,
`FindPrintsPaths`, `CopiesOneVersion`, `FileIntact`, and `NoCrossLink` as well, for every size of disk, cluster,
table and stack, and all names and contents. The hypothesis is `CarefulUsers`, which both runs meet:

* users type what is `Sensible`, so that nobody goes deeper than a stack counts, and no folder or file is called
  like a table's own entries, of which a path would find the first;
* there is one shell, or, with any number of them, nobody leaves the root and nobody removes a folder. What a
  user looks at when he types a command is no longer so when another shell acts before the command's calls:
  `ShellStale` shows what a removed folder does. `FindPrintsPaths` and `FileIntact` are for one shell
  (`OneShell`): when another shell empties a slot before a mkdir, that may make a second folder of a name, which
  no path can tell from the first, and a copy made while another shell shortens its source ends with the rest of
  a buffer, which is what `CopiesOneVersion` allows.

`FileIntact` above is about the driver with clients of its own; here the calls are the shells', with places resolved
earlier from paths, and every theorem says that what came of the path is still good when the call is made. The
lemmas of `FAT32Sound_proofs` speak of any set of texts a file may hold (`texts`), so that both have them: whole ones
for one shell (`WholeTexts`), for several ones that rubbish may follow (`PaddedTexts`).

* `Tidy` adds to a `Good` disk what paths rely on: folders and files have names of their kind, a folder's table has
  the folder's name and leads to where it stands (`Named`), and for one shell no folder comes after an entry, live or
  dead, of a folder of its name (`Unhidden`), since `read_directory` takes dead ones too.
* `StackFits` says that a stack is a chain of live folders from the root, and `CommandFits` for each point of a
  command what it must have for the next call to be harmless: a cd has no more levels to go down than the stack
  has room for (`Descents`), a folder about to be removed is one the shell is not in, the two places of a mv are
  in different directories, mkdir's name is not its parent's and does not lie behind a hole, cp's buffer is no
  longer than its file needs and holds one of the texts. For a path not yet followed this is said of all
  directories it may lead to (`ToDir`, `Led`), as `Sensible` says it when the command is typed.
* A call changes files only, adds one folder, or removes one (`FilesChange`, `FolderComes`, `FolderGoes`). One lemma
  each says that the disk stays tidy and what becomes of stacks and paths; for several shells `OthersFit` says that
  what the other commands have in hand still fits (`Grows`: no folder goes, one may come). Then there is one lemma
  for each step of a shell, and `ShellStepFits` combines them.
* `SearchedIsHere`: the table cd finds by name is the one of the shell's cluster: in the root the table's own
  entry comes first, elsewhere `Unhidden` leaves only the folder itself.
* `PathsLeadBack`: of a directory that find reaches in n levels the parent is reached in n - 1
  (`ParentIsCloser`), so the way up ends in the root (`NamesAbove`; find prints these names, `PathUp`, as long
  as its list of them does not wrap, which is `FindPrintsPaths`' condition); and at each turn the names so far
  lead from where it is to where it began (`PathExtends`, with `LedIsOne` for uniqueness).

`Terminal_proofs` proves two of `Terminal`'s invariants for every set of keys, size of buffer and size of
screen with `MAX_COMMAND_LENGTH <= (HEIGHT - PAGE_BREAK_ROW) * WIDTH`, which the code's 100, 25, 22
and 80 satisfy:

* `KeyOrder`: `KeysInOrder` alone is not inductive, since it says nothing of the insertion point at which
  the next key goes. `DriverInv` adds that the insertion point is at the end as long as neither a
  newline nor a backspace was pressed.
* `OutputLandsOnScreen`: `put_char_color` looks at the cursor before it writes, and keys move the cursor in
  between. `ScreenInv` bounds the cursor at `put` by the page break plus the keys now in the buffer:
  each key that moves the cursor is one more in the buffer, and a full buffer moves nothing.

Its second part proves the rest of `Terminal`'s invariants, for the same constants and every interleaving of
keys and the steps of `get_line`. `MaxTyped`, the bound on the keys of a line, is assumed smaller than `LINE_SIZE`:
`get_line` looks at no limit, and a line with as many characters as its buffer has bytes is written beyond it.

* What the specification refers to are folds: the line is `Type` over the keys typed (`LineOf`), the cursor is
  `Advance` over a text. `Induction_proofs` shows by induction up to the sequence's length that such a fold has a
  value, and `LineOfAppend` and `AfterType` then make one key or character at a time of it.
* `EditHolds`: the loops with which `get_line` moves bytes to the right for a character and to the left for a
  backspace do to `buf` what `Type` does to the line. `TextOfLine`: the length `strlen` finds in `buf` is the line's,
  and one more if Enter was typed.
* `DriverStaysInBuffer`: whatever is typed, the driver's characters stay within its buffer and a poll within
  `temp`. It follows from `TypeCorrect`, which the other proofs use, and whose bounds of `length_buf` and `t`
  say nothing of the code beyond `overrun`.
* `LineIsOnScreen`: a key moves the cursor while the line is drawn or after, so that screen and line agree at
  no fixed point of the loop. `FollowInv` adds that such a key is then in the driver's buffer, so that another
  turn redraws the line before `get_line` waits again.
* `LineIsTyped`: `LineInv` says that `buf` holds what the keys worked on so far make (`Done`), that `temp` is the
  last of the keys typed, and that only the last key can be Enter, which is a byte of `buf` until the turn
  ends and then cut off.

TLC checked `FollowInv` and `LineInv` on the run `Terminal` before they were proved.

`Clock_proofs` proves both invariants of `Clock` for every set of times at which reads begin, every mode and every
`MAX_TICKS` below sixty:

* `OneMoment`: two passes that agree read the same second, and less than a minute apart that is the
  same moment; every register the earlier pass read after its seconds, and before those of the later, is then
  of that moment too. `IInv` carries, for each register, a moment at which it had the value read.
* `TimeIsLocal`: decoding undoes BCD and the marks of a twelve-hour chip, and the shift by seven hours carries
  into the day, but for two errors, which the theorem has in it: noon and midnight of a twelve-hour chip
  (`TwelveDecodes`) and the last evening of a month (`NextDay`). Arithmetic on top of `OneMoment`, for every
  time, mode and length of a month.

`CommandLine_proofs` proves all of `CommandLine`'s invariants for every set of letters without separators, every
limit on names and extensions, and every line short enough that `extract_args` has an argument for each of its
words (`MAX_LINE < 2 * MAX_COMMAND_ARGS`; beyond that the code writes past its array). No invariant of the
typing is needed but that a line is made of characters (`LineIsText`): the work is in the functions, each a fold
that is followed from character to character up to the line's length (`BoundedInduction`).

* `ArgumentsAreWords`: after n characters the split has, for each word begun, what the reference lists of its
  positions up to n (`SplitIs`); the quotes so far are even when it is not inside some, and there is a gap when no
  word is open. `ListedGrows` and `RankGrows` make one character at a time of the reference.
* `NumberIsRead`: the digits read so far, moved to the left by as many places as are still to come, and the
  weighted rest make the whole number; so a number that fits never wraps on the way. `CounterIsNearest` is
  division with remainder.
* `PathIsRead`: a scan rests between parts, reads one, or skips the character after a `..`, with all earlier
  parts components and pushed; or it has failed, and then some part is no component (`PathRead`). What it has of
  the name and the extension is what it has read of the part (`Reading`), from which `ComponentIsRead` decides
  at the part's end and `LetterIsRead` and `DotIsRead` earlier, where a scan refuses a part it has only seen the
  beginning of.

Left to TLC: progress (`RunnableGetsCpu`), which is liveness.

## Plan

1. Done: `Paging`, `Process`, `Scheduler` and their refinement of `ProcessTable`, with proofs.
2. Done: `FAT32` with formatting, mounting and reading, its refinement of `FileStore`, and the proofs
   of its types, of the allocation table, of its chains and of the refinement.
3. Done: `Screen`, `Keyboard`, `Terminal` with the proofs of all their invariants. Left: two shells at one
   keyboard, which take each other's keys and move the one cursor.
4. Done: `CommandLine` with its proofs, `Shell`, with the proofs of `Shell`'s types and of all its properties
   for careful users. Left: folders in a run of two shells at larger bounds; extensions in `Shell`; `exec`,
   which would join `Shell` and `Scheduler`.
5. Done: `Clock` with its proofs. Left: month and year.
6. Left: a fault model for `mkdir`, `delete` and formatting, if the code is changed to order their
   writes as it does for files.

## Not modelled

* What an array's end does not stop: `get_line` beyond its 4000 bytes, `delete`'s list of clusters, the process list's
  element 255 (see Abstractions).
* `exec` and `info` resolve their path with a length that was never set: what they do depends on the C
  stack. What `exec` does once the program is found is `Scheduler`'s; `info` prints `read_metadata`.
* The layout of ls, ps, info, help and the clock, glyphs, colours and the welcome screen.
* Register programming of PIC, PIT, IDT, GDT, disk and speaker; the TLB (a process that
  kills itself runs on a freed directory until the next tick); process identifiers that name no element near the
  list.
* The tunes of the music player, which are data, and its timing, which is busy waiting.
* Month and year; `date_to_byte` and `time_to_byte`, which nothing calls; `user/time.c`, which is stubs.
* The string library, ports and the host tool's own code, which the models use by what they do.
