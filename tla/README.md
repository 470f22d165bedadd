# RFOS: a verification development

TLA+ models of the parts of this barebones operating system that keep state and
can go wrong, TLC runs that check them on small instances, and theorems about
them that TLAPS checks for all values of the constants. Paths are those of the
repository (`src/kernel/...`); `PROJECT.json` maps every definition to its lines.

## The system

A 32-bit kernel without processes. After the boot sequence (`kernel.c:24-104`)
one thread runs the shell loop for ever; interrupts come in between any two of
its instructions. There is no lock, and no interrupt is disabled, after boot.

| Component | State | Operations | Interacts with |
|---|---|---|---|
| FAT table accessors (`fat_drive.c:44-72`) | `g_Fat`, packed 12-bit entries | get, set, the chain walk's own decoder | file commands |
| Shell file commands (`shell.c:164-351`, `fat_drive.c:171-257`) | `g_root_directory`, `g_Fat`, their copies on the disk, the data sectors | newf, appf, read, list, delf, reboot | called by the shell loop; arena; ATA driver |
| File name conversion (`fat_drive.c:74-122`) | none | to and from the 8.3 form | file commands, files pane |
| Keyboard interrupt and shell input (`keyboard.c`, `shell.c:14-119`) | `shell_buffer`, `shell_buffer_i`, three flags, `caps_on`, `capslock`, listeners | key handler, loop | shared memory, no lock |
| Tokenizer and dispatch (`shell.c:121-162`) | the line, cut in place | tokenize, dispatch | gives commands pointers into `shell_buffer` |
| Shell screen (`ui.c`, `vga.c`, `shell.c:97-116`) | `ui_screen_buf`, `update_list`, `current_line` | put, scroll, clear, refresh | shell loop |
| Heap (`memory.c`) | block list, node freelist | alloc, calloc, free, merge | boot, the list |
| Arena (`arena.c`) | `used` | alloc | drive setup, read, list |
| Linked list template (`clist_tplit.h`) | head, tail, nodes | push, delete, free, walk | boot, on the heap |
| Boot sequence (`kernel.c`, `gdt.c`, `idt.c`, `pic.c`) | descriptor and gate tables, the controllers' registers | one pass of stores and port accesses | everything else starts from it |
| Interrupt dispatch and timer (`idt.c`, `irq.s`, `isr.s`, `timer.c`) | routine table, requests and lines in service, ticks | dispatch, end of interrupt, exceptions | keyboard, mouse |
| PS/2 controller and mouse (`mouse.c`, `keyboard.c:53-56`) | one output byte, packet position | install, two handlers | shared controller |
| ATA driver (`ata.c`) | the drive's status | read, write by polling | file commands |
| Log, serial port, formatting (`log.c`, `serial.c`, `printf.c`) | group level, line length, static buffers | groups, lines, `k_vsprintf` | everybody, interrupts too |
| Host tool (`tools/fat/fat.c`) | none | reads one file from the image | the same volume as the kernel |

What is hard in it: a reset between two sector writes of a command; commands
that fail halfway and leave their first half in memory; interrupts against the
loop that reads what they write; polling protocols without timeouts; buffers
and lists whose bounds are not checked where they are filled. `PROJECT.json`
lists each such place under `hazards`.

What makes each component correct:

* FAT table: setting an entry changes that entry only; both decoders agree; a
  chain gives the file's sectors in order, to the kernel and to the host tool.
* Names: what `list` shows can be typed after `read`, in either case.
* File commands: no two files share a cluster; a file with data can be read
  after any reset; text that was appended stays, in order, whole; an answer is
  given only when what it says is on the disk; `list` shows every file; fixed
  size arrays are never exceeded; a drive that refuses a sector is noticed (it is not).
* Shell input: no key is lost while the line is edited, what is shown is what
  was typed, the buffer is never exceeded, a command sees one line.
* Screen: the prompt stays in the box, the update queue does not overflow, what
  is drawn is shown, nothing old stays between rows, no pane draws on another, as
  long as typed lines are short enough: nothing checks that.
* Heap: blocks do not overlap and tile the memory, in both directions of the
  list; free neighbours are merged. List: a walk shows what was pushed and not
  deleted. Arena: memory handed out stays the command's until it has answered.
* Boot: once an interrupt can come, each one finds its own stub and routine.
* Interrupts: every interrupt served is acknowledged exactly once, and each
  source can interrupt again.
* PS/2: the keyboard works after the boot ("I don't know why the keyboard doesn't work
  sometimes", `Usage.md:5-8`: the flush at `mouse.c:94` is one way to that); a byte is given to
  the device's own handler; packets stay aligned.
* ATA: sectors are never torn or out of order; every transfer ends.
* Log: the text is what C's printf gives; a line that nobody disturbed comes out
  whole; nothing is stored past a buffer but by a text or frame that is too long.

## What is modelled

### `Fat12Table` (implements `FatTable`)

`g_Fat` byte by byte. `GetEntry` is `fat_drive_get_curr_fat_entry_value`,
`ChainEntry` the decoder inlined in `fat_drive_read_file`, `SetEntry` the two
stores of `fat_drive_set_fat_entry_value`, with the kept nibble of each. `Set`
is the only action. `FatTable` is what callers assume: a function from clusters
to 12-bit values of which one is changed at a time. `ImplementsTable` is the
refinement, with the decoded table as the mapping.

### `FatWalk` (extends `Fat12Table`)

Files of several clusters, read by two programs that parse the same boot sector
in two ways: the kernel byte by byte (`ReadHeader`), the host tool through a
packed struct (`readBootSector`). `KernelLba` and `ToolLba` are their two
formulas for a cluster's first sector. `Turn` is one turn of either chain walk;
the tool's steps before it (`ToolOpens` ... `ToolFinds`) may fail where the image
file is cut short, with the exit code of each. `Endless` is a chain that comes
back to itself, or leaves the table in the kernel; `RunsOn` is what happens then.
`Formatted` is what `mkfs.fat` writes into the first sector of a volume, stated from the
volume's own measures and not from the code that reads it.

### `FatFiles` (implements `FileStore`)

The file commands with the disk under them.

| TLA+ | code |
|---|---|
| `g_root_directory`, `g_Fat` | the arrays of that name: name, first cluster and size of an entry; a FAT entry by its value (justified by `Fat12Table`) |
| `diskRoot`, `diskFat`, `diskData` | the root directory, the first FAT and the data area of `drives/main.img` |
| `pc`, `cmd`, `written` | the command in progress, its arguments and slot, and how many directory entries `ata_write` has handed over |
| `reply` | the `builtin_result` of the last command |
| `Newf...`, `Appf...`, `Read...`, `List`, `Delf` | the outcomes of each builtin, split where the code writes a sector |
| `WriteRootSector` | one sector of the 14 of the root directory |
| `RootSectorFails`, `NewfFatFails`, `AppfDataFails` | the drive refuses a sector: `ata_write` returns in the middle of its buffer (`ata.c:80-84`), no caller is told, and the command goes on to its answer |
| `RunsAway` | `fat_drive_read_file` on a file whose chain does not end |
| `mishap` | history: whether a sector was refused, or an append set the size of another file with the same sum of bytes (`shell.c:330`) |
| `Restart` | the `reboot` command, the reset button or a power cut, then the drive setup of `kernel_main` |

A command is one action up to the first sector it writes, then one action per
sector; between any two of them `Restart` may happen. Nothing else runs: the
shell is the only user of the driver, so commands do not interleave.

Abstractions. A name is its 8.3 form, and `NoName` stands for the eleven zero
bytes that a name without a dot leaves in `newf` and `appf` (`Blank` for the
spaces in `read`). A sector is written whole or not at all, which `SectorsWhole`
says of the driver; a refused one leaves what was on the disk. All files have
one sector, as on the image the build makes, so a chain is one entry (`FatWalk`
has longer ones). After `RunsAway` the state `lost` stands for a machine that
overwrites its memory with sectors until it is reset; the walk does not write to
the disk. `read` of a file that fills its sector goes on printing what follows
in the arena; the model stops at the end of the sector (`Listing` does not).
Only the entries of the FAT that newf's scan reaches (`ScanLimit`, 10 in the
code) are kept; they all lie in the first sector of the FAT, whose write is
`NewfWriteFat`. The second FAT is never read nor written by the kernel.

The commands promise nothing once a mishap has happened, so the properties are about the
time before (`Sound`), and the first mishap is a step of the model like any other: the
answer that follows it is given in a state of which nothing is claimed.

`FileStore` is what a user who looks at texts sees: each name holds a text, that
starts as the image's and grows by whole appended texts, until the store is `broken`,
which is the first mishap. The mapping gives to a
name the first `Size` bytes of the cluster of its entry *on the disk*, so the
refinement says that an append becomes visible to the next boot all at once,
that nothing ever shrinks, and that a reset changes nothing.

`FatFilesInv` is the inductive invariant behind the safety properties (below).

### `Listing`

What `list` and `read` show, in memory byte by byte, because both store more
than they take: `list` a thirteenth byte behind a name of full length, `read` a
whole sector into `Size` bytes. `FilenameTo83` and `ToFilename` are the two
conversions, with `strrchr` as it is (it finds the first dot); `arena_alloc` is
the arena with its comparison of a length with an address, and the NULL it may
return, through which the commands go on to store. `ListEntry` is one turn of
`list`'s loop; `ListShows` reads all the strings when the command has returned.
The directory is any that `newf`, `appf` or `mcopy` can make and does not change.

### `ShellInput`

The line being typed. `shell_buffer` has one cell more than the array, the byte
behind it, which the listener can store a zero in. The keyboard actions
(`KeyReturn`, `KeyBackspace`, `KeyOther`) are whole interrupts: the gate's type
keeps interrupts off in a handler. The loop's actions are the steps of
`shell_run` between which an interrupt makes a difference: the tests of the
three flags, the two stores that reset the line, every character drawn, and the
stores that clear the flags. `TestReturn` tests a flag and clears it in one
step: a return key between the two is one that came before. `Process` is the
tokenizer as far as the shared buffer shows it; the command itself is a step
(`CommandDone`) around which keys may come. `typed` and `missed` are history:
what the keys since the last reset amount to, and keys that came after the
redraw they asked for and before the store that forgets them.

### `CommandLine`

`tokenize_args`, one turn of its loop a step, on a buffer in which older lines
are left behind the zero, and the choice of the command. `strcmp` is modelled by
what it compares: lengths, and sums of bytes. Keys pressed meanwhile are
`ShellInput`'s subject.

### `ShellScreen` and `Ui`

`ShellScreen` has the rows of the shell's box, one entry a row, with the line
counter of `shell_run` and the length of `update_list`. `Enter` is the whole of
the `if (return_pressed)` block for a command that answers with `k` rows,
`Redraw` the rest of a turn up to `ui_refresh`, with a typed line of any length that
the buffer has room for (`TypedLengths`). Such a line goes on in the rows below and takes
an entry of `update_list` for every character: when the list is full
`RedrawOverflows` (`ui.c:56` checks nothing), and the machine is `Lost`. The cursor
behind the line is drawn without wrapping (`shell.c:115`), on the frame or in another
pane, and behind a very long line past `ui_screen_buf` (`RedrawLeavesScreen`). `wrapped` is
history: a line was longer than its row. Whatever keys and commands do is an input: any
number of rows, any redraw.

`Ui` extends it with the cells: `ui_screen_buf`, the regions queued, and the
VGA buffer they are copied to. `ui_putch`, `ui_putstr` with its own wrapping
arithmetic, `ui_fill`, `ui_box` and `ui_clear_rv` are operations: the characters they
put, by cells, and the cells they queue. `Draw` applies a sequence of them to a drawing
(buffer, screen, queue): in each cell the last one that puts a character there wins.
`ui_scroll_vertical` and `ui_refresh` map a drawing to a drawing. `Boxes` are in the order
in which `kernel_main` draws them; `UiInit` is what it draws, the boxes and the texts of
the other four, with the shell's own box, that `shell_run` draws once more, still in
the list (`BoxUpdates` entries, which the first turn of the loop finds there). Each
`Ui...` action is a step of `ShellScreen` together with its drawing. A character is where it comes from
(command, string, place), so a property can say which text is where.

### `Heap` and `LinkedList`

`Heap` has the nodes as records and pointers as node numbers, so that a node may
be in two lists at once or point to itself, as in the code. A call of
`merge_free_nodes_rec` is an action. `root` and `freelist` are the code's;
`owned` is what callers hold. `odd` counts the calls after one of two boundary
cases has happened (`memory.c:51`, `memory.c:87`); the properties of the list
are stated for the time before; the calls after it are kept in the model, so that
the actions are the code's in these states too. `AllocFails` ends the behaviour:
the kernel uses the NULL it found. A store through NULL changes nothing that
matters: there is no paging, and page zero is free.

`LinkedList` is the list template with its nodes in blocks of that heap. The two
pushes and the two ends are each other's mirror image, so both are one operator
with the pointer they go along (`way`). `Calloc` clears what the code clears,
the first byte only, so a node starts with the pointers its block was left with.
`right` is history: the pointers along which no call has yet spoilt the walk, and
`Spoils` names the calls that do.

### `Interrupts` and `Boot`

`Interrupts`: the two interrupt controllers' requests and lines in service, the
number that a stub pushes, and `irq_handler`. `Accept` is the controllers' and
the processor's step, `IrqHandler` the stub, the routine and the
acknowledgements: nothing can come in between. `irq0` pushes the dword at
address 0 (`Dword0`, the firmware's first interrupt vector, far more than the
table's 16 entries); the table is then read where there is no memory, which gives
zero. `AcceptGone` is a request that vanishes before it is answered.

`Boot` starts earlier: `Program` is `kernel_main` up to `sti`, one store or port
access a step. The controllers take their initialisation words by position,
descriptors are encoded and checked as the processor does, and `Interrupt`,
`VanishedInterrupt` and `Fault` are `Interrupts`' steps and the exceptions taken
through whatever is set up at that moment: mask, cascade, offset, gate and code
segment. `depth` counts the words that an exception's stub and its common part
leave on the stack.

### `Ps2`

The bytes that port 0x60 gives in order, the controller's configuration, and the
program of `mouse_install` and `idt_debug_setup` as a sequence of port accesses
(`Install`), one access a step, with the keyboard sending codes meanwhile and the
mouse from the command on that makes it report (`mouse.c:150`), before `sti`. After
it the two handlers run. `Ready` is how many bytes of keys and moves may be waiting at a
time. `Read` is what `n` reads of the port give, so the keyboard handler's two
(`keyboard.c:55-56`) may be of two bytes; `KeepsRequest` says whether a request outlives
the byte that it was for: controllers differ, and both are in the runs. `upset` is
history: a byte that the flush left (`mouse.c:94`), one that was read in place of an
answer (`mouse.c:100`, `idt.c:186`), two reads of two bytes, a handler that ran for a byte
that was gone. The model goes on after each of them as the code does.

### `Ata`

The driver word by word, and a drive that is busy, asks for data, fails, and
stores a sector once it has all its words. The reset at the start of each
transfer ends what the drive was doing. All transfers start at sector 0.

### `Printf` and `Log`

`Printf` has `k_vsprintf` as an operator: the parsing of a conversion
(`fmt_spec_parse`), the digits, the padding; and, apart from it, what C prints
for the same call (`CText`, `TextOf`). Its loops are recursive functions, so that
theorems may use them. The remainders of a negative number are negative too and
find the bytes before `base_chars`, which are a constant of the module and may be
zeros; `%u` and `%b` take no argument. Such calls are made (`mouse.c:69`, `idt.c:27`)
and modelled; `Supported` says for which ones the C standard is the measure.

`stringify_base` keeps its digits in a static buffer and copies them out in a second loop
(`printf.c:138-149`). `LeftInside` is what a call leaves there, and `Overwritten`
what becomes of a number when a handler's call formats its own between two of those
digits; `Garbled` has all the texts that can come of it.

`Log` runs the calls of `log.c`
through the static buffers they share, one character a step in each of the three
loops (into the caller's buffer, into `serial_printf`'s, out of the port), with
whole calls of interrupt handlers between any two characters, and between the digits of a
number (`Formatting`). A text with a zero
inside is copied up to it (`CopyText`, `UpToZero`). The buffers have the sizes of the
code: `log_info` and `log_line` 1000 (`LogSize`), `log_buf` 500 (`GroupSize`),
`serial_printf` 1000 (`SerialSize`). No store looks at the end of its buffer: one that
is past it leads to the phase `lost` (`Overflows`, and in `Interrupt` for a handler's call),
as an argument of more than 999 characters does (`shell.c:149`) and a group so
deep that its indentation fills the line (`shell.c:310`). `long` is history: a text of more
than `TextSize` characters, or a frame without place for that many, was printed by this
call or into it. With the sizes of the code `TextSize` may be 499, and then frames have
place for it up to more than a hundred open groups.

## The runs

| Run | Module | What it asks |
|---|---|---|
| `table` | `MCFatWalk` | the packed table implements independent entries under any sets; a read that succeeds has the file's sectors in order |
| `files` | `MCFatFiles` | files stay apart, reachable and listed, answers are durable, the disk implements `FileStore` |
| `files_refused` | `MCFatFiles` | refuted: a file that newf refused for want of a cluster can be opened |
| `listing` | `MCListing` | names are shown as typed and found as shown, but for those with a blank; files are shown as they are, until and after the arena runs out |
| `input` | `ShellInput` | what is executed is what was typed or nothing, what is shown is what is in the buffer, a return key is acted on, with keys between any two steps |
| `command_line` | `MCCommandLine` | the tokenizer stays in the buffer and finds the words that were typed, the command typed runs |
| `screen` | `MCUi` | only long lines overflow the update queue, the rows are the end of the transcript, the cells show them, what is drawn is shown, other panes stay but for a cursor that left its row |
| `heap` | `LinkedList` | blocks tile the arena, free neighbours are merged, nodes are used once, walks show the list's items |
| `interrupts` | `Boot` | every interrupt and exception from the first instruction on finds its own stub and comes back, is acknowledged at both controllers, its routine runs, nothing is held back for ever |
| `ps2` | `MCPs2` | until a byte was read by another than whom it was for: after the installation the keyboard works, every letter is heard in its case, mouse packets stay together |
| `ata` | `Ata` | sectors are whole and in order, written data are stored once the drive is quiet, every transfer ends |
| `log` | `MCLog` | conversions print what C says, undisturbed lines are right, only long texts and frames run past a buffer, whoever logs in between |

The refuted one is a statement of the repository that the code does not keep;
`findings` in `PROJECT.json` quotes it, and TLC prints the steps that lead there: two
creations take the last clusters, a third is refused, and opening its file never ends.
More such statements are refuted if they are added as invariants to the cfg of the
module's run (without `CONSTRAINT`, in `Ps2`):

* `Booted => Wired` in `Ps2` ("Flush output buffer", `mouse.c:93`; `Usage.md:5-8`): a key
  goes down and up before the installation, one of the two bytes is flushed, and the
  other is written back as the configuration;
* `~Booted /\ Install[pc] = "sti" => last = config` in `Ps2` ("Read 8042 controller config
  byte", `idt.c:181`): the mouse moves after `mouse.c:150`;
* `Booted /\ out = <<>> /\ ~early /\ upset \cap {"unread", "eaten", "stale"} = {} =>
  heard = typed` in `Ps2` ("so you can type into it", `Usage.md:17`): a key goes down and
  up before its interrupt is taken, and the handler takes the code of one byte and the
  press bit of the other;
* `AllSupported(call.text) => text = TextOf(call.text)` in `Log` (the reference that
  `printf.c:153` names): the mouse's handler logs a number while one is formatted;
* `\A i \in DOMAIN results : results[i] # NULL => results[i] + LineSize <= Limit + 1` in
  `Listing` ("return NULL if its outside the [base_addr, limit_addr] range", `arena.h:17`).

Bounds.

* `table`: five entries, which are three data clusters; each parity has a
  neighbour on both sides. Values with every nibble different, zero, a chain, the
  end mark and one wider than 12 bits; tables with no file, with a file of two
  clusters out of order, and with all bytes in use. Volumes with clusters of one
  and of two sectors, cut short in each of their parts.
* `files`: three names and three data clusters of which the image uses one, so
  that newf can run out of clusters, fill the slot of an empty file and meet an
  existing file; a directory of three sectors with two entries each, so that a
  reset can fall before, between and after the sectors that matter and a file's
  slot can be in each; sectors of three bytes and texts of one and two, so that a
  file can be filled exactly and refused. The directory has more entries than the
  scan has clusters, as in the code (224 and 10): this is an assumption of the
  module. Two of the names have the same sum of bytes (`MCByteSum`), as `ab.txt` and
  `ba.txt` do. After a mishap a behaviour goes on to the answer or the reset of its command
  and no further (`ToTheAnswer`), since nothing is claimed of what comes later.
* `listing`: names of up to 2 + 1 characters in place of 8 + 3, every shape of
  typed name, one with a blank among them, two files, sectors of three bytes, three commands, memory zero or
  full of characters at power on; the arena ends after nine bytes by its size and
  after seventeen by its comparison, so three commands reach both.
* `input`: a buffer of three bytes is filled, passed and edited with six keys.
* `command_line`: two lines in a row, all of up to four characters and the longer
  ones that are words, in a buffer of eight bytes with four arguments, so that
  quotes stay open over what the first line left and the arguments run out.
* `screen`: five boxes edge to edge on 12 x 12 cells, a shell box of seven rows
  and columns that scrolls at line four, answers of up to four rows of which some
  wrap, three commands; typed lines of up to 60 characters: some fit their row, some go on
  in the next, some put the cursor on the frame, in another pane or past the screen.
  The list has 63 entries, so that lines on both sides of `LineThatFits` occur with
  every part of a turn before them. Two commands after a line that left its row
  (`FewAfterWrapping`).
* `heap`: nine addresses, requests of one and three, five nodes: blocks are
  split, freed and merged on both sides, and used up; lists of up to the nodes
  that fit.
* `interrupts`: timer, keyboard, a line of the master without a routine and the
  mouse on the slave, two requests each; two exceptions of those with and
  without an error code.
* `ps2`: five key events and two packets, three configurations, three bytes waiting at a
  time, requests that outlive their byte and such that do not. After the boot
  a behaviour goes on up to the first mishap (`UpToTheMishap`).
* `ata`: three transfers of up to three sectors of two words.
* `log`: buffers of 7, 6 and 14 characters in the proportions of the code's, three calls,
  two interrupts, two groups, so that an indentation of eight leaves no place for a text;
  texts that fill a buffer to the last place, and such that pass it;
  handlers' texts shorter and longer than the kernel's, with a negative number and a
  zero among its digits; a line with an `%x` of a
  negative number and a `%b`; for the conversions, every specifier with every kind of
  width and pairs of them.

Deadlock is checked unless a module's bounds or the code stop the behaviour:
lines, keys, requests, calls and transfers that are used up (`command_line`,
`ps2`, `interrupts`, `ata`, `log`, `listing`), a walk that is lost (`table`), a heap
that is lost or has no nodes left (`heap`).

Fairness. `input` assumes that the loop goes on: the processor returns to it
after every interrupt, and the keys are bounded. `interrupts` assumes that the
processor goes on with `kernel_main`, accepts what it can and runs handlers to
their end. `ata` assumes that the driver polls on and that the drive does not stay
busy for ever; the code has no timeout for that. Nobody is assumed to type, to
send, to fault or to start a transfer. The other properties are safety properties.

Operators whose names say what is wrong (`EvenSecondOverwrites`,
`OverlayOneLate`, ...) stand before the operator they are a variant of. They are
used nowhere: put in its place, each makes one property fail, which shows that
the property depends on that line of the code.

## The proofs

`Disk_proofs` proves about the packed table, for any number of entries
and any of the C values a 16-bit entry is set from: the entry read back is the
low 12 bits of the value set (`GetAfterSet`), every other entry is what it was
(`OthersAfterSet`), the table stays bytes, the two decoders agree, and the table
implements `FatTable` (`TableRefinement`, and with the readers of `FatWalk` between the
sets `WalkRefinement`). Only the assumptions of the module on its constants are used.

`ReadsAreRight` (`ReadsTheFile`) is about those readers, for any volume that is
`Formatted`, table and length of the image file. Both ways of parsing the boot sector
give the same header (`SameHeader`: the offsets of the packed struct, added up), and the
data begin where the header says (`Geometry`: rounding the directory's size up to whole
sectors). `WalkInv` then says of a read that is running that what was read so far is
linked, ends at the current cluster and lies on the image (`ReadSoFar`); a turn adds one
cluster's sectors (`OneMore`). The tool never takes the entry of a cluster outside the
table, because the read of its sectors fails first (`ToolTurnStep`).

`FatFiles_proofs` proves about the file commands, for a directory, a FAT, an
image, names and texts of any size that `FatFilesAssumption` and
`ImageAssumption` allow:

- `InvariantHolds`: the invariant `Inv` of `FatFilesInv`;
- from it `TypesHold`, `ClustersNotShared`, `DataStaysReachable`,
  `DirectoryAlwaysFits` and, with one more induction, `ListIsComplete`.

All of them are about the time before the first mishap (`SoundInv`: `Sound => Inv`), which
the specification itself decides step by step; no assumption is made about the names.
`TypesHold` holds through mishaps too. `DistinctSumsSuffice` says when a mishap is only the
drive's: where the byte sums of the names differ, no append ever takes the entry of another
file. So for such names everything holds until the drive refuses a sector.

None of the safety properties is inductive. The reason that newf never fills the
directory, for example, is that every slot that is not empty has a cluster of
its own and that the slots with no data are at the end; the reason that the
slots with no data are at the end is that newf takes the first one, that at most
one of them has a name, and that a reset brings back a directory of the same
form, although only some sectors of the new one were written. `Inv` says this:

- `DirSound`: what a directory looks like, in memory and on the disk. The two
  copies are equal up to the entry of the command in flight and an empty entry
  that a refused newf left in memory (`Agree`), so a directory of which some
  sectors are new and some are old is sound as well (lemma `MixtureSound`).
- `FatSound`, `DataAllocated`: both copies of the FAT are equal, and the cluster
  of an entry with data is in use. newf's cluster is still free while the
  directory is written (`NewfInFlight`), but that entry has no data.
- `InFlight`, `AppfInFlight`: how much of the directory has been written, and
  that the entry on the disk is the old or the new one.

The pigeonhole argument is lemma `SomeEmpty`, from the library's facts on
cardinalities. Each action has a lemma of its own (`NewfBeginStep`,
`WriteRootSectorStep`, ...), the commands that only answer share `QuietStep`.

The second half proves, from the same assumptions and until the first mishap, what the
files hold:

- `AnswersSurviveReset` (`AnswersAreDurable`): appf and newf answer only in a state in
  which the whole directory has been written (`DirectoryWritten`), so `Inv` says of the
  disk what it says of memory: the entry has its new size, and the text of the
  command lies behind the old one (`AppfInFlight`);
- `ReadsShowWholeFiles` (`ReadShowsAll`): read prints up to the first zero of the
  sector. One more invariant, `TextsFilled`, says that no byte of a file is zero,
  in memory's sizes and in the disk's;
- `StoreRefinement` (`ImplementsStore`): the directory and the data on the disk are the
  store of `FileStore`. appf's write of the data is a stutter, because it changes no
  byte before the sizes that the disk has (`AppfBeginHidden`); the write of the one
  sector with the file's entry is the append (`TextAppears`); every other write
  changes no entry that has data, and a reset nothing on the disk.

`CommandLine_proofs`, for every length of the buffer and of `args`: first
`TokenizerStaysInBuffer`.
The reason is not that the tokenizer stops at the end of the line, which it does
not after an open quote; it is that the last two bytes of the buffer are zeros,
of which the first stops the search for the quote and the second the tokenizer
(`IInv`). That the scan finds the first of them needs a least element, from the
library's theorem on well-founded relations.

`LineBecomesWords` (`WordsAreArgs`) takes any sequence of words that the line spells, and
`WordInv` follows the tokenizer through it: the words before the k-th have their argument
and the zero behind it, the rest of the line is as it was typed. Where a word begins
depends on the lengths of those before it, and the line is a `FlattenSeq`; that the functions
behind both exist is proved by an induction written out (`AllNumbers`, `LayoutExists`,
`JoinsExists`). `TypedCommandRuns` (`CommandRuns`) follows under `CommandsDiffer`: no two
commands are equal to `strcmp`, which is true of the kernel's, since it compares the length
and the sum of the bytes.

The second part of `CommandLine_proofs` is about `Listing` (`ListIsReadable`,
`ListedNamesCanBeRead`, `ReadsShowTheText`): for any sizes of names and sectors, any
directory, any place and size of the arena and whatever memory holds at power on. Its
lemmas on the operators say what each conversion does to each character (`NameIs`,
`LineIs`), what C reads at an address (`StringIs`, `StringGoesOn`), that a name which fits
is listed as it was typed (`ListedAsTyped`), that what is listed is found again
(`ListedIsFound`), and that capitals do not matter (`SameName`). The invariant
(`ListingInv`) is what `list`'s loop keeps in memory while it runs (`Laid`): the lines lie
one behind the other at the end of what the arena has given, each whole, and each with a
zero behind it unless the next one begins there, which is what a name of full length
leads to (`shell.c:205`). So the store of a line, with the zero that is one byte too
many, falls behind all lines before it. `ListShowsTheNames` and `ListedNamesFind` hold
only as long as the arena gives memory; `ReadShowsTheFile` does not depend on it, because
`read` stores and shows in one go.

`ShellInput_proofs` (`LineIsExecuted`, `LineIsShown`), for a buffer and a cleared area of any
size, from no assumption but the module's, with keys between any two steps of the loop:

- `LineInv`: the characters typed since the last reset are in the buffer with a zero
  behind them, or else the first byte is zero, because a key came between the two
  stores of the reset (`shell.c:74`). While a command runs, which cuts the line, nothing
  is said of it.
- `ScreenInv`: as long as no backspace waits for its redraw and none was missed, no
  column behind the line shows an old character; during a redraw the columns done so
  far show the line; after it all do, unless a key was missed. The line's end is the
  least zero of the buffer, from well-foundedness.

`Ui_proofs` proves `QueueNeverOverflows` and `PromptStaysInBox` of the rows
(`ShellScreen`), by a bound on the queue for each part of a turn of the loop: for typed
lines of any length, the list overflows only when one of more than `LineThatFits`
characters is drawn (166 with the sizes of the code, by the longest answer that does
not scroll and both redraws). The module assumes of the list only that the box, a prompt
and an answer fit, which they do. `RowsAreTheTranscript`
(`ScreenIsTail`) needs `RowInv`: the rows above the prompt are the end of the transcript,
and *below the prompt all rows are blank, also after an answer has overrun the box* —
otherwise the next answers would leave old rows between new ones. It then shows that
drawing cell by cell implements the rows (`CellsImplementRows`: every step of `Ui` is
one of `ShellScreen`, for any boxes, texts and answers that the modules' assumptions
allow), so the two hold there too (`CellQueueNeverOverflows`, `CellRowsAreTheTranscript`).
Of the cells it proves, for any boxes that lie on the screen,

- `AllIsShown` (`ShownIsDrawn`): by the invariant that every cell in which drawing and screen
  differ is in the update list (`Drawn`), and that nothing is when its length is zero.
  The regions of `ui_scroll_vertical` and `ui_box` are as large as what they change, and
  `ui_clear_rv`, whose own region lies elsewhere, puts each character by `ui_putch`;
- `OtherPanesStay` (`PanesStay`): the arithmetic of `ui_putstr`, `ui_scroll_vertical` and
  `ui_clear_rv` keeps to the box (`Kept`), for every text and typed line, however often it
  wraps; what is found outside of it is the cursor of a line that was longer than its row,
  which is put where its length says, on the frame, in any pane or past the screen;
- `CellsShowTheRows` (`CellsShowRows`): each row of cells shows what the row of
  `ShellScreen` stands for, until a typed line leaves its row. The invariant (`CellInv`) adds that the prompt's row shows
  the line as it was drawn and that below it the cells are blank. Which character of a
  string a cell shows is the quotient of its place by the width (`Spot`, `Breaks`); the
  strings of an answer have their rows one behind the other and every row belongs to one
  string (`RowsBeforeOrder`, `StringOfRow`), so drawing one never overwrites another
  (`AnswerDrawn`); scrolling copies a row's cells from one row.

What an operator folds over is opaque to the provers; what is needed of the recursive
functions here, that they exist (`ScrollingExists`, `RowsBeforeIs`), is proved by
inductions written out.

`Boot_proofs` first proves of `Interrupts` (`AllAcknowledged`, `AllRoutinesRun`): the
invariant says, while a stub runs, which lines are in service and whose routine is one
call behind, by the number that was pushed. `BootAcknowledged` and `BootRoutinesRun` carry
it to `kernel_main`'s first instruction: until `sti` either no interrupt has been taken
and nothing is in service (`Calm`), or the invariant of `Interrupts` holds. These
theorems assume `Harmless`: the dword at address 0 is neither 32 nor the number of an
installed routine, and lines 7 and 15 have no routine.

`EverythingTaken` (`EverythingIsTaken`) is about the same boot: at each step of
`Program` it is known which descriptors, gates and registers are set (`SetUp`,
`Controllers`); an interrupt gets through only when all of them are, and an exception
that comes after `lidt` finds its own gate. It assumes `FromBoot`: the routines are those
`kernel_main` installs (timer 0, keyboard 1, mouse 12), and the exceptions 17, 21, 29 and
30, whose stubs push one word too many, are not among the faults. The kernel runs in
ring 0 without paging, alignment checks or virtualisation, so it raises none of them.

`Ps2_proofs`: `KeyboardWorks` (`KeyboardIsOn`) follows what is in the controller along
`mouse_install`, command by command, for any number of bytes that wait and any
configuration. It says nothing of a boot whose one flush read left a byte (`unread`):
then the answer to the second command is not the byte that is read, a wrong configuration
is written back, and the keyboard may be off.
`PacketsStayAligned` (`PacketsAligned`)
and `KeysReachListeners` (`KeysAreHeard`) hold, for any number of bytes waiting, moves before
`sti` and requests that outlive their bytes, as long as `upset` is empty: which byte is read
by whom is followed through the queue, and shift and caps lock are what
the keys heard so far say, up to the bytes that are still coming (`Followed`). That `upset`
can fill up, and that packets or letters are lost then, is seen with TLC
(above, with the runs). Each of its four mishaps is stated by what the
bytes are, never by what is made of them.

The second part of `Disk_proofs` is about the driver (`Ata`: `SectorsAreWhole`,
`TransfersAreDone`), for any number of sectors, words and transfers: which words the drive has taken follows from where the driver is
(`Phases`), what it stored follows from the number of the write (`Writing`,
`Reading`), and the stored sectors' write numbers never grow from one sector to the
next, also when a reset ends a transfer in the middle.

`Heap_proofs` (`BlocksAlwaysTile`, `FreeBlocksAreMerged`, `NodesStayOnOneList` for the
specification of `LinkedList`, `HeapIsSound` for that of `Heap`) is for any number of
nodes, any sizes and any calls, from the modules' assumptions only. The properties follow
pointers, so the invariant (`HeapInv`) does not: it says that there is a set of blocks
and a set of spare nodes, with no node in common (`Sound`), such that

- every block is linked with its neighbours in both directions and its addresses begin
  where the one before ends, and no two blocks have an address in common (`Blocks`);
- next leads from a spare node to one of a smaller rank (`Spare`), so the freelist ends,
  whatever the nodes that it lost look like;
- the used blocks are what callers hold (`Owned`, part of `BlocksTile`);
- two free blocks are neighbours only next to the one that is being merged (`Merged`).

That the walk from the root meets all of the blocks is derived (`AllListed`): it cannot
meet a node twice, because the addresses rise, so by the pigeonhole principle it ends
in time (`EarlyEnough`), and by induction over the addresses it leaves none out. Each
action has a lemma that names the sets after it (`AllocKeeps`, `FreeKeeps`,
`StrayFreeKeeps`, `MergePreviousKeeps`, `MergeNextKeeps`, `MergeDoneKeeps`): `memory_alloc`
moves the head of the freelist, or a new node, to the blocks, a merge moves one back. As in
the run, it is claimed while `odd` is 0: when a block has been used up to its last byte
(`memory.c:51`) or the root has been merged away (`memory.c:87`), `Sound` is false.

The second part of `Heap_proofs` is about the list (`WalksAreRight`), for any values and
any arena that does not begin at address NULL. The blocks enter it by one lemma: what
`memory_alloc` gives is no caller's (`NewBlock`, from `HeapInv`). The invariant
(`ListInv`), claimed until both walks are spoilt, names a sequence of nodes (`Chain`):

- along next from head there are first the nodes that were deleted as the first ones,
  where head still leads, then the nodes of the items, in their order, all different;
- the items' nodes are linked backwards too, hold the items' values and are in blocks
  that are not freed;
- tail is the last item's node or a deleted one, which still points to a node before it;
- while next is in `right`, no deleted node comes first and the chain ends; while prev
  is, tail is right and the first item has nothing before it.

The deleted nodes have to be there: a push may get such a block again, and that it then
spoils both walks follows from the pointers left in it. That
`Walk` follows the chain to its end (`WalkFollows`) is by induction over its steps; it is
not cut off before, by the pigeonhole principle on the addresses. `PushKeeps` and
`DeleteKeeps` name the chain after a call, `FoundFirst` says that the node that a
deletion finds on the walk is the first item's with that value.

The second part of `ShellInput_proofs` is about the log, for any calls, texts, sizes,
levels and handlers.

`VsprintfIs` says that `k_vsprintf` prints what C does for every call that is `Supported`
(`LogFormatsLikeC`: `FormatsLikeC` in every state, as long as no handler logs into
the call; if handlers do, between any two digits, the text keeps C's length, because what
they leave in the static buffer replaces digits one by one: `OverwrittenIs`, `GarbledIs`). The model repeats the program's
divisions, C's text is defined by powers of the base; `NumeralStep` joins the two from
the laws of quotient and remainder (`DivMod`, `DivDiv`), and there is one number of digits
only (`CountUnique`). A conversion is written with a width in decimal and read again:
`ParseNumeral` says that the width which is read is the one that was written, `SpecRead`
that the parser stops behind the specifier, `TurnPiece` that one turn of the loop goes past
one piece, takes its arguments and appends its text. Pieces and digits are counted by
`AllNumbers`: a set that has 0 and with each number the next one has them all, which stands
for the induction theorem that the provers cannot use.

`LogStaysInBuffers` (`StaysInBuffers`) is for buffers of any sizes and calls with texts of
any length, at any depth of groups. It needs for each loop that there is a zero ahead of it
inside the buffer, or that the call is `long`, and that it stays there when a handler's
call replaces the beginning of
the same buffer (`ReplaceIs`): a handler's text ends in a zero itself and leaves
all others behind it. While no call is long, copying stops at a zero no later than at
`TextSize` + 1, whoever wrote it, so head, text and tail fit: two texts that are mixed up
in one buffer do not add up. A long call may pass the end of its buffer, and the next
step is then `lost`. `LogAssumption` says of `TextSize` only that it is less than the
sizes of the buffers that texts are formatted into.

`LogLinesAreRight` (`LinesAreRight`) is for a call into which no handler logs, but after
any number that were disturbed. The invariant (`LogInv`, `Undisturbed`) says phase by
phase what the buffers have so far and that what was sent, together with what the
remaining lines will send (`Rest`), is the text in its frame. That the buffers still hold
the ends of older lines does not matter, because of the zero stored last.

Only model-checked are the liveness properties, which are out of the prover's reach.

`DecodersAgree` and the types and `Inv` of `FatFiles` are proved and not run.

## What the properties leave out

The models take the code as it is, and some of the properties hold only up to a
condition that the code does not ensure. These are the places, seen while
modelling, where it does something else than its comments or the documents say,
and what keeps them apart from the properties, or the run that shows them.

| Code | What it does | Kept apart by |
|---|---|---|
| `fat_drive.c:249` | the chain walk of a file whose cluster is free never ends | run `files_refused`; the properties are about files with data |
| `shell.c:244` | newf takes the entry of a file that was created and is still empty | the properties are about files with data |
| `shell.c:173` | a name without a dot is not refused: read answers that there is no such file, newf that it exists | no property is about the answer |
| `shell.c:193` | read prints up to the sector's first zero byte, also text of an append that a reset cut off | `ReadShowsAll` asks for a beginning only |
| `shell.c:185` | read stores a whole sector into `Size` bytes; a file that fills its sector is shown with what follows it in memory | `ReadShowsTheFile` asks for a beginning in that case |
| `fat_drive.c:91` | a name with a blank, typed in quotes, is listed up to the blank and not found by what is listed | `IsWord` in `ListShowsTheNames` and `ListedNamesFind` |
| `shell.c:205` | list takes 12 bytes for a name of 13: the next name is joined to it | `ListShowsTheNames` says how |
| `files.c:6` | the files pane keeps such a name in 11 bytes of stack | not modelled: overwrites its own frame |
| `arena.c:12` | the arena ends where length and end address are equal, not at its end; then NULL is used | `ListShowsTheNames` up to the first NULL |
| `kernel.c:59` | the kernel's arena and the heap's start at one address | nothing uses the heap after the drive is set up |
| `fat_drive.c:201` | the first byte of the label is overwritten, and written back with the directory | `StampedLabel` is a name no file has |
| `fat_drive.c:240` | the whole sum is multiplied by the sectors per cluster | `ReadsTheFile`: the kernel with clusters of one sector |
| `fat_drive.c:168`, `ata.c:82` | a failed write is not told to the callers, which report success | `Sound` in the properties of `FatFiles` |
| `shell.c:330` | the entry to resize is found by the sum of the name's bytes | `Sound` in the properties of `FatFiles` |
| `shell.c:43` | with the buffer full the zero is stored behind it | the model has that byte |
| `shell.c:74` | a key between the two stores of the reset leaves an empty line | `ExecutesTheLine` admits the empty line |
| `shell.c:113` | a key between redraw and the clearing of its flag is shown late | `missed` in `ScreenShowsTheLine` |
| `shell.c:332` | appf measures its argument three times, and keys may make it grow meanwhile | no property |
| `string.c:37` | a word with the length and byte sum of a command, as `tsil`, runs it | `CommandRuns` is about commands |
| `shell.c:99` | rows of an answer scroll away, or wrap over the top, before the screen is shown | `overrun` in `ScreenIsTail` and `CellsShowRows` |
| `shell.c:107` | a backspace clears 50 columns of the line | `CellsShowRows` looks at these |
| `shell.c:99` | a typed line that wraps goes on in the rows below, or at the top, which the loop does not count | `wrapped` in `ScreenIsTail` and `CellsShowRows` |
| `shell.c:115` | the cursor behind a line that fills the row is drawn on or past the frame, or past the screen | `wrapped` in `PanesStay` |
| `ui.c:56` | a typed line of 950 characters, or one of half as many that is drawn twice, or a shorter one after an answer, fills the update list | `LineThatFits` in `QueueFits` |
| `ui.c:145` | scrolling leaves the last column and the last row alone | `CellsShowRows` stops before them |
| `kernel.c:36` | strings put before `ui_new` has drawn the boxes are lost | not modelled |
| `memory.c:71` | calloc clears one byte as often as it should clear bytes | `right` in `WalksShowTheItems` |
| `memory.c:87` | after a merge with the root its node is on the freelist and still a predecessor | `odd` |
| `memory.c:51` | a block used up to its last byte passes for a huge free one | `odd` |
| `memory.c:143` | freeing clears memory behind the arena, not the block | not modelled |
| `clist_tplit.h:120` | deleting the first or last of several nodes leaves head or tail at the freed node | `right` in `WalksShowTheItems` |
| `irq.s:15` | the timer's stub pushes the dword at address 0, its routine never runs | `RoutinesRun` leaves out line 0 |
| `isr.s` | the stubs of 17, 21, 29 and 30 push a zero although the processor pushes an error code | not raised by this kernel's code; `Faults` has none of them |
| `idt.c:168` | handlers of exceptions return to the instruction that faulted | the faults are bounded |
| `mouse.c:94` | one read does not empty the controller's buffer if two bytes are in it | `upset` in `KeyboardIsOn` |
| `mouse.c:150` | the mouse reports moves before `sti`, and a read that expects an answer takes one of its bytes | `upset` in `PacketsAligned` |
| `keyboard.c:56` | code and press bit are read separately, and may be of two bytes | `upset` in `KeysAreHeard` and `PacketsAligned` |
| `ata.c:89` | the last sector is not waited for | `TransferDone` waits for the drive |
| `ata.c:49` | sectors after the first are read without a wait | `TransferDone` is about the first |
| `shell.c:310` | error returns leave a log group open, and all later lines are indented by four more, until they do not fit | `long` in `StaysInBuffers` |
| `shell.c:149` | arguments of up to 1023 characters are logged through buffers of 1000 | `long` in `StaysInBuffers` |
| `printf.c:138` | a handler that logs a number changes the digits of the one being formatted | `disturbed` in `FormatsLikeC` and `LinesAreRight` |
| `serial.c:52`, `log.c` | a line into which a handler logs is mixed up | `disturbed` in `LinesAreRight` |
| `printf.c:142` | digits of a negative number are looked up before the table; `%u`, `%b` take no argument | `Supported` in `FormatsLikeC` and `LinesAreRight` |

## Not modelled

Components without a module, or with a part left out, are in `PROJECT.json` with
the reason. What could be joined or refined further, and why it is not:

* `FatFiles` on `Ata`: the two modules meet at "a sector is written whole or refused",
  which `SectorsAreWhole` proves of the driver, and at the answer, which `ata_write`
  returns to without waiting for the drive (`ata.c:89`): `FatFiles` takes what was
  handed over for written.
* `Interrupts` with `Ps2`: the request lines of the second are inputs of the
  first; handlers cannot be interrupted, so joining them adds no interleaving.
* An abstract line editor implemented by `ShellInput`: the keys at `shell.c:74`
  and `shell.c:113` break every simple one; `ExecutesTheLine` and
  `ScreenShowsTheLine` are what remains of it.
* The tokenizer on a line that fills the buffer to its end: what follows the array
  is decided by the linker.
* The routines that nothing calls (`contains`, `arena_free_all`, `ui_printf`,
  `ui_refresh_b`, `fat_isvalid_filename`, the text functions of `vga.c`), the
  timer's routine, which is never reached, wrappers of single instructions,
  `tools/printf`, test code and its framework, and the multiboot headers, which
  are constants.
