# A TLA+ model of ginge

ginge runs programs made for the GP2X handheld on the Pandora, the Wiz and the Caanoo. It does not
emulate a processor: a program runs on the host's ARM, and only its accesses to device registers,
to device files and to other programs are caught. This directory holds TLA+ modules for the parts
where that can go wrong in ways a test would hardly reach, TLC configurations that check them on
small instances, and TLAPS proofs that hold for every value of the constants.

`PROJECT.json` relates every definition to the lines of the source it models, and lists the
components, the runs, the hazards, the findings, the theorems and, for every checked property, a
slip in the code that would break it. A definition called `X_Y` in a section "Slips" is such a slip
of `X`; no specification uses it.

## The system

| part | source | state | operations |
|---|---|---|---|
| screen refresh thread | `loader/emu.c` 233-425, 1086-1110 | futex word, pause flag, display registers | wait, copy a frame, look at the keys; requests by the program's thread |
| register access | `loader/emu.c` 726-1056 | link pages, the patched program | fault, patch, turn the page, call `emu_handle_op` |
| instruction emulation | `loader/emu.c` 744-877, `emu_arm.s` | registers of the program | one load or store |
| registers, buttons, timers | `loader/emu.c` 432-726 | `mmsp2`, `pollux`, `btn_state`, `fudge` | `xread8/16/32`, `xwrite8/16/32` |
| palette | `loader/emu.c` 305-340, 655-712, `common/host_fb.c` | two palettes, dirty mark, host palette | write entries, pass to the host |
| blitter | `loader/emu.c` 167-303 | `blitter`, upper memory | fill or copy a rectangle |
| loaders | `loader/loader.c`, `loader/dl.c` | address space | read the maps, load segments, place link pages |
| code patches | `loader/patches.c` | the loaded program | scan for signatures of library code |
| device files | `loader/override.c`, `loader/emu.c` 1116-1369, `loader/host.c` | descriptors, upper memory, the pen | open, read, ioctl, mmap, munmap |
| sessions | `prep/main.c`, `loader/emu.c` 1444-1524, `loader/override.c` 229-285 | script file, processes | convert a script, run it, execve, system, forced exit |
| host video | `common/host_fb.c`, `common/wiz_video.c`, `prep/main.c` | ring of buffers, display mode | draw, flip, change the mode, clean up |
| host input | `loader/host*.c` | keys, events | read keys and events, forced exit |
| veneers, logging, fonts, launch scripts | `llibc.c`, `syscalls.S`, `cmn.c`, `font.c`, `dist/` | none | |

They meet in few places. A program's register access faults (`segv_sigaction`), and from then on
calls `emu_handle_op`, which reads or writes `mmsp2`. Writes of the frame address and blits to the
screen ask the refresh thread for a copy over a futex. The thread shares `mmsp2` with the program
without a lock. The loaders decide where the link pages go, which must be near the program and
outside it. `ginge_prep` decides which loader runs a program, and a program that starts another one
gets `ginge_prep` again, which writes the file the first script is read from. The menu is a
separate program.

What is hard: two threads with nothing between them but one futex word; a signal handler that
rewrites running code within limits of distance and room; `MAP_FIXED` over an address space that is
known only from a parsed text; a script that changes while it runs; a display that several
processes set without telling one another; descriptors that are remembered longer than they live;
arithmetic that overflows on purpose. Nothing is persistent apart from the script; the one recovery
is `ginge_prep --cleanup`, which puts the display right after a loader that has crashed.

## Modules

| module | models | run | proofs |
|---|---|---|---|
| `FbSync` | the refresh protocol, the start of the thread, pause, kill key | `fbsync`, `fbsync_killkey` | `FbSync_proofs` |
| `IoMachine` | what register access promises: abstract specification | through `linkpages` | |
| `LinkPages` | SIGSEGV patching, implements `IoMachine` | `linkpages`, `linkpages_unaligned` | `LinkPages_proofs` |
| `OpEmu` | `emu_handle_op` beside the processor's definition | `opemu` | `OpEmu_proofs` |
| `Reads` | buttons, timers and unknown registers as programs poll them | `reads` | `Reads_proofs` |
| `PaletteSync` | palette writes against the copy to the host | `palette` | `PaletteSync_proofs` |
| `Blitter` | one blit: clipping, copying, filling | `blitter` | `Hardware_proofs` |
| `HostVideo` | frames on their way to three hosts' displays | `hostvideo` | `HostVideo_proofs` |
| `Patches` | the search for library code in static programs | through `loader` | `Loading_proofs` |
| `Layout` | both loaders and the place of the link pages | through `loader` | `Loading_proofs` |
| `Loader` | the static loader as a whole, composes `Layout` and `Patches` | `loader` | |
| `Session` | scripts, programs starting programs, forced exits | `session` | `Loading_proofs` |
| `Devices` | device files, sound fragments, upper memory, touch screen | `devices` | `Hardware_proofs` |

`MC<module>` gives the constants of a module their values, with the `.cfg` named after it; `MCLayout`
and `MCPatches` are put together by `MCLoader`. A run with a second name (`fbsync_killkey`,
`linkpages_unaligned`) is expected to find its property violated: it shows where the code does not
do what a comment or a message says, and `PROJECT.json` has the finding. Some properties are defined
and in no run because they do not hold, and the sections below say why: `PaletteNeverLost`,
`CalculatedAddr`, `MenuScreen`, `HostSafe`, `SelectsRightHandler`, `BackToMenu`. `LinkPages` takes an
emulated instruction as one access that is made; `OpEmu` is that step in detail. `FbSync` says when
the refresh thread makes a pass, `HostVideo` and `PaletteSync` what the pass does. `Loader` composes
`Layout` and `Patches`: they share the place in the loop over the program headers, and each takes its
steps while the other waits.

A type invariant belongs to every module but `IoMachine`: `TypeOK`, or `LayoutTypeOK`,
`SessionTypeOK` and `DevicesTypeOK` in those that share a proof module with another one. Each is
proved, and left out of the run, `Devices` excepted.

### FbSync

The program's thread (`app`) and the refresh thread (`fb`) each have a place in the code; a step is
what lies between two accesses to something shared. So setting the futex word (`PostRequest`) and
`FUTEX_WAKE` (`WakeThread`) are two steps, and so are the wake of the thread and its reset of the
word (`ClearFutex`). `FUTEX_WAIT` compares and blocks in one step, as in the kernel. A wait may end
by a wake, by its timeout at any moment, or with an unexpected error (bounded by `MaxErrors`).
`asked`, `stale` and `late` are history: a request that is outstanding, whether what was asked for
is on the screen, flips begun since the pause. A pass that skips the copy *drops* the requests it
has taken; that is what the code does, and `ScreenCatchesUp` shows why it is harmless.

The comment at `emu.c` 369 calls the reset of the word a race with low impact. `NoSleepOnRequest`
makes that precise: a request can be merged into the pass that is about to begin, but none is left
behind a blocked thread. `AtMostOneLateFlip` says what the 10 ms sleep of `fb_thread_pause` really
guarantees. `fbsync_killkey` shows that the kill key is not looked at while the frame address is out
of range, which is one of the cases its comment is about.

Fairness: the refresh thread is scheduled and its waits time out (the code always passes a
timeout); the program's thread goes on while it runs code of the emulator. What the program does
next, the end of a `system()` child and the user are not fair. Deadlock is not checked because the
process exits.

Bounds: two values for each half of an address, so a torn address differs from both of the whole
ones; the frame at one address fits in 8 bpp and not in 16; two frames between looks at the keys
instead of 16; one failed wait. 81,644 states.

### LinkPages and IoMachine

Addresses count words. The memory is kept as far as it matters: `blocks`, `headers` and `jump` are
those that are whole, and every write takes away what it overlaps, so a layout mistake shows up as
a jump into nothing. `Patch`, `PatchAndTurn`, `TooManyPages`, `NoNearPage`, `TooFar` and
`RealCrash` are the ways `segv_sigaction` can go, `Execute` and `ExecuteUnhandled` the calls of
`emu_handle_op`, whose effect is reduced to the access being made once or not at all. What an
instruction addresses is decided anew each time the program gets to it (`where`): a register,
ordinary memory, or nothing. An instruction that has touched a register once is patched, and from
then on it goes to `emu_handle_op` whatever it addresses; there an address that is no register is
an unknown one, and the access is lost (`emu.c` 609, 665, 725). So `IoMachine`, the abstract
specification, has accesses to registers, accesses to memory by instructions that have touched no
register (`AccessMemory`), and `Lose` for those that have. `ImplementsIo` is the refinement: a
program on link pages does what `IoMachine` does, or the process ends. A real program meets the
limit only if one instruction is used for registers and for memory, as in a `memcpy`.

Fairness: the processor goes on with an instruction it has reached. Deadlock is not checked because
the process ends in many ways.

Bounds: pages of 32 words take two blocks each, and the two pages allocated for each of two areas
are counted together, so pages are turned and run out; branches reach 100 words, and there are
instructions that are near one area, near the other, near only after blocks have been written, and
reached by a block that has no way back. 16,372 states.

`linkpages_unaligned` is about the crash test. The link pages are aligned to a page only
(`emu.c` 1046), and the mask of the test (`emu.c` 942) is that of the whole allocation: a program
that begins on a page and not on a multiple of the allocation has a piece of code that is taken for
link pages, and the first register access there is reported as a crash (`CrashIsReal`). Programs are
linked at multiples such as 0x8000, so they do not meet it. The specification itself has no
hypothesis about the alignment: a crash is a way for the process to end, for every place of the
pages.

### OpEmu

An instruction is a record of the bits the code tests. `LoadHalf`, `StoreHalf`, `LoadSingle` and
`StoreSingle` are the branches of `emu_handle_op`, `Skip` and `Abort` its other ends; `ArmRegs` and
`ArmAccess` are the processor's manual. `EmulatedRight` compares the two, `SkipsRight` the
conditions; conditions the code does not know (HI to LE) abort, which is no error of either.
Shifts to the right are excepted: LSR and ASR shift by one more than the encoded amount
(`emu.c` 829-830). `CalculatedAddr` is what the check that is compiled out at `emu.c` 863-868 would
test, and it does not hold for them. A store hands the whole register to `xwrite8` and `xwrite16`; of
that the bits of the store are compared, and what a register of the chip makes of the rest (a
stride, `emu.c` 637) is not modelled.

Bounds: words of 4 bits, halfwords of 2, three registers, every combination of the bits a form looks
at, all settings of the flags with every condition. 386,472 states. Deadlock is not checked because
a behaviour is one instruction.

### Reads

A program polls one of three things, which share nothing; `polls` says which.

*Buttons.* A word is the set of its bits. `GPIOC`, `GPIOD`, `GPIOM`, `GPIOBPAD` and `GPIOCPAD` are
the shifts and masks of the code; what the program makes of the words (`Place`) is written from the
layouts in its comments, so `EachButtonTrue` compares two descriptions of each register, while the
user and the refresh thread change `btn_state` between the reads. `HeldIsSeen` is about freshness:
the first read of a poll asks the host. A poll that begins with `GPIOBPAD`, which does not, would be
one poll behind; the model has polls begin with the read that asks, as minilib's do. The Wiz's
registers are read whole; a read of 16 bits at the address of one gives its upper half
(`emu.c` 547-553), and is left out.

*Unknown registers.* `ReadUnk` is the code at label `unk`: an address that is read again gives
`fudge`, which is then inverted. `WaitEnds` is what that is for: a loop that waits for a bit, set or
clear, ends at the third read. A loop that reads two unknown registers in turn, or one of them
twice a turn, is not helped, nor one that reads 8 or 32 bits, which give 0 always.

*Timers.* `Timer3` and `Tcount` are the fixed-point products of the code with their overflows.
`TimersTrue` says that the difference of two readings, taken as programs take it (modulo the word),
is right to within two ticks. It needs the factors to be rounded up and hardly more, which is
`ClockAssumption`; the constants of the code satisfy it (4294968 * 10^9 - 10^6 * 2^32 = 704,000,000
and 31665935 * 10^9 - 7372800 * 2^32 = 120,051,200, both less than 10^9).

Bounds: nine sets of held keys that have every button in one of them, with and without home;
`btn_state` has three values in a poll at most (the thread looks at the keys every 16 frames); two
unknown registers and two bits; a clock of 100 units a second with words of 512, read at 25 moments
around the ends of seconds and the wraps of either timer. 336,741 states. Deadlock is not checked
because the kill key ends the process.

### PaletteSync

A 16-bit write is one half entry of the GP2X palette, a 32-bit write is two of them or one entry of
the Wiz palette; each is followed, a step later, by the dirty mark. The copy goes entry by entry
and the mark is cleared behind it. `PaletteReaches` holds with the exception of a mark made in the
middle of a copy. Without the exception (`PaletteNeverLost`) it does not hold: the mark is cleared
and the colour never reaches the host. Two entries and two values are enough for a copy to be begun
and not finished. 540,288 states, deadlock checked.

### Blitter

Memory is a whole address space, upper memory somewhere in it, so a blit that leaves it can be told,
also one whose pointers go past the end and come round to the beginning: pointers and strides have
the width of a word, as in the code. Each byte begins as its own offset, so the result shows where every byte is from. `Clipped` is applied to the
source and then to the destination, as in the code. `StaysInside` and `RectangleRight` take rows not
to reach into the next one (`Laid`) and a width above 0: a stride that is shorter than a row is not
clipped right, and `memset16` writes one half word for a count of 0 (`emu.c` 168). They also take
the last row to end before the address space does (`Modest`): the end of the blit is what the code
compares with the end of upper memory (`emu.c` 251, 261), and with a stride so large that it goes
round, it is below that end and nothing is clipped. Without `Modest` TLC finds a fill of two rows
whose second lies outside. Where areas overlap, `memcpy` may copy in either order.

Bounds: an address space of 64 bytes, 16 of them upper memory and 24 below it; widths and heights to
3, both depths, strides that are negative, 0, odd, longer than rows and so long that pointers go
round, places before, in and at the end of memory. 110,488 states. Deadlock is not checked because a behaviour is one blit.

### HostVideo

A pass of the thread is `Pass`, `Lookup`, `ChangeBpp`, `Blit` and `Flip`, with the program free to
change address and depth between any two. The display takes its registers over at `VSync`. On the
Wiz the frames go round a ring of buffers; nothing waits for the display. `System` gives the display
to a child that sets what it likes. `Crash` ends the loader anywhere, also while it waits for the
child; its refresh thread goes on until `ThreadDies`, and the child until it ends. `Cleanup` is
`ginge_prep --cleanup`, a second later; that the thread has died by then is what the comment at
`prep/main.c` 461-463 counts on and is assumed.

`DrawApart` says how many frames may come within one picture before one is drawn into the buffer on
display. `FormatMatches` relates the mode to the depth of what is shown, and holds until a child
sets another mode: `old_bpp` then says that nothing has changed, so a Wiz stays unrotated after the
clean-up of a nested script until the program changes its depth. `ScreenBack` is liveness: the
program's frames come back after a child. `MenuScreen` states the comment "as loader may crash eny
time, restore screen for the menu" (`prep/main.c` 275). It does not hold, and no run checks it: a
forced exit kills loaders that wait for a child as well (`host.c` 144), and a child that is no loader
of that name draws after the clean-up, so that the menu has its mode. That depth and stride are read again after the range
check (`emu.c` 397-406) can make a copy leave upper memory; what then happens is one of the crashes. A frame of 4 bits ends the process (`BlitFaults`): the inner loop of that blit
tests the outer variable (`host_fb.c` 106).

Fairness: the thread is scheduled and its waits end by a timeout; the display sends pictures. What
programs do is not assumed. Deadlock is not checked because the menu stays.

Bounds: a ring of three buffers (the code has four; the proofs take any number above two), frames of
2 by 2 pixels, two distances to the end of memory of which one is too short for a frame of 16 bits,
all depths with one that is not drawn, three hosts. 686,560 states.

### Patches

Memory is an array of words, a signature a sequence of the words its masks let pass. `Patch` takes
the first entry that matches and skips behind it, `NextWord` goes on. The properties say that what
is patched was a whole signature of the program as it was loaded and stays, that nothing else is
changed, that no signature is missed, and that nothing behind the segment is changed when zeros are
there, as `loader.c` leaves them.

Bounds: the table of the source, entry by entry and in order, with instructions as names; memories
of 18 words that hold any two pieces of signatures after one another, so that each entry
meets the beginning, the middle and the end of each other one; segments that end in between.

### Layout

The reading of `/proc/self/maps` is modelled by what the two loops do with it. In `loader.c` the
format wants a path name: at the first line without one `scanf` takes the first word of the next
line instead, and the loop ends. In `dl.c` one line is skipped before each line that is scanned.
The rest is arithmetic over pages: the test of a segment against the list, the rounding, the lowest
segments, and `MAP_FIXED`. `owner` says what each page holds at last. `ListedSafe` shows that
rounding behind the check never harms a listed map, `ProgramIntact` and `AreasApart` that program
and link pages stay apart; `AreasApart` is what `LinkPages` assumes of its constants. For maps that
were not read nothing is promised: `HostSafe` is `ListedSafe` for all maps and does not hold
(`loader.c` 99), and the second area of a dynamic program can be put over a map on a line that was
skipped. Segments may share pages, which nothing in the loader tests for: the map for the later one
wipes the whole page, so `ProgramIntact` is about the pages a segment has to itself or shares with
those before it, and says of the others that they hold a segment that came later.

Bounds: 24 pages of four bytes; all lists of up to four maps at four places, two lengths, with and
without a name, against an array of four; lists of up to three segments, aligned and not, in rising and falling order,
with and without a page in common.

### Loader

`main` of `loader.c` reads the maps, takes one program header after the other and makes the link
pages at last. A segment that may be executed is searched by `do_patches` as soon as it is in memory
(`InDoPatches`), before the next header is looked at. Programs have one such segment, the first; a
dynamic program is not searched. The run `loader` checks the properties of `Layout` and `Patches` on
the whole.

Bounds: every address space with one program, and every program in one address space: nothing passes
from one module to the other but when the search begins and ends, so more pairs would show the same
again. 196,447 states. Deadlock is not checked because loading ends.

### Session

Processes wait for one another, so they are stacks. A line of a script is what `ginge_prep` tells
apart, and where it stands (`put`): at the beginning of a line that always runs ("open"), at the
beginning of one the shell may leave out, in an `if` ("inner"), or behind something else, or quoted
so that the shell reads it in another way ("hidden"). `ginge_prep` converts the first two kinds
alike, and follows a `cd` with its own `chdir` (`Chdir`) whether the shell will run it or not;
hidden lines it passes on as they are. The shell has its own `Enter`, skips what it likes of the
inner and hidden lines (`ShSkip`), and an `exit`, or a program that is run by `exec`, ends it
(`ShExit`, `ShRun`). `astray` marks a shell that has left out a `cd` or followed a hidden one.

`RightLoader` is the claim that the loader fits the program wherever both can be expected to agree:
for lines `ginge_prep` sees, in a shell that is not astray, through nested scripts, mounted images
and programs that change their directory. A program that only an image brings is excepted: it cannot
be looked at before the image is unpacked. `ForcedExit` kills every process that is a static loader,
also those that wait; the shells in between go on beside each other, each a stack of its own:
`Pieces` are what lies between killed processes, and their order among each other, which nothing
depends on, is left open. No directory of the card is called `/usr/gp2x`, where the menu of the GP2X
is (an assumption). `NeverStranded` says that some process leads back to the menu unless a line of
its own script has ended the shell (`left`), `OneMenu` that no more than one does. After a forced
exit an inner shell may go on to run programs beside the menu, which `OneMenu` allows.

What is beyond that does not hold. `SelectsRightHandler`: a program on a hidden line, or in a shell
that is astray, gets no loader or the wrong one, although `readme.txt` (47) says `ginge_prep` selects
the right handler. `BackToMenu`: an `exit`, or an `exec` behind other words, is passed on
(`prep/main.c` 452) and ends the shell before its line for the menu, although one is to return to
the menu (`readme.txt` 26-28). TLC finds a counterexample for each at once; they are defined in the
module and in no run. The run and the proofs have a shell that has read the whole script before it
runs it (`Whole = TRUE`; these scripts are a few hundred bytes and shells read more at a time, but
nothing in the code ensures that). With `Whole = FALSE` the shell goes on with what the file holds by
then, a conversion asked for by a program (`prep/main.c` 314) takes away the line that starts the
menu, and TLC finds `NeverStranded` violated.

Bounds: two conversions asked for by programs, four directories, three names that are different
things in different directories, two scripts with lines of every kind. 447,575 states. Deadlock is
not checked because everything can end when a script exits.

### Devices

The kernel's descriptors are handed out lowest first, fake ones begin where the kernel's end
(`Limit <= FAKEDEV_MEM` is an assumption, as in the code). `read` and `ioctl` are wrapped, and
`answer` says who has answered the last call and whom it was for; `close`, `write` and `lseek` are
not wrapped, so for a fake number they are an error of the kernel's and the device stays open
(`PassedOn`). `snd` is remembered at open and never forgotten. `RightAnswer` says what follows: reads
and ioctls of a fake device are answered by the emulator, settings and syncs of `/dev/dsp` are
caught, everything else is the kernel's, with one exception, which is a file that gets a number at
which `/dev/dsp` has been closed; its settings and syncs are answered with success
(`override.c` 165-167). `StrangeCaught` shows that the stale number does no harm to the sound device,
through any order of open and close. Integers are 8 bits wide so that `frag_cnt << frag` overflows;
as in the program, the greatest number of bytes is 2 to one less than the width of the count, which
is why an overflow never looks like a workable setting. A shift by the width or more is undefined
in C; the model takes either outcome, and the property excepts such sizes because they can get
past. `UpperMemoryStays` is about `emu_do_munmap`, which looks only at where a region begins.

The touch screen's events come one coordinate at a time. `ReadTouch` collects those that are there,
`ReadTouchFails` is a read that ends in an error; `host_read_ts` knows no end of a report. The pen is
anywhere when the loader opens the host's device, which tells changes only, so a coordinate that has
not changed since is 0 to the program (`Shown`, `host.c` 77). `TouchTrue` says that what is read is
the pen seen like that, or mixes two reports at most, whatever failed before. `TouchOnPanel` is about
the conversion: a point of the picture is a point of the panel. One beside the picture wraps around
in 16 bits (`emu.c` 1342).

Device registers (`mmap` of the register window, always at the same fixed address), `dup` and
paths that are rewritten are left out.

Bounds: two kernel descriptors, three kinds of fake device, three regions mapped at a time, four
pages of which two are upper memory, all settings of the small integers, four pixels at the corners,
in and beside the Pandora's layer, four events that gather; a program uses sound, memory or touch.
509,420 states, deadlock checked.

## What is proved

The proofs need the named assumptions of each module (`ConstAssumption`, `TableAssumption` and
`MemoryAssumption` of `Patches`, `WordAssumption` and `InputAssumption` of `OpEmu`, `BlitAssumption`,
`HostAssumption`, `ClockAssumption`, `LayoutAssumption`, `SessionAssumption`, `DevicesAssumption`) and
nothing else, apart from the theorems of `Session`, which have `Whole` as a hypothesis: without it
`MenuReached` does not hold. TLC evaluates the assumptions in every run. Each module has an
inductive invariant, `IInv` (`LayoutInv`, `SessionInv` and `DevicesInv` for these three), which the
type invariant and the properties follow from. The invariants were put before TLC on the
instances of the runs before they were proved.

`FbSync_proofs`: `TypeCorrect`, `RequestsWake`, `PauseBounded`, `HandshakeSafe`.
`RequestInv` adds where a request can be: on the way to the futex, on it,
or with a pass that has been woken and has not looked up the frame yet; and that the thread sleeps
on a posted word only until the wake. `LateInv` adds that the one late flip is spent by the pass
that is past its test of the pause. `HandshakeInv` relates the two places of the code during the
start and says that the word is 1 only until the thread has cleared it.

`LinkPages_proofs`: `TypeCorrect`, `RoomIsLeft`, `PagesStayMapped`, `PatchedCodeIntact`,
`FaultOnlyOnce`, `Refinement`. The invariant says that no area is further into
its allocation than the pages counted in both together (`PageInv`), that a page in use has room for
one more block (`RoomInv`), and that everything written so far lies below the current code pointers
(`LayoutInv`), so the next block is written to fresh words. The refinement maps `alive` to
`status = "run"`: a handler run is a stutter or `Stop`, `Execute` is `AccessRegister`, `Skip` or
`Lose`, `RunPlain` is `AccessMemory` or `Skip`.

`OpEmu_proofs`: `EmulationRight` and `ConditionsRight` for words of every width. Adding a negated
offset is subtracting it in words (`SubtractIsAdd`), the code's sign extension is that of the
manual (`SignRight`), and each branch of the code is compared with the definition on its own.

`Reads_proofs`: `PollTrue` and `HeldShown` rest on `Decoded`, that each button is 0 in its place and
only there, and on the invariant that each word read is that of some value `btn_state` has had since
the poll began. `WaitsEnd` has the invariant `Progress`: a register polled in vain is the last one
read, and after the second time `fudge` has the awaited bit. `TimersMeasure` has no invariant but
that readings are in order; it rests on `RawNear` (a reading, but for the wrap, is near the exact
number, with an error that grows slowly or not at all), `RawGrows` (it never goes back, at the ends
of seconds neither), `UpperWord` (cutting a product to two words and taking the upper one) and
`Difference` (what subtraction makes of the wrap).

`PaletteSync_proofs`: `Reaches`, for every size of palette. `CopyAgrees` says that a copy made part
of the way agrees with the registers as far as it goes, `DirtyNames` that the mark names the palette
being copied.

`HostVideo_proofs`: `BuffersApart` and `DepthMatches`, for rings of every length above two and frames
of every size. `RingInv` counts the buffers from the one on display to the one drawn into, `ModeInv`
says what `old_bpp` knows of the display at each place of a pass.

`Loading_proofs` is about how a program gets to run.

- `Patches`: `PatchesStay`, `CodeSpared`, `AllFound`, `BehindSpared`, for every table whose jumps are
  no longer than their signatures, and every program. `Frontier` says that hits lie behind the scan
  and that before it the memory is as it was loaded.
- `Layout`: `LayoutTypeCorrect`, `ListedStays`, `SegmentsStay`, `LinkPagesApart`, for address spaces,
  page sizes, lists of maps and program headers of every size. `HostsInv` says that nothing is
  touched while the maps are read, `SegmentsInv` that the pages of a loaded segment are its own or
  shared with a later one and that none lies below the lowest, `LowestInv` what is known of the two lowest addresses at each
  stage, `AllocInv` where an area that has its pages lies. The steps come down to pages: a segment
  that passes the test against a listed map has no page in common with it after rounding.
- `Session`: `SessionTypeCorrect`, `LoaderFits`, `MenuOnce`, `MenuReached`, for whatever is on the card
  and in its scripts, any number of nested conversions and forced exits at any moment. A `Walk`
  gives each line of a script the directory it was converted for: every program of the script has
  the loader that fits it there (`Known`), and each `cd` leads where `ginge_prep` thought (`Goes`).
  `Prepared` says that the lines written so far walk from where the conversion began to where
  `ginge_prep` is now, `Follows` that a shell is on the walk of what it has read, or astray, or in a
  directory that did not exist when the script was converted, where there is nothing an earlier look
  could have missed. `WalkKept` carries a walk over an image being unpacked. `Sound` and `Lone` are about
  the way back: who leads to the menu is at the bottom of its stack, in exactly one stack, and
  waits for another one only as a shell. For a forced exit, `SameBegin`, `SameEnd` and `FirstPiece`
  say that the pieces of a stack begin and end apart, and that the bottom of a stack, unless it is
  killed, is the bottom of one piece, so what leads to the menu is neither lost nor doubled.

`Hardware_proofs` is about what the emulator keeps in place of the GP2X's devices.

- `Blitter`: `ClippingSuffices` (the rows that are left lie in upper memory), `BlitStaysInside`,
  `BlitDrawsRectangle`, for words, memories and blits of every size and both depths, under the
  hypotheses `Laid` and `Modest` the properties have. The first two hold for
  areas that overlap as well, whichever way `memcpy` goes. `Fresh` says that before the blit each byte is its own. A row is a function of what is
  there byte by byte, a picture one row after the other; that both are defined at all, and what they
  are, is shown by induction (`Induction` and `Recursion`, taken from least elements). `CopyEffect` and
  `TransparentEffect` say what one row does to memory, `RowsApart` that a row drawn later leaves
  earlier ones alone, `RunInv` puts them together: after `k` rows the first `k` are the picture's, the rest is as it was.
- `Devices`: `DevicesTypeCorrect`, `AnsweredRight`, `StrangeNeverSet`, `UnmapSafe`, `TouchFollowsPen`, `PanelRange`,
  for every number of descriptors, pages, pixels and gathered events. `FilesInv` says that a sound
  device that is open is the one that was opened last, `FragInv` that the fragments are a setting
  or one of the two the emulator makes up, `MemoryInv` that regions of files are
  apart from each other and from upper memory, `PenInv` and `TouchInv` that the events still to be
  read, put on what has been read, give the pen (`LatestSplit`: reading a part and then the rest is
  reading all), `AnswerInv` that the last answer names a call and a device there are.

Only model-checked: liveness (`InitCompletes`, `ScreenCatchesUp`, `KillKeyServedInRange`,
`AccessMade`, `ScreenBack`), since fairness and ENABLED are out of the prover's reach. Every
invariant a passing run checks is proved. No module uses RECURSIVE. The library's induction theorems take an
operator as a parameter and cannot be used; the inductions in `Loading_proofs` and `Hardware_proofs`
go over sets of numbers, by a library theorem on least elements.

## What is not modelled, and what is left

Left to do, in this order:

1. Two program threads that fault at once in `LinkPages`: `segv_sigaction` has no lock, so two
   handlers can write one block. GP2X programs with threads are rare.
2. A composition of `Layout` and `LinkPages`.
3. The failure paths of `emu_init`: after mapping the thread's stack the result of an earlier map is
   tested (`emu.c` 1088).

Left out for good: key maps, fonts, message texts, register names (`mmsp2-regs.h`), the fixed
answers of frame buffer and terminal ioctls, and the system call veneers, which keep no state;
registers that read as constants; reads of `/etc/pointercal`, which never end but have no position
to model (`emu.c` 1357); `gp2xmenu`, the shell, the kernel and the Pandora's display library, which
appear only as external actors.
