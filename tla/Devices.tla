------------------------------ MODULE Devices ------------------------------
(***************************************************************************)
(* The device files of the GP2X as a program sees them: the wrapped system *)
(* calls of loader/override.c and what emu.c does for them.                *)
(*                                                                         *)
(* Most devices are fake: opening one gives a number the kernel does not   *)
(* use, and calls with that number go to the emulator.  /dev/dsp is real,  *)
(* but its ioctl calls are looked at first; the emulator remembers its     *)
(* number when it is opened.  close, write, lseek and dup are not wrapped. *)
(* A duplicate of a descriptor is left out, and so are device paths that a *)
(* program opens with anything but open().                                 *)
(*                                                                         *)
(* The touch screen is fake as well.  What is read from it comes from the  *)
(* host's input device, whose events arrive one by one and are collected   *)
(* when the program reads (host_read_ts of loader/host.c); the points are  *)
(* converted to those of the GP2X's panel.  The calibration of the host is *)
(* taken to be done: its events carry pixels of its screen.                *)
(***************************************************************************)
EXTENDS Integers, FiniteSets, Sequences

CONSTANTS
  FAKEDEV_MEM,     \* 1001, the first fake number
  Limit,           \* the kernel hands out numbers below this one
  HalfBits,        \* half the width of an int: a fragment setting has one half
                   \* for the count, with its sign, and one for the size
  Settings,        \* <<count, size>> pairs programs ask for
  MinSize,         \* 8: fragments of 2^8 bytes
  MinBytes, MaxBytes,   \* 16K and 32K, of all fragments together
  Default,         \* <<8, 10>>, set instead
  Forced,          \* emu_force_snd_frag, or None
  Umem,            \* the pages of upper memory
  Pages,           \* the pages the kernel can map for the program, with Umem
  Layer,           \* [x, y, w, h]: where the host's screen shows the program
  Points,          \* [x, y]: pixels that are touched
  Backlog,         \* bound: events that gather; a host that has more for the
                   \* reader than it keeps loses some, and nothing can be
                   \* said of what is read then
  Tried,           \* bound: the places in Fake of the devices a program opens
  MaxRegions,      \* bound: how much a program has mapped at a time
  Uses             \* bound: which of "sound", "memory" and "touch" one program
                   \* uses; they have only descriptors in common

Fake == <<"mem", "gpio", "fb0", "fb1", "mmuhack", "wm97xx", "wm97xx_p", "tty", "tty0">>
FAKEDEV_FD_BOUNDARY == FAKEDEV_MEM + Len(Fake)
None == <<>>

IntBits == 2 * HalfBits
Pow2[k \in 0..IntBits] == IF k = 0 THEN 1 ELSE 2 * Pow2[k - 1]

\* The most bytes are no more than the greatest count.
ASSUME DevicesAssumption ==
  /\ FAKEDEV_MEM \in Nat /\ Limit \in Nat /\ Limit <= FAKEDEV_MEM
  /\ HalfBits \in Nat \ {0} /\ MinSize \in Nat /\ MinBytes \in Nat \ {0}
  /\ MaxBytes \in 0..Pow2[HalfBits - 1]
  /\ Settings \subseteq ((0 - Pow2[HalfBits - 1])..(Pow2[HalfBits - 1] - 1)) \X Nat
  /\ Umem \subseteq Pages /\ Pages \subseteq Nat /\ \A a, b \in Pages : a..b \subseteq Pages
  /\ Tried \subseteq DOMAIN Fake /\ MaxRegions \in Nat
  /\ Layer \in [x : Nat, y : Nat, w : Nat \ {0}, h : Nat \ {0}]
  /\ Points \subseteq [x : Nat, y : Nat] /\ Backlog \in Nat
  /\ Uses \subseteq SUBSET {"sound", "memory", "touch"}

VARIABLES
  files,      \* what the kernel's descriptors are: "closed", "file" or "dsp"
  opened,     \* the fake devices the program has opened
  snd,        \* emu_interesting_fds[IFD_SOUND].fd
  frag,       \* the fragment setting the sound driver has been given
  mapped,     \* the pages that are mapped
  regions,    \* [first, last] of what the program has mapped
  answer,     \* the last call on a descriptor: [call, fd, of, by], what it was,
              \* the device meant, and who has answered
  uses,       \* what the program uses, of Uses
  pen,        \* the pen now: [x, y, p], p for pressed
  report,     \* the rest of what the host has to tell of it
  queue,      \* the events that can be read: <<coordinate, value>>
  raw,        \* raw_x, raw_y and raw_p
  touch,      \* what the program read last: [pressure, x, y]
  freed,      \* history: numbers at which /dev/dsp has been closed
  still,      \* history: the coordinates of the pen that have not changed since
              \* the loader opened the host's device
  before,     \* history: what could be told of the pen before it last changed
  seen        \* history: how touch was read: "whole" when all of the last
              \* report could be read, "part", "failed", or "old" since the pen
              \* has moved

devicesVars == <<files, opened, snd, freed, frag, mapped, regions, answer, uses, pen, report,
                 queue, raw, touch, still, before, seen>>
descriptors == <<files, opened, snd, freed>>
memory == <<mapped, regions>>
panel == <<pen, report, queue, raw, touch, still, before, seen>>

FdOf(i) == FAKEDEV_MEM + i - 1            \* of the i-th of Fake
Names == {Fake[i] : i \in DOMAIN Fake}

Up == [x |-> 0, y |-> 0, p |-> 0]
PenAt(q, p) == [x |-> q.x, y |-> q.y, p |-> p]
Pens == {Up} \cup {PenAt(q, 0) : q \in Points} \cup {PenAt(q, 1) : q \in Points}

\* Division of ints.
Quotient(a, b) == IF a >= 0 THEN a \div b ELSE 0 - ((0 - a) \div b)
-----------------------------------------------------------------------------
(* Slips that a change to this code could make; each breaks a property.     *)

Remembered_First(fd) ==          \* only the first sound descriptor counts
  IF snd = -1 THEN fd ELSE snd

InUpper_Inside(first) ==         \* its first page is taken for someone else's
  first - 1 \in Umem /\ first \in Umem

IsFake_Short(fd) ==              \* the last fake number left out
  FAKEDEV_MEM <= fd /\ fd < FAKEDEV_FD_BOUNDARY - 1

Collected_First(old, events) ==  \* one event for each read
  IF events = <<>> THEN old ELSE [old EXCEPT ![events[1][1]] = events[1][2]]

OnLayer_Scaled(v, offset, n) ==  \* scaled before the layer's place is taken off
  Quotient(v * 1024, n) - offset
-----------------------------------------------------------------------------
(* What is read from the touch screen.                                      *)

\* host_video_normalize_ts; on the Wiz the layer is the screen.
OnLayer(v, offset, n) == Quotient((v - offset) * 1024, n)

Converted_Signed(r) ==           \* a slip: the numbers are ints
  IF r.p = 0 THEN [pressure |-> 0, x |-> 200, y |-> 200]
  ELSE [pressure |-> 32769,
        x |-> Quotient(OnLayer(r.x, Layer.x, Layer.w) * 3750, 1024) + 200,
        y |-> 3750 - Quotient(OnLayer(r.y, Layer.y, Layer.h) * 3750, 1024) + 200]

\* What emu_do_read makes of a point; the numbers are unsigned and have 16 bits.
Converted(r) ==
  IF r.p = 0 THEN [pressure |-> 0, x |-> 200, y |-> 200]
  ELSE LET x == OnLayer(r.x, Layer.x, Layer.w)
           y == OnLayer(r.y, Layer.y, Layer.h)
       IN [pressure |-> 32769,
           x |-> (Quotient(x * 3750, 1024) + 200) % 65536,
           y |-> (3750 - Quotient(y * 3750, 1024) + 200) % 65536]

\* What the events of a loop leave of a coordinate, and of all of them in raw.
Latest(c, old, events) ==
  LET of == {i \in DOMAIN events : events[i][1] = c}
  IN IF of = {} THEN old[c] ELSE events[CHOOSE i \in of : \A k \in of : k <= i][2]
Collected(old, events) ==
  [x |-> Latest("x", old, events), y |-> Latest("y", old, events), p |-> Latest("p", old, events)]

\* The host's events tell changes only: of what has not changed since its device
\* was opened nothing is known, and raw keeps its 0.
Shown(q) ==
  LET heard(c) == IF c \in still THEN 0 ELSE q[c]
  IN [x |-> heard("x"), y |-> heard("y"), p |-> heard("p")]
-----------------------------------------------------------------------------
(* Descriptors.                                                             *)

IsFake(fd) == FAKEDEV_MEM <= fd /\ fd < FAKEDEV_FD_BOUNDARY

DevicesInit ==
  /\ files = [f \in 0..(Limit - 1) |-> "closed"]
  /\ opened = {} /\ snd = -1 /\ frag = None /\ freed = {}
  /\ mapped = Umem /\ regions = {}
  /\ answer = [call |-> "read", fd |-> 0, of |-> "file", by |-> "kernel"] /\ uses \in Uses
  /\ pen \in Pens /\ ("touch" \in uses \/ pen = Up)
  /\ report = <<>> /\ queue = <<>> /\ raw = Up /\ touch = Converted(Up)
  /\ still = {"x", "y", "p"} /\ before = Up /\ seen = "whole"

\* w_open_raw, for a name in takeover_devs.
OpenFake(i) ==
  /\ opened' = opened \cup {Fake[i]}
  /\ UNCHANGED <<files, snd, freed, frag, memory, answer, uses, panel>>

\* The kernel hands out the lowest number that is free.
Free(f) == files[f] = "closed" /\ \A g \in 0..(f - 1) : files[g] # "closed"

OpenFile(f) ==
  /\ Free(f)
  /\ files' = [files EXCEPT ![f] = "file"]
  /\ UNCHANGED <<opened, snd, freed, frag, memory, answer, uses, panel>>

Remembered(fd) == fd

\* The driver lets one process have the device once.  emu_sound_open does not
\* mind if its ioctl fails.
OpenDsp(f) ==
  /\ Free(f) /\ \A g \in DOMAIN files : files[g] # "dsp"
  /\ files' = [files EXCEPT ![f] = "dsp"]
  /\ snd' = Remembered(f)
  /\ frag' \in {frag, Forced}
  /\ UNCHANGED <<opened, freed, memory, answer, uses, panel>>

\* Not wrapped: snd stays what it is.
Close(f) ==
  /\ files[f] # "closed"
  /\ files' = [files EXCEPT ![f] = "closed"]
  /\ frag' = IF files[f] = "dsp" THEN None ELSE frag
  /\ freed' = IF files[f] = "dsp" THEN freed \cup {f} ELSE freed
  /\ UNCHANGED <<opened, snd, memory, answer, uses, panel>>
-----------------------------------------------------------------------------
(* Who answers a call.                                                      *)

OnFake(call, i, by) == answer' = [call |-> call, fd |-> FdOf(i), of |-> Fake[i], by |-> by]
OnFile(call, f, by) == answer' = [call |-> call, fd |-> f, of |-> files[f], by |-> by]

\* emu_do_read: what is not known is an error, and the emulator's.
ReadFake(i) ==
  /\ Fake[i] \in opened /\ Fake[i] # "wm97xx"
  /\ OnFake("read", i, IF ~IsFake(FdOf(i)) THEN "kernel"
                       ELSE IF Fake[i] \in {"gpio", "wm97xx_p"} THEN Fake[i] ELSE "error")
  /\ UNCHANGED <<descriptors, frag, memory, uses, panel>>

ReadFile(f) ==
  /\ files[f] # "closed"
  /\ OnFile("read", f, IF IsFake(f) THEN "error" ELSE "kernel")
  /\ UNCHANGED <<descriptors, frag, memory, uses, panel>>

\* w_ioctl_raw; the number of the sound device is looked at first.
ToEmulator(fd) == IsFake(fd) \/ fd = snd
SoundCalls == {"setting", "sync"}      \* SNDCTL_DSP_SETFRAGMENT and SNDCTL_DSP_SYNC
Answerer(call, fd) ==
  IF ~ToEmulator(fd) THEN "kernel"
  ELSE IF fd = snd THEN (IF call \in SoundCalls THEN "sound" ELSE "kernel")
  ELSE "error"

\* emu_do_ioctl for a fake device.  What the frame buffers do not know is
\* answered as by a terminal; without an argument it is an error.
IoctlFake(i) ==
  /\ Fake[i] \in opened
  /\ \/ ~ToEmulator(FdOf(i)) /\ OnFake("ioctl", i, "kernel")
     \/ ToEmulator(FdOf(i)) /\ Fake[i] \in {"fb0", "fb1", "tty", "tty0"} /\ OnFake("ioctl", i, Fake[i])
     \/ ToEmulator(FdOf(i)) /\ Fake[i] \notin {"tty", "tty0"} /\ OnFake("ioctl", i, "error")
  /\ UNCHANGED <<descriptors, frag, memory, uses, panel>>

IoctlFile(f, call) ==
  /\ files[f] # "closed" /\ OnFile(call, f, Answerer(call, f))
  /\ UNCHANGED <<descriptors, frag, memory, uses, panel>>

\* What is not wrapped goes to the kernel, to which a fake number is an error:
\* the device stays open.
PassedOn(i) ==
  /\ Fake[i] \in opened /\ OnFake("close", i, "kernel")
  /\ UNCHANGED <<descriptors, frag, memory, uses, panel>>
-----------------------------------------------------------------------------
(* The touch screen.                                                        *)

\* The host tells what has changed, the pressure last.
Change(c, from, to) == IF from[c] = to[c] THEN <<>> ELSE <<<<c, to[c]>>>>
Changes(from, to) == Change("x", from, to) \o Change("y", from, to) \o Change("p", from, to)

PenMoves(to) ==
  /\ report = <<>> /\ to # pen
  /\ pen' = to /\ before' = Shown(pen) /\ report' = Changes(pen, to) /\ seen' = "old"
  /\ still' = {c \in still : to[c] = pen[c]}
  /\ UNCHANGED <<descriptors, frag, memory, answer, uses, queue, raw, touch>>

\* One event at a time can be read.
Tell ==
  /\ report # <<>> /\ Len(queue) < Backlog
  /\ queue' = Append(queue, Head(report)) /\ report' = Tail(report)
  /\ UNCHANGED <<descriptors, frag, memory, answer, uses, pen, raw, touch, still, before, seen>>

Wm97xx == CHOOSE i \in DOMAIN Fake : Fake[i] = "wm97xx"

\* host_read_ts goes on until nothing is left.
ReadTouch ==
  /\ "wm97xx" \in opened
  /\ raw' = Collected(raw, queue) /\ queue' = <<>>
  /\ touch' = Converted(raw') /\ seen' = IF report = <<>> THEN "whole" ELSE "part"
  /\ OnFake("read", Wm97xx, IF IsFake(FdOf(Wm97xx)) THEN "wm97xx" ELSE "kernel")
  /\ UNCHANGED <<descriptors, frag, memory, uses, pen, report, still, before>>

\* It has no device, or an error comes after n events.
ReadTouchFails(n) ==
  /\ "wm97xx" \in opened
  /\ raw' = Collected(raw, SubSeq(queue, 1, n)) /\ queue' = SubSeq(queue, n + 1, Len(queue))
  /\ touch' = Converted(Up) /\ seen' = "failed"
  /\ OnFake("read", Wm97xx, IF IsFake(FdOf(Wm97xx)) THEN "wm97xx" ELSE "kernel")
  /\ UNCHANGED <<descriptors, frag, memory, uses, pen, report, still, before>>
-----------------------------------------------------------------------------
(* The fragment setting of the sound device.                                *)

Signed(v) ==
  LET u == v % Pow2[IntBits] IN IF u >= Pow2[IntBits - 1] THEN u - Pow2[IntBits] ELSE u

\* frag_cnt << frag.  A shift by the width or more is undefined: processors
\* use some of its low bits, or shift everything out.
Shifted(n, s) ==
  IF s < IntBits THEN {Signed(n * Pow2[s])} ELSE {0, Signed(n * Pow2[s % IntBits])}

Strange(s, bsize) == s < MinSize \/ bsize < MinBytes \/ bsize > MaxBytes

\* What emu_sound_ioctl asks the driver for.
Chosen(set) ==
  {IF Strange(set[2], bsize) THEN Default ELSE set : bsize \in Shifted(set[1], set[2])}

\* SNDCTL_DSP_SETFRAGMENT on a real descriptor.  The driver may refuse, and
\* the program is not told.  If the number is one that was the sound device's,
\* what has it now is asked, and the answer is the same.
SetFragment(f, set) ==
  /\ files[f] # "closed"
  /\ IF files[f] = "dsp"
     THEN frag' \in (IF f = snd THEN Chosen(set) ELSE {set}) \cup {frag}
     ELSE UNCHANGED frag
  /\ OnFile("setting", f, Answerer("setting", f))
  /\ UNCHANGED <<descriptors, memory, uses, panel>>
-----------------------------------------------------------------------------
(* Memory.                                                                  *)

Region(a, b) == [first |-> a, last |-> b]
PagesOf(r) == r.first..r.last

\* emu_mmap_dev, for an address in upper memory: a pointer into what is mapped
\* already, even if the length goes beyond the end.
MapUpper(a, b) ==
  /\ opened \cap {"mem", "fb0", "fb1"} # {} /\ a \in Umem /\ a <= b
  /\ regions' = regions \cup {Region(a, b)}
  /\ UNCHANGED <<descriptors, frag, mapped, answer, uses, panel>>

\* mmap of anything else, wherever the kernel has room.
MapFile(a, b) ==
  /\ a <= b /\ a..b \cap mapped = {}
  /\ mapped' = mapped \cup a..b
  /\ regions' = regions \cup {Region(a, b)}
  /\ UNCHANGED <<descriptors, frag, answer, uses, panel>>

InUpper(first) == first \in Umem

\* emu_do_munmap looks only at where the region begins.
Munmap(r) ==
  /\ regions' = regions \ {r}
  /\ mapped' = IF InUpper(r.first) THEN mapped ELSE mapped \ PagesOf(r)
  /\ UNCHANGED <<descriptors, frag, answer, uses, panel>>
-----------------------------------------------------------------------------
Call == \E i \in Tried : OpenFake(i) \/ ReadFake(i) \/ IoctlFake(i) \/ PassedOn(i)

Sound ==
  "sound" \in uses /\ \E f \in DOMAIN files :
    \/ OpenFile(f) \/ OpenDsp(f) \/ Close(f) \/ ReadFile(f)
    \/ \E call \in {"sync", "ioctl"} : IoctlFile(f, call)
    \/ \E set \in Settings : SetFragment(f, set)

MemoryCalls ==
  "memory" \in uses /\
    \/ \E a, b \in Pages :
         Cardinality(regions) < MaxRegions /\ (MapUpper(a, b) \/ MapFile(a, b))
    \/ \E r \in regions : Munmap(r)

Touch ==
  "touch" \in uses /\
    \/ \E q \in Points : PenMoves(PenAt(q, 1))
    \/ PenMoves([pen EXCEPT !.p = 0])
    \/ Tell \/ ReadTouch
    \/ \E n \in 0..Len(queue) : ReadTouchFails(n)

DevicesNext == Call \/ Sound \/ MemoryCalls \/ Touch

DevicesSpec == DevicesInit /\ [][DevicesNext]_devicesVars
-----------------------------------------------------------------------------
\* A setting that works: fragments that are not too small, and neither too
\* little nor too much of them, in true numbers.
Workable(set) == set[2] >= MinSize /\ set[1] * Pow2[set[2]] \in MinBytes..MaxBytes

\* Unsigned numbers of 16 bits, and the pressures that are reported.
Word == 0..65535
Pressures == {0, 32769}

\* Types; what is read from the touch screen are unsigned numbers.
DevicesTypeOK ==
  /\ files \in [0..(Limit - 1) -> {"closed", "file", "dsp"}]
  /\ opened \subseteq Names /\ snd \in -1..(Limit - 1)
  /\ frag \in Settings \cup {None, Forced, Default}
  /\ mapped \subseteq Pages
  /\ \A r \in regions : PagesOf(r) \subseteq Pages
  /\ freed \subseteq 0..(Limit - 1)
  /\ answer.call \in SoundCalls \cup {"read", "ioctl", "close"}
  /\ answer.of \in Names \cup {"file", "dsp"}
  /\ answer.by \in Names \cup {"kernel", "error", "sound"}
  /\ uses \in Uses /\ still \subseteq {"x", "y", "p"}
  /\ pen.p \in {0, 1} /\ Len(report) <= 3 /\ Len(queue) <= Backlog
  /\ touch \in [pressure : Pressures, x : Word, y : Word]

\* Whatever has been opened and closed in between: reads and ioctls of a fake
\* device are answered by the emulator, which knows nothing of who has opened
\* it; a setting or a sync of /dev/dsp by emu_sound_ioctl, and all else by the
\* kernel.  The exception is a file that got a number at which /dev/dsp was
\* closed: emu_interesting_fds still has it, and a file's setting or sync is
\* answered with success (override.c:165-167, emu.c:1247).
RightAnswer ==
  answer.call # "close" =>
    /\ answer.of \in Names => answer.by \in {answer.of, "error"}
    /\ answer.of = "dsp" =>
         answer.by = IF answer.call \in SoundCalls THEN "sound" ELSE "kernel"
    /\ answer.of = "file" =>
         \/ answer.by = "kernel"
         \/ answer.by = "sound" /\ answer.call \in SoundCalls /\ answer.fd \in freed

\* "People set strange frag settings on GP2X .. Catch this": whatever has been
\* opened and closed before, and although bsize can overflow, the driver gets
\* no strange setting.  A size of the width of an int or more is excepted:
\* emu_sound_ioctl shifts by it and may take it for one that works.
StrangeCaught ==
  \/ frag \in {None, Forced, Default}
  \/ frag[2] >= IntBits
  \/ Workable(frag)

\* "don't allow to unmap upper mem": a program that unmaps what it has mapped,
\* in any order, takes away neither upper memory nor what is still in use.
UpperMemoryStays ==
  /\ Umem \subseteq mapped
  /\ \A r \in regions : r.first \notin Umem => PagesOf(r) \subseteq mapped

\* A program that reads the touch screen gets the pen as it is when all of the
\* last report has arrived, however many reports have gathered and whichever
\* reads have failed; when it comes in the middle of one (host.c:84-100 knows no
\* end of a report) it gets each coordinate from that report or the one before.
\* A coordinate that has not changed since the host's device was opened is 0,
\* wherever the pen is: host_read_ts does not ask for it.
TouchTrue ==
  /\ seen = "whole" => touch = Converted(Shown(pen))
  /\ seen = "part" =>
       \E a, b, c \in {Shown(pen), before} :
         touch = Converted([x |-> a.x, y |-> b.y, p |-> c.p])

\* What is touched on the picture is a point of the panel, although the numbers
\* are cut to 16 bits; a touch beside the picture wraps (emu.c:1342).
OnPicture(q) == q.x - Layer.x \in 0..(Layer.w - 1) /\ q.y - Layer.y \in 0..(Layer.h - 1)
TouchOnPanel ==
  seen \in {"whole", "part"} /\ touch.pressure > 0
  /\ OnPicture(Shown(pen)) /\ OnPicture(before)
    => touch.x \in 200..3950 /\ touch.y \in 200..3950
=============================================================================
