------------------------------ MODULE Session ------------------------------
(***************************************************************************)
(* A session: from the menu to a program and back.                         *)
(*                                                                         *)
(* The menu hands a file to ginge_prep (prep/main.c), which writes a shell *)
(* script to /tmp/ginge_conv.sh and becomes the shell that runs it.  Each  *)
(* program of the script is started with the loader that fits it, and the  *)
(* last line of the script starts the menu again.  A program that calls    *)
(* system() or execve() (emu_do_system, emu_do_execve) is given ginge_prep *)
(* instead, with --nomenu, and that writes the same file.                  *)
(*                                                                         *)
(* Of the processes that wait for one another one runs: they are a stack.  *)
(* A forced exit (host.c) kills every static loader, also those that wait, *)
(* so that the shells below and above one go on beside each other, as      *)
(* stacks of their own.  Two conversions at a time are left out.           *)
(*                                                                         *)
(* prep/main.c looks at the first words of a line.  A command that stands  *)
(* behind others on its line ("if ..; then", "[ .. ] &&", "x; y"), or whose *)
(* argument the shell reads in another way (quotes, variables), is hidden  *)
(* from it and passed on as it is; one on a line of its own within an "if" *)
(* is converted, but the shell may leave it out.  Programs started by a    *)
(* script that is itself started by a script are left out, as nothing      *)
(* converts it.                                                            *)
(***************************************************************************)
EXTENDS Naturals, SequencesExt

CONSTANTS
  Dirs, Names,      \* directories and names of files in them
  Start,            \* the directory sessions begin in
  Disk,             \* what is on the card: [Dirs -> [Names -> file]]
  Missing,          \* directories that are there only when Mount is unpacked
  Mount, Unpacked,  \* where a cramfs image goes and the [Names -> file] that
                    \* each directory has once it is unpacked
  Whole,            \* the shell has read a script before it runs the first line
  MaxPreps          \* bound on the conversions programs ask for

Elf == {"static", "dynamic"}
File(kind, lines) == [kind |-> kind, lines |-> lines]
NoFile == File("none", <<>>)
Line(exec, op, arg) ==
  [exec |-> exec, op |-> op, arg |-> arg, how |-> "plain", put |-> "open"]

\* What a file may hold: lines that prep/main.c tells apart, and "exit", which
\* is passed on like any "other".
InputLine == [exec : BOOLEAN, op : {"other", "blacklisted", "cd", "run", "mount", "exit"},
              arg : STRING, how : {"plain"}, put : {"open", "hidden", "inner"}]
Contents == [kind : Elf \cup {"script", "none"}, lines : Seq(InputLine)]

ASSUME SessionAssumption ==
  /\ Start \in Dirs /\ Missing \subseteq Dirs \ {Start} /\ Mount \in Dirs \ Missing
  /\ "/usr/gp2x" \notin Dirs /\ Names \subseteq STRING
  /\ Disk \in [Dirs -> [Names -> Contents]] /\ Unpacked \in [Dirs -> [Names -> Contents]]
  /\ \A disk \in {Disk, Unpacked} : \A d \in Dirs, n \in Names :
       \A k \in DOMAIN disk[d][n].lines :
         disk[d][n].lines[k].op = "run" => disk[d][n].lines[k].arg \in Names \cup {"gp2xmenu"}
  /\ \A d \in Missing, n \in Names : Disk[d][n] = NoFile
  /\ Whole \in BOOLEAN /\ MaxPreps \in Nat

VARIABLES
  procs,     \* stacks of processes, each waiting for the next one of its stack
  script,    \* the lines of /tmp/ginge_conv.sh after the first
  files,     \* what is on the card now
  preps,     \* conversions programs have asked for
  bare,      \* history: a program that was on the card all the time was run,
             \* and not by its loader: "seen", or "unseen" on a hidden line or
             \* after the shell had changed directory otherwise than ginge_prep
  left       \* history: a line of its script has ended a shell that led to
             \* the menu

sessionVars == <<procs, script, files, preps, bare, left>>
history == <<bare, left>>

\* kind: "menu", "prep", "sh" or "app"; cwd; home: where prep was started;
\* menu: prep was not given --nomenu; how: the loader of a program; text: the
\* lines still to convert or, for a shell, those it has read; pos: the lines a
\* shell has run; astray: it is not where ginge_prep took it to be.
Process(kind, cwd) ==
  [kind |-> kind, cwd |-> cwd, home |-> cwd, menu |-> FALSE, how |-> "plain",
   text |-> <<>>, pos |-> 0, astray |-> FALSE]

Stacks == DOMAIN procs
Running(i) == Last(procs[i])
Runs(i, kind) == Running(i).kind = kind
Becomes(i, stack) ==
  procs' = IF stack = <<>> THEN RemoveAt(procs, i) ELSE [procs EXCEPT ![i] = stack]
Become(i, p) == Becomes(i, Append(Front(procs[i]), p))
Call(i, p)   == Becomes(i, Append(procs[i], p))
Return(i)    == Becomes(i, Front(procs[i]))

\* What a shell runs: a shell that has not read the whole script goes on with
\* what the file holds by then.
TextOf(p) == IF Whole THEN p.text ELSE script

\* What is still to start the menu.
Leads(p) ==
  \/ p.kind = "menu" \/ p.menu
  \/ p.kind = "sh" /\ \E k \in (p.pos + 1)..Len(TextOf(p)) : TextOf(p)[k].op = "menu"

\* No conversion is under way; two at a time would write one file.
Free == \A i \in Stacks : ~Runs(i, "prep")

There(d) == d \notin Missing \/ \E n \in Names : files[d][n] # NoFile
At(d, n) == files[d][n]
-----------------------------------------------------------------------------
(* Slips that a change to this code could make; each breaks a property.     *)

Passed_KeepsExec(line) == <<line>>           \* the shell replaces itself

StartDir_Last(p) == p.cwd                    \* no chdir(cwd) before the exec

StartedBy_WithMenu(p, text) ==               \* --nomenu is not passed
  [Process("prep", p.cwd) EXCEPT !.menu = TRUE, !.text = text]
-----------------------------------------------------------------------------
(* ginge_prep.                                                              *)

\* id_elf: the loader that is put in front of a file, if any.
IdElf(file) == IF file.kind \in Elf THEN file.kind ELSE "plain"

\* What is written before the first line of the input is looked at.
Header(d, n) ==
  IF At(d, n).kind \in Elf
  THEN <<[Line(FALSE, "run", n) EXCEPT !.how = IdElf(At(d, n))]>> ELSE <<>>

\* The lines left to convert: those of a script.
Input(d, n) == At(d, n).lines

\* The ginge_prep a program starts, in the directory the program is in.
StartedBy(p, text) == [Process("prep", p.cwd) EXCEPT !.text = text]

\* The word exec is dropped from what is written.
Passed(line) == <<[line EXCEPT !.exec = FALSE]>>

Dropped(line) ==
  \/ line.op = "blacklisted"
  \/ line.op = "cd" /\ line.arg = "/usr/gp2x"
  \/ line.op = "run" /\ line.arg = "gp2xmenu"

\* What is written for a line that is met in directory d.
Converted(line, d) ==
  CASE line.put = "hidden" -> <<line>>
    [] line.put # "hidden" /\ line.op = "mount" ->
         IF line.arg = Mount THEN <<[line EXCEPT !.op = "unpack", !.exec = FALSE]>> ELSE <<>>
    [] line.put # "hidden" /\ Dropped(line) -> <<>>
    [] line.put # "hidden" /\ line.op = "run" /\ ~Dropped(line) ->
         Passed([line EXCEPT !.how = IdElf(At(d, line.arg))])
    [] OTHER -> Passed(line)

\* Where a cd leads from d, and where ginge_prep goes itself when it meets one:
\* whether or not the shell will get to it.
Enter(line, d) ==
  IF line.op = "cd" /\ line.arg \in Dirs /\ There(line.arg) THEN line.arg ELSE d
Chdir(line, d) == IF line.put = "hidden" THEN d ELSE Enter(line, d)

\* One turn of the loop over the input; a cd is followed, as far as it can be.
ConvertLine(i) ==
  /\ Runs(i, "prep") /\ Running(i).text # <<>>
  /\ LET line == Head(Running(i).text) IN
     /\ script' = script \o Converted(line, Running(i).cwd)
     /\ Become(i, [Running(i) EXCEPT !.text = Tail(@), !.cwd = Chdir(line, @)])
  /\ UNCHANGED <<files, preps, history>>

StartDir(p) == p.home

\* The script is complete and the process becomes the shell that runs it.
RunScript(i) ==
  /\ Runs(i, "prep") /\ Running(i).text = <<>>
  /\ script' = IF Running(i).menu THEN Append(script, Line(TRUE, "menu", "")) ELSE script
  /\ Become(i, [Process("sh", StartDir(Running(i))) EXCEPT !.text = IF Whole THEN script' ELSE @])
  /\ UNCHANGED <<files, preps, history>>
-----------------------------------------------------------------------------
(* The shell.                                                               *)

ShellText(i) == TextOf(Running(i))

ShellLine(i) == ShellText(i)[Running(i).pos + 1]
AtLine(i, op) == Runs(i, "sh") /\ Running(i).pos < Len(ShellText(i)) /\ ShellLine(i).op = op
Advanced(i) == [Running(i) EXCEPT !.pos = @ + 1]

\* What has not run on this line's account: an "if" that did not hold.
ShSkip(i) ==
  /\ Runs(i, "sh") /\ Running(i).pos < Len(ShellText(i)) /\ ShellLine(i).put # "open"
  /\ Become(i, [Advanced(i) EXCEPT
       !.astray = @ \/ (ShellLine(i).op = "cd" /\ ShellLine(i).put = "inner")])
  /\ UNCHANGED <<script, files, preps, history>>

ShChangeDir(i) ==
  /\ AtLine(i, "cd")
  /\ Become(i, [Advanced(i) EXCEPT !.cwd = Enter(ShellLine(i), @),
                                   !.astray = @ \/ ShellLine(i).put = "hidden"])
  /\ UNCHANGED <<script, files, preps, history>>

\* "if [ `ls .. | wc -l` -eq 0 ]; then rmdir, cramfsck -x": only into an empty
\* directory.
ShUnpack(i) ==
  /\ AtLine(i, "unpack")
  /\ Become(i, Advanced(i))
  /\ files' = IF \A n \in Names : files[Mount][n] = NoFile
              THEN [d \in Dirs |-> [n \in Names |->
                      IF Unpacked[d][n] # NoFile THEN Unpacked[d][n] ELSE files[d][n]]]
              ELSE files
  /\ UNCHANGED <<script, preps, history>>

ShOther(i) ==
  /\ \E op \in {"other", "blacklisted", "mount"} : AtLine(i, op)
  /\ Become(i, Advanced(i))
  /\ UNCHANGED <<script, files, preps, history>>

\* What a line runs; what is not there, or is another script, is nobody's
\* program here.
Ran(i) ==
  IF ShellLine(i).arg \in Names THEN At(Running(i).cwd, ShellLine(i).arg) ELSE NoFile

ShRunNothing(i) ==
  /\ AtLine(i, "run") /\ ~ShellLine(i).exec /\ Ran(i).kind \notin Elf
  /\ Become(i, Advanced(i))
  /\ UNCHANGED <<script, files, preps, history>>

Quits(i) ==
  left' = (left \/ (Leads(Running(i))
                     /\ (ShellLine(i).op = "exit" \/ ShellLine(i).put = "hidden")))

\* "exit", an exec that fails, or a line the shell cannot parse.
ShExit(i) ==
  /\ AtLine(i, "exit") \/ (AtLine(i, "run") /\ ShellLine(i).exec /\ Ran(i).kind \notin Elf)
  /\ Return(i) /\ Quits(i)
  /\ UNCHANGED <<script, files, preps, bare>>

\* A program runs; the shell waits for it, or is replaced by it.
Unseen(i) == Running(i).astray \/ ShellLine(i).put = "hidden"
ShRun(i) ==
  /\ AtLine(i, "run") /\ Ran(i).kind \in Elf
  /\ LET app == [Process("app", Running(i).cwd) EXCEPT !.how = ShellLine(i).how]
     IN IF ShellLine(i).exec THEN Become(i, app) /\ Quits(i)
        ELSE /\ Becomes(i, Front(procs[i]) \o <<Advanced(i), app>>)
             /\ UNCHANGED left
  /\ bare' = bare \cup
       (IF Ran(i) = Disk[Running(i).cwd][ShellLine(i).arg] /\ ShellLine(i).how # Ran(i).kind
        THEN {IF Unseen(i) THEN "unseen" ELSE "seen"} ELSE {})
  /\ UNCHANGED <<script, files, preps>>

ShMenu(i) ==
  /\ AtLine(i, "menu")
  /\ Become(i, Process("menu", Start))
  /\ UNCHANGED <<script, files, preps, history>>

ShEnds(i) ==
  /\ Runs(i, "sh") /\ Running(i).pos >= Len(ShellText(i))
  /\ Return(i)
  /\ UNCHANGED <<script, files, preps, history>>
-----------------------------------------------------------------------------
(* The menu, and what a program that runs under a loader can do.            *)

MenuStarts(i, n) ==
  /\ Runs(i, "menu") /\ Free /\ At(Start, n) # NoFile
  /\ script' = Header(Start, n)
  /\ Become(i, [Process("prep", Start) EXCEPT !.menu = TRUE, !.text = Input(Start, n)])
  /\ UNCHANGED <<files, preps, history>>

Emulated(i) == Runs(i, "app") /\ Running(i).how # "plain"
Asks(i) == Emulated(i) /\ Free /\ preps < MaxPreps /\ preps' = preps + 1

\* emu_do_execve: ginge_prep instead of the program.  It has emptied the file
\* by the time it finds that there is nothing to run.
AppExecve(i, n) ==
  /\ Asks(i)
  /\ script' = Header(Running(i).cwd, n)
  /\ IF At(Running(i).cwd, n) # NoFile THEN Become(i, StartedBy(Running(i), Input(Running(i).cwd, n)))
     ELSE Return(i)
  /\ UNCHANGED <<files, history>>

\* emu_do_system: the same for a relative path, and the program waits.
AppSystem(i, n) ==
  /\ Asks(i)
  /\ script' = Header(Running(i).cwd, n)
  /\ IF At(Running(i).cwd, n) # NoFile THEN Call(i, StartedBy(Running(i), Input(Running(i).cwd, n)))
     ELSE UNCHANGED procs
  /\ UNCHANGED <<files, history>>

AppChdir(i, d) ==
  /\ Emulated(i) /\ There(d)
  /\ Become(i, [Running(i) EXCEPT !.cwd = d])
  /\ UNCHANGED <<script, files, preps, history>>

\* It ends, by itself or by one of the exec functions that are not let through.
AppExits(i) ==
  /\ Runs(i, "app")
  /\ Return(i)
  /\ UNCHANGED <<script, files, preps, history>>

IsStatic(p) == p.kind = "app" /\ p.how = "static"

\* What is left of the stacks when the static loaders are gone: from each of
\* them, or the beginning of its stack, to the next one or the end.
Piece(i, a, b) ==
  /\ a <= b /\ \A k \in a..b : ~IsStatic(procs[i][k])
  /\ a > 1 => IsStatic(procs[i][a - 1])
  /\ b < Len(procs[i]) => IsStatic(procs[i][b + 1])
Pieces ==
  {t \in UNION {{i} \X (DOMAIN procs[i]) \X (DOMAIN procs[i]) : i \in Stacks} :
     Piece(t[1], t[2], t[3])}
Pieced(pieces) ==
  [j \in DOMAIN pieces |-> SubSeq(procs[pieces[j][1]], pieces[j][2], pieces[j][3])]

\* host_forced_exit, for the kill key or an execve of gp2xmenu: "killall" of
\* the loader's name.  The library for dynamic programs has no name to kill.
ForcedExit(i) ==
  /\ Emulated(i)
  /\ IF IsStatic(Running(i)) THEN procs' = Pieced(SetToSeq(Pieces)) ELSE Return(i)
  /\ UNCHANGED <<script, files, preps, history>>
-----------------------------------------------------------------------------
SessionInit ==
  /\ procs = <<<<Process("menu", Start)>>>>
  /\ script = <<>> /\ files = Disk /\ preps = 0
  /\ bare = {} /\ left = FALSE

PrepStep(i) == ConvertLine(i) \/ RunScript(i)

ShStep(i) ==
  \/ ShSkip(i) \/ ShChangeDir(i) \/ ShUnpack(i) \/ ShOther(i)
  \/ ShRunNothing(i) \/ ShExit(i) \/ ShRun(i) \/ ShMenu(i) \/ ShEnds(i)

AppStep(i) ==
  \/ \E n \in Names : AppExecve(i, n) \/ AppSystem(i, n)
  \/ \E d \in Dirs : AppChdir(i, d)
  \/ AppExits(i) \/ ForcedExit(i)

SessionNext ==
  \E i \in Stacks :
    (\E n \in Names : MenuStarts(i, n)) \/ PrepStep(i) \/ ShStep(i) \/ AppStep(i)

SessionSpec == SessionInit /\ [][SessionNext]_sessionVars
-----------------------------------------------------------------------------
SessionTypeOK ==
  /\ \A i \in Stacks : procs[i] # <<>> /\ \A k \in DOMAIN procs[i] :
       LET p == procs[i][k] IN
         /\ p.kind \in {"menu", "prep", "sh", "app"}
         /\ p.cwd \in Dirs /\ p.home \in Dirs
         /\ Whole => p.pos <= Len(p.text)
  /\ \A d \in Dirs, n \in Names : files[d][n] \in {Disk[d][n], Unpacked[d][n]}
  /\ preps \in 0..MaxPreps /\ bare \subseteq {"seen", "unseen"} /\ left \in BOOLEAN

\* A program is run by the loader for its kind: ginge_prep looks at the file
\* in the very directory the shell will be in when it gets to that line; as
\* long as all that changes the directory is at the beginning of a line, and
\* is not left out.  (What only a cramfs image brings was not there to be
\* looked at.)
RightLoader == "seen" \notin bare

\* "ginge_prep - .gpe parser that selects the right handler" (readme.txt):
\* whatever the lines are like.
SelectsRightHandler == bare = {}

\* The menu is only ever started at the end of a session: however programs
\* start programs, no more than one process leads to it, none waits for one
\* that does, and the menu itself waits for none.  (Shells that a forced exit
\* has left may still run programs beside it.)
OneMenu ==
  \A i \in Stacks : \A k \in DOMAIN procs[i] :
    Leads(procs[i][k]) =>
      /\ k = 1 /\ \A j \in Stacks \ {i} : ~\E l \in DOMAIN procs[j] : Leads(procs[j][l])
      /\ procs[i][k].kind = "menu" => Len(procs[i]) = 1

\* Whatever ends, whatever the scripts exec at the beginning of a line, and
\* although a forced exit also kills programs that wait for others, some
\* process leads back to the menu, unless a script ends the shell itself.
NeverStranded == left \/ \E i \in Stacks : Leads(procs[i][1])

\* "will either run if it's compatible, or just return back to the menu if it
\* is not" (readme.txt:26-27).
BackToMenu == \E i \in Stacks : Leads(procs[i][1])
=============================================================================
