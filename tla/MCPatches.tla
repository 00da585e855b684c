----------------------------- MODULE MCPatches -----------------------------
(* The real table of loader/patches.c.  A memory holds two pieces one after *)
(* the other, each a part of a signature, between words of no signature.    *)
EXTENDS Patches, FiniteSets, SequencesExt

\* The words of the signatures, named by what they do, with those that a mask
\* lets pass.
B == {"b 1", "b 2"}
Exact(s) == [i \in DOMAIN s |-> {s[i]}]
Entry(s, t, f) == [sig |-> s, type |-> t, func |-> f]
Raw(n) == <<n, "cmn r0">>

MCTable == <<
  Entry(Exact(<<"ldr ip, [ip]", "teq ip", "bne", "svc open">>), 0, "w_open"),
  Entry(Exact(<<"svc open", "mov pc, lr">>), 0, "w_open"),
  Entry(Exact(Raw("svc open") \o <<"mov r4, r0">>), 1, "hw_open"),
  Entry(Exact(<<"push r0-r3", "mov r0, sp", "svc mmap", "add sp">>), 0, "w_mmap"),
  Entry(Exact(<<"push r5", "ldr r5", "push r4", "ldr r4", "lsls ip", "bne", "lsr r5", "svc mmap2">>),
        0, "w_mmap2"),
  Entry(Exact(Raw("svc munmap") \o <<"bxcc lr">>), 0, "w_munmap"),
  Entry(Exact(<<"ldr ip, [pc]", "ldr ip, [ip]", "teq ip", "bne", "svc read">>), 0, "w_read"),
  Entry(Exact(Raw("svc read") \o <<"bxcc lr">>), 0, "w_read"),
  Entry(Exact(Raw("svc read") \o <<"mov r4, r0">>), 1, "hw_read"),
  Entry(Exact(Raw("svc ioctl") \o <<"bxcc lr">>), 0, "w_ioctl"),
  Entry(Exact(Raw("svc ioctl") \o <<"mov r4, r0">>), 1, "hw_ioctl"),
  Entry(Exact(<<"ldr r3, [pc]", "cmp r3", "beq">>) \o <<B, B>>, 0, "w_sigaction"),
  Entry(Exact(Raw("svc execve") \o <<"mov r4, r0">>), 1, "hw_execve"),
  Entry(Exact(Raw("svc chdir") \o <<"bxcc lr">>) \o <<B>>, 0, "w_chdir"),
  Entry(Exact(Raw("svc readlink") \o <<"bxcc lr">>), 0, "w_readlink"),
  Entry(Exact(<<"mcr cache1">>), 2, "NULL"),
  Entry(Exact(<<"mcr cache2">>), 2, "NULL")>>

Funcs == {MCTable[p].func : p \in DOMAIN MCTable}
SigWords == UNION {UNION ToSet(MCTable[p].sig) : p \in DOMAIN MCTable}
Others == {"zero", "nop", "ldr pc", "stmfd pc"}
MCWords == Funcs \cup SigWords \cup Others

\* Conditional instructions, addresses and zero have another condition field.
MCUnconditional == (SigWords \cup {"nop", "ldr pc", "stmfd pc"}) \ {"bne", "beq", "bxcc lr"}

\* A signature as it may stand in a program, and its parts.
Plain(p) == [i \in DOMAIN MCTable[p].sig |->
               IF MCTable[p].sig[i] = B THEN (IF i % 2 = 0 THEN "b 1" ELSE "b 2")
               ELSE CHOOSE w \in MCTable[p].sig[i] : TRUE]
Parts(s) == {SubSeq(s, a, b) : a \in {1, 2}, b \in 1..Len(s)} \ {<<>>}
Pieces == UNION {Parts(Plain(p)) : p \in DOMAIN MCTable} \cup {<<"zero">>}

MCTop == 18
Image(s) == [a \in 0..MCTop |-> IF a \in 1..Len(s) THEN s[a] ELSE "zero"]
MCImages == {Image(x \o y) : x \in Pieces, y \in Pieces}
=============================================================================
