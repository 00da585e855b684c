----------------------------- MODULE MCSession -----------------------------
(***************************************************************************)
(* Small instance of Session.  The files a and b are programs of either    *)
(* kind, c is a script, and which is which differs between directories.    *)
(* "mnt" is a mount point and "sub" a directory in the image for it.       *)
(***************************************************************************)
EXTENDS Session

MCDirs == {"card", "game", "mnt", "sub"}
MCNames == {"a", "b", "c"}
Run(n) == Line(FALSE, "run", n)
Exec(n) == Line(TRUE, "run", n)
Do(op, arg) == Line(FALSE, op, arg)

Put(put, line) == [line EXCEPT !.put = put]

OnCard == <<Do("other", ""), Do("blacklisted", ""), Run("a"), Run("b"), Do("cd", "game"),
            Exec("a"), Put("hidden", Do("exit", "")), Put("inner", Do("cd", "card")), Run("a"),
            Do("cd", "game"), Do("cd", "/usr/gp2x"), Exec("gp2xmenu")>>
InGame == <<Do("mount", "mnt"), Do("cd", "sub"), Run("b"), Do("cd", "mnt"), Exec("a"),
            Put("hidden", Do("mount", "mnt")), Put("hidden", Do("cd", "game")),
            Run("b"), Put("hidden", Exec("b")), Put("hidden", Exec("gp2xmenu"))>>

Holding(a, b, c) == [n \in MCNames |->
  CASE n = "a" -> a [] n = "b" -> b [] n = "c" -> c]
Static == File("static", <<>>)
Dynamic == File("dynamic", <<>>)
Empty == Holding(NoFile, NoFile, NoFile)

MCDisk == [d \in MCDirs |->
  CASE d = "card" -> Holding(Static, NoFile, File("script", OnCard))
    [] d = "game" -> Holding(Dynamic, Static, File("script", InGame))
    [] OTHER -> Empty]
MCUnpacked == [d \in MCDirs |->
  CASE d = "mnt" -> Holding(Static, NoFile, NoFile)
    [] d = "sub" -> Holding(NoFile, Dynamic, NoFile)
    [] OTHER -> Empty]
=============================================================================
