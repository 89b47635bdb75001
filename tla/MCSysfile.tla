------------------------------ MODULE MCSysfile -----------------------------
(* A directory "a" with an entry "b" below the root, made by the calls or   *)
(* there from the start, and paths that reach them, leave them through      *)
(* "..", or name nothing.                                                   *)
EXTENDS Sysfile, TLC

MCPaths == {<<"a">>, <<"b">>, <<"a", "b">>, <<"a", "b", "..">>}

Dir(parent, entries) ==
  [name \in Elements |-> IF name = ".." THEN parent ELSE IF name \in DOMAIN entries THEN entries[name] ELSE 0]
Empty == Mounted([i \in Inums |-> IF i = ROOTINO THEN "dir" ELSE "free"],
                 [i \in Inums |-> IF i = ROOTINO THEN Dir(1, <<>>) ELSE NoEntries])
Tree(b) == Mounted([i \in Inums |-> CASE i <= 2 -> "dir" [] i = 3 -> b [] OTHER -> "free"],
                   [i \in Inums |-> CASE i = 1 -> Dir(1, "a" :> 2)
                                      [] i = 2 -> Dir(1, "b" :> 3)
                                      [] i = 3 /\ b = "dir" -> Dir(2, <<>>)
                                      [] OTHER -> NoEntries])
MCImages == {Empty, Tree("dir"), Tree("file")}
Symmetry == Permutations(Procs)
=============================================================================
