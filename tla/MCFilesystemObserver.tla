------------------------ MODULE MCFilesystemObserver ------------------------
(* Two files in the root and one in a directory that does not exist yet.   *)
EXTENDS FilesystemObserver

MCFiles == {"a", "b", "d/c"}
MCDirs == {"d"}
MCOrder == <<"a", "b", "d", "d/c">>
MCParent == [p \in MCFiles \cup MCDirs |-> IF p = "d/c" THEN "d" ELSE "."]
MCDisk == [p \in MCFiles \cup MCDirs |-> IF p = "a" THEN "old" ELSE "absent"]
MCStaged == {<<"a", "b">>}
=============================================================================
