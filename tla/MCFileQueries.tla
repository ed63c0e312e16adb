---------------------------- MODULE MCFileQueries ----------------------------
(* A small workspace: a file and a directory, which holds a file and a      *)
(* directory with another file in it; a symbolic link to a file and one to  *)
(* a directory; patches over two letters.                                   *)
EXTENDS FileQueries, TLC

Names == 1 .. 7
ParentOf == 1 :> 0 @@ 2 :> 0 @@ 3 :> 2 @@ 4 :> 2 @@ 5 :> 4 @@ 6 :> 0 @@ 7 :> 2
KindOf == 1 :> "file" @@ 2 :> "directory" @@ 3 :> "file" @@ 4 :> "directory"
            @@ 5 :> "file" @@ 6 :> "symlink" @@ 7 :> "symlink"
TargetOf == 6 :> 1 @@ 7 :> 4

File(bytes) == [class |-> "file", opens |-> TRUE, bytes |-> bytes]
Plain == File(<<"hit", "hit", "lead", "trail">>)
Marked == File(<<"mark", "trail", "mark", "trail", "hit">>)
Binary == File(<<"hit", "nul", "ascii">>)
Shut == [class |-> "file", opens |-> FALSE, bytes |-> <<"hit">>]
States == {Plain, Marked, Binary, Shut}

Full == [n \in Names |-> IF KindOf[n] = "file" THEN Plain ELSE Entry]
Trees == {[n \in Names |-> IF n \in gone THEN Absent ELSE Full[n]] :
            gone \in {{1}, {2, 3, 4, 5, 7}, {5, 6}}}
         \cup {[Full EXCEPT ![1] = file, ![5] = file] : file \in {Plain, Marked}}

CostOf == [n \in Names |-> IF n = 1 THEN 2 ELSE 1]

Words(length) == UNION {[1 .. k -> {"a", "b"}] : k \in 0 .. length}
EditsOf == [oldText : Words(2) \ {<<>>}, newText : {<<>>, <<"b", "a">>}]
ListsOfEdits == UNION {[1 .. k -> EditsOf] : k \in 1 .. 2}
SourceTexts == Words(4)
==============================================================================
