-------------------------------- MODULE MCFs --------------------------------
(* Fs with two names, on disks that mkfs made, alone or with two files,  *)
(* or that hold a directory na with a file or an empty directory nb in it. *)
EXTENDS Fs

CONSTANTS na, nb

MCCalls ==
  {[op |-> o, path |-> <<na>>, new |-> <<>>] : o \in {"mkdir", "unlink", "open", "chdir"}}
    \cup {[op |-> o, path |-> <<na, nb>>, new |-> <<>>] : o \in {"creat", "mkdir", "unlink", "open"}}
    \cup {[op |-> o, path |-> <<"/">>, new |-> <<>>] : o \in {"unlink", "chdir"}}
    \cup {[op |-> "chdir", path |-> <<na, nb, "..">>, new |-> <<>>],
          [op |-> "creat", path |-> <<nb>>, new |-> <<>>],
          [op |-> "mknod", path |-> <<nb>>, new |-> <<>>],
          [op |-> "link", path |-> <<na, nb>>, new |-> <<nb>>]}
Entry(name, i) == [name |-> name, inum |-> i]
Ino(type, nlink, size, block) ==
  [Free EXCEPT !.type = type, !.nlink = nlink, !.size = size, !.addrs[0] = block]
Tree(type) ==
  LET R == mkfs(<<>>) IN
  [di   |-> (1 :> Ino("dir", 2, 3, 1)) @@ (2 :> Ino("dir", IF type = "dir" THEN 2 ELSE 1, 3, 2))
              @@ (3 :> IF type = "dir" THEN Ino("dir", 1, 2, 3) ELSE Ino("file", 1, 1, 3)) @@ R.di,
   used |-> {1, 2, 3},
   ents |-> (1 :> <<Entry(".", 1), Entry("..", 1), Entry(na, 2)>>)
              @@ (2 :> <<Entry(".", 2), Entry("..", 1), Entry(nb, 3)>>)
              @@ (3 :> IF type = "dir" THEN <<Entry(".", 3), Entry("..", 2)>> ELSE <<>>) @@ R.ents]
MCImages == {mkfs(<<>>), mkfs(<<[name |-> nb, size |-> 1], [name |-> na, size |-> 0]>>), Tree("dir"), Tree("file")}
Symmetry == Permutations(Procs)
=============================================================================
