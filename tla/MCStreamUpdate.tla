-------------------------- MODULE MCStreamUpdate --------------------------
(***************************************************************************)
(* StreamUpdate for TLC: two partitions with two commands and one, names of *)
(* two bytes so that a name can be cut, chunks of a sixth to a half of the  *)
(* file, a file that fits into a chunk, a buffer that is full before the    *)
(* largest chunk is in it, and files that end anywhere.                     *)
(***************************************************************************)
EXTENDS StreamUpdate

F(signed, intact, name, sizes) ==
  [head |-> 3, name |-> name, signed |-> signed, intact |-> intact,
   cmds |-> << [part |-> "sys", size |-> sizes[1]], [part |-> "sys", size |-> sizes[2]],
               [part |-> "vendor", size |-> sizes[3]] >>]

\* A file so short that a chunk may hold all of it.
Short ==
  [head |-> 3, name |-> 2, signed |-> TRUE, intact |-> {"sys"},
   cmds |-> << [part |-> "sys", size |-> 1] >>]

Both == {"sys", "vendor"}
MCFiles ==
  {Short} \cup
  {F(TRUE, Both, 2, <<1, 3, 2>>), F(TRUE, Both, 2, <<2, 2, 4>>),
   F(FALSE, Both, 2, <<1, 3, 2>>), F(TRUE, {"sys"}, 2, <<1, 3, 2>>)}
MCZips == {0, HI + 1}
MCChunks == {7, 11, 20, 33, 48, 60}
=============================================================================
