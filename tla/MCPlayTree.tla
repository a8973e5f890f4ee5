------------------------------ MODULE MCPlayTree ------------------------------
(* An entry, a group that plays twice with a group inside it, an entry: with *)
(* options on each level and an entry with two sources.                      *)
EXTENDS PlayTree

Node(parent, kids, loop, files, params) ==
  [parent |-> parent, kids |-> kids, loop |-> loop, files |-> files, params |-> params]

MCTree ==
  << Node(0, <<2, 3, 7>>, 0, 0, <<>>),
     Node(1, <<>>, 0, 1, << <<"fs", 1>> >>),
     Node(1, <<4, 5>>, 2, 0, << <<"vol", 1>> >>),
     Node(3, <<6>>, 0, 0, << <<"fs", 1>>, <<"vol", 0>> >>),
     Node(3, <<>>, 0, 2, <<>>),
     Node(4, <<>>, 0, 1, << <<"vol", 1>>, <<"fs", 0>> >>),
     Node(1, <<>>, 0, 1, <<>>) >>

\* The first entry is given "nofs", another name of the variable of "fs".
MCTreeNofs ==
  << Node(0, <<2, 3>>, 0, 0, <<>>),
     Node(1, <<>>, 0, 1, << <<"nofs", 0>> >>),
     Node(1, <<>>, 0, 1, <<>>) >>

MCSteps == {1, 2, -1}
MCOwnerOf == [a \in {"nofs"} |-> "fs"]
=============================================================================
