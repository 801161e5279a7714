---------------------------- MODULE MCPathLeases ----------------------------
(***************************************************************************)
(* Instances of PathLeases for TLC.                                        *)
(***************************************************************************)
EXTENDS PathLeases

Call(task, agent, paths, access, shared, ttl) ==
  [task |-> task, agent |-> agent, paths |-> paths, access |-> access,
   shared |-> shared, ttl |-> ttl]

\* Segments: 97 to 99 are letters; 33 sorts before Star.
Tree(p) == Append(p, Star)

MCPaths == {<<97>>, <<97, 98>>, <<97, 99>>, <<98>>, <<97, 98, 99>>}

\* Three agents compete for a subtree, a nested subtree and single files, to
\* write, read or integrate; agent 1 works on two tasks.
MCRequests ==
  {Call("t1", 1, {Tree(<<97>>)}, "write", FALSE, 1),
   Call("t2", 1, {<<98>>, Tree(<<97, 98>>)}, "write", FALSE, 2),
   Call("t2", 1, {<<99>>}, "read", FALSE, 1),
   Call("t2", 2, {<<97, 98>>}, "read", FALSE, 2),
   Call("t3", 2, {Tree(<<97, 98>>), Tree(<<97>>)}, "write", TRUE, 1),
   Call("t1", 3, {Tree(<<97>>)}, "read", FALSE, 2),
   Call("t3", 3, {<<98>>, <<97>>}, "write", TRUE, 2)}

\* A subtree whose name sorts before Star, next to the tree it lies in.
MCOddRequests ==
  {Call("t1", 1, {Tree(<<97, 33>>), Tree(<<97>>)}, "write", FALSE, 2),
   Call("t2", 2, {<<97, 98>>}, "write", FALSE, 1)}
=============================================================================
