-------------------------------- MODULE MCFs --------------------------------
\* Two processes in a file system of a few names, inodes and blocks.
EXTENDS Fs

CONSTANTS p1, p2

Mkdir == [op |-> "mkdir", path |-> <<"/", "d">>]
Create == [op |-> "open", path |-> <<"d", "a">>, create |-> TRUE, write |-> TRUE]
Open_d == [op |-> "open", path |-> <<"/", "d">>, create |-> FALSE, write |-> TRUE]
Open_a == [op |-> "open", path |-> <<"d", "a">>, create |-> FALSE, write |-> TRUE]
Unlink_a == [op |-> "unlink", path |-> <<"d", "a">>]
Unlink_d == [op |-> "unlink", path |-> <<"/", "d">>]
Link_a == [op |-> "link", path |-> <<"d", "a">>, new |-> <<"a">>]
Link_d == [op |-> "link", path |-> <<"/", "d">>, new |-> <<"a">>]
Chdir_d == [op |-> "chdir", path |-> <<"/", "d">>]
Chdir_a == [op |-> "chdir", path |-> <<"d", "a">>]
Mknod == [op |-> "mknod", path |-> <<"d", "a">>]

\* One makes and uses what the other links and removes.
MCCalls == p1 :> {Mkdir, Mknod, Create, Open_a, Open_d, Chdir_d, Chdir_a} @@ p2 :> {Link_a, Link_d, Unlink_a, Unlink_d}
=============================================================================
