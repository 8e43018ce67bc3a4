---------------------------- MODULE MCGrSession ----------------------------
EXTENDS GrSession

\* Keys 0 and 4 are on the root of the tree of partitions, keys 3 and 7 on
\* partition 3, two hops below it, where the clients are tied.
AllAtThree == [c \in Client |-> 3]

Get(k)  == [op |-> "get", keys |-> {k}]
Put(k)  == [op |-> "put", keys |-> {k}]
Read(S) == [op |-> "rotx", keys |-> S]

Script(a, b) == [c \in Client |-> IF c = 0 THEN a ELSE b]

\* Snapshots beside the puts and gets of another client, and the sessions whose
\* later requests must show what the earlier ones did.
Sessions ==
    {Script(<<Put(7), Read({0, 7})>>, <<Put(7)>>),
     Script(<<Get(7), Read({0, 3})>>, <<Get(3), Put(7)>>),
     Script(<<Read({0, 3}), Get(0)>>, <<Put(7)>>),
     Script(<<Read({0, 7})>>, <<Get(3), Get(0), Put(7)>>),
     Script(<<Get(4), Put(7)>>, <<Put(4), Put(7)>>),
     Script(<<Get(3), Put(7), Read({0, 7})>>, <<>>)}

\* Client 0 puts what depends on key 0, client 1 gets it and then key 3.
GetsOnly == {Script(<<Get(0), Put(7)>>, <<Get(7), Get(3)>>)}

\* The keys of the other data centre are put once each, one after the other.
LowerFirst == {<<3, 0>>}
RootFirst  == {<<0, 3>>}
=============================================================================
