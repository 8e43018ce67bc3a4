---------------------------- MODULE MCGrvSession ----------------------------
EXTENDS GrvSession

AtOne == [c \in Client |-> 1]

Get(k)  == [op |-> "get", keys |-> {k}]
PutKey2 == [op |-> "put", keys |-> {2}]
Read(S) == [op |-> "rotx", keys |-> S]

Script(a, b) == [c \in Client |-> IF c = 0 THEN a ELSE b]

\* Client 0 gets the keys of the others against the order of their
\* dependencies, reads them in a transaction with what it got before, and puts
\* after it has read; beside it client 1 puts.
Sessions ==
    {Script(<<Get(1), Get(0)>>, <<PutKey2>>),
     Script(<<Get(1), Read({0, 1})>>, <<>>),
     Script(<<Read({0, 1}), Get(0)>>, <<>>),
     Script(<<Get(2), Read({0, 2})>>, <<PutKey2>>),
     Script(<<Get(1), PutKey2>>, <<>>)}

OneRead == {Script(<<Read({0, 1})>>, <<>>)}

\* Key 0 is put twice in data centre "a", the second time by a client that has
\* seen the first, and then key 1 in "b" by a client that has seen both.
After(a, h) == [s \in DC |-> IF s = "a" THEN a ELSE IF s = Here THEN h ELSE 0]

Chain(h) ==
    [s \in Remote |->
        IF s = "a"
        THEN {[key |-> 0, ut |-> 1, dep |-> After(0, 0)],
              [key |-> 0, ut |-> 2, dep |-> After(1, h)]}
        ELSE {[key |-> 1, ut |-> 3, dep |-> After(2, h)]}]

\* The clients there have seen nothing of here, or what is put here at time 1.
Chained      == Chain(0)
ChainedAfter == Chain(1)

\* Data centre "b" is far away: only its update has arrived, and its entry of
\* the GST vectors has not moved.
OnlyA == [s \in Remote |-> IF s = "a" THEN 2 ELSE 0]
=============================================================================
