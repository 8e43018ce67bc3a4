------------------------------ MODULE MCGrvGst ------------------------------
(***************************************************************************)
(* Small instances of GrvGst for TLC.                                      *)
(***************************************************************************)
EXTENDS GrvGst

\* A tree of three levels with one busy replica; a root with one leaf, and a
\* partition that is alone, with two.
TreeAndPair ==
    {[num_partitions |-> 4, sending |-> {0}],
     [num_partitions |-> 2, sending |-> {0, 1}],
     [num_partitions |-> 1, sending |-> {0, 1}]}
=============================================================================
