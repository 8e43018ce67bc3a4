-------------------------- MODULE MCGrReplication --------------------------
(***************************************************************************)
(* Small instances of replication under gr and grv for TLC.                *)
(***************************************************************************)
EXTENDS GrvReplication

\* Key k is put at replica k only; key 0 alone is put, at replica 0; key 0
\* alone is put, at every replica.
OneWriter == [k \in Key |-> {k}]
KeyZero   == [k \in Key |-> IF k = 0 THEN {0} ELSE {}]
AllWrite  == [k \in Key |-> IF k = 0 THEN Replica ELSE {}]

\* Both protocols with one core and with more, without conflicting puts and
\* with them.  Conflicts with more cores have by far the most states and end
\* earlier.
AllSettings ==
    UNION {{[protocol |-> p, single_core |-> TRUE, writers |-> OneWriter, end |-> MaxTime],
            [protocol |-> p, single_core |-> TRUE, writers |-> AllWrite, end |-> MaxTime],
            [protocol |-> p, single_core |-> FALSE, writers |-> KeyZero, end |-> MaxTime],
            [protocol |-> p, single_core |-> FALSE, writers |-> AllWrite, end |-> MaxTime - 1]}
           : p \in {"gr", "grv"}}

\* gr with one core and conflicting puts
GrConflicts == {[protocol |-> "gr", single_core |-> TRUE, writers |-> AllWrite,
                 end |-> MaxTime]}
=============================================================================
