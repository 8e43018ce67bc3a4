--------------------------- MODULE PartitionTree ---------------------------
(***************************************************************************)
(* The partitions of one data centre form a tree, laid out like a heap:    *)
(* partition 0 is the root and the children of p are the tree_fanout       *)
(* partitions that follow p * tree_fanout (src/src/server/server.c).       *)
(***************************************************************************)
EXTENDS Integers

CONSTANTS
    NumPartitions,   \* cluster->num_partitions
    Fanout           \* config->tree_fanout

ASSUME TreeAssumption ==
    /\ NumPartitions \in Nat \ {0}
    /\ Fanout \in Nat \ {0}

Partition == 0 .. NumPartitions - 1

\* server_parent_partition_id, for p # 0
Parent(p) == (p - 1) \div Fanout

\* server_child_partition_index, for p # 0: the slot of p at its parent
ChildIndex(p) == (p - 1) % Fanout

FirstChild(p) == p * Fanout + 1
LastChild(p)  == p * Fanout + Fanout

\* server_is_leaf_partition
IsLeaf(p) == FirstChild(p) >= NumPartitions

\* server_num_children_partitions
NumChildren(p) ==
    IF LastChild(p) < NumPartitions THEN Fanout
    ELSE IF FirstChild(p) < NumPartitions
         THEN Fanout - (LastChild(p) - NumPartitions + 1)
         ELSE 0

\* the partitions server_foreach_children_partition visits
Children(p) == {c \in FirstChild(p) .. LastChild(p) : c < NumPartitions}
=============================================================================
