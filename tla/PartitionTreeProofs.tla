------------------------ MODULE PartitionTreeProofs ------------------------
(***************************************************************************)
(* The arithmetic of server.c:189-244 describes a tree: for any number of  *)
(* partitions and any fanout, parents come before their children, and the  *)
(* slots of the children of a partition are 0 .. NumChildren - 1, one      *)
(* each.                                                                   *)
(***************************************************************************)
EXTENDS PartitionTree, FiniteSetTheorems, WellFoundedInduction, TLAPS

\* Division by the fanout: the quotient is the only number that fits.
LEMMA Quotient ==
    ASSUME NEW c \in Nat \ {0}
    PROVE  /\ Parent(c) \in Nat
           /\ ChildIndex(c) \in 0 .. Fanout - 1
           /\ c = Parent(c) * Fanout + 1 + ChildIndex(c)
  BY TreeAssumption DEF Parent, ChildIndex

LEMMA QuotientUnique ==
    ASSUME NEW c \in Nat, NEW p \in Nat,
           FirstChild(p) <= c, c <= LastChild(p)
    PROVE  Parent(c) = p
<1> DEFINE d == Parent(c)
<1>1. c \in Nat \ {0}
  <2>1. p * Fanout \in Nat
    BY TreeAssumption
  <2> QED  BY <2>1 DEF FirstChild
<1>2. /\ d \in Nat
      /\ ChildIndex(c) \in 0 .. Fanout - 1
      /\ c = d * Fanout + 1 + ChildIndex(c)
  BY <1>1, Quotient
<1> HIDE DEF d
<1>3. ASSUME d < p PROVE FALSE
  <2>1. (d + 1) * Fanout <= p * Fanout
    BY <1>2, <1>3, TreeAssumption
  <2>2. (d + 1) * Fanout = d * Fanout + Fanout
    BY <1>2, TreeAssumption
  <2>3. d * Fanout \in Nat /\ p * Fanout \in Nat
    BY <1>2, TreeAssumption
  <2> QED  BY <1>2, <2>1, <2>2, <2>3, TreeAssumption DEF FirstChild
<1>4. ASSUME p < d PROVE FALSE
  <2>1. (p + 1) * Fanout <= d * Fanout
    BY <1>2, <1>4, TreeAssumption
  <2>2. (p + 1) * Fanout = p * Fanout + Fanout
    BY TreeAssumption
  <2>3. d * Fanout \in Nat /\ p * Fanout \in Nat
    BY <1>2, TreeAssumption
  <2> QED  BY <1>2, <2>1, <2>2, <2>3, TreeAssumption DEF LastChild
<1>5. d = p
  BY <1>2, <1>3, <1>4
<1> QED  BY <1>5 DEF d

\* server_parent_partition_id and server_foreach_children_partition agree.
THEOREM ChildrenHaveParent ==
    ASSUME NEW p \in Partition, NEW c \in Partition
    PROVE  c \in Children(p) <=> c # 0 /\ Parent(c) = p
<1>0. p \in Nat /\ c \in Nat /\ c < NumPartitions /\ p * Fanout \in Nat
  BY TreeAssumption DEF Partition
<1>1. ASSUME c \in Children(p) PROVE c # 0 /\ Parent(c) = p
  <2>1. FirstChild(p) <= c /\ c <= LastChild(p)
    BY <1>0, <1>1, TreeAssumption DEF Children, FirstChild, LastChild
  <2>2. c # 0
    BY <1>0, <2>1 DEF FirstChild
  <2> QED  BY <1>0, <2>1, <2>2, QuotientUnique
<1>2. ASSUME c # 0, Parent(c) = p PROVE c \in Children(p)
  <2>1. ChildIndex(c) \in 0 .. Fanout - 1 /\ c = p * Fanout + 1 + ChildIndex(c)
    BY <1>0, <1>2, Quotient
  <2> QED  BY <1>0, <2>1, TreeAssumption DEF Children, FirstChild, LastChild
<1> QED  BY <1>1, <1>2

\* The parent of a partition is a partition before it.
THEOREM ParentBefore ==
    ASSUME NEW c \in Partition, c # 0
    PROVE  Parent(c) \in Partition /\ Parent(c) < c
<1>1. c \in Nat \ {0} /\ c <= NumPartitions - 1
  BY TreeAssumption DEF Partition
<1>2. /\ Parent(c) \in Nat
      /\ ChildIndex(c) \in 0 .. Fanout - 1
      /\ c = Parent(c) * Fanout + 1 + ChildIndex(c)
  BY <1>1, Quotient
<1>3. Parent(c) <= Parent(c) * Fanout
  BY <1>2, TreeAssumption
<1>4. Parent(c) < c
  BY <1>1, <1>2, <1>3, TreeAssumption
<1> QED  BY <1>1, <1>2, <1>4, TreeAssumption DEF Partition

\* Children of one parent have different slots, and the slots are the first
\* NumChildren ones.
THEOREM Slots ==
    ASSUME NEW p \in Partition
    PROVE  /\ NumChildren(p) \in Nat
           /\ IsLeaf(p) <=> Children(p) = {}
           /\ \A c \in Children(p) : ChildIndex(c) \in 0 .. NumChildren(p) - 1
           /\ \A c, d \in Children(p) : ChildIndex(c) = ChildIndex(d) => c = d
<1>0. p \in Nat /\ p * Fanout \in Nat /\ Children(p) \subseteq Partition
  BY TreeAssumption DEF Partition, Children, FirstChild, LastChild
<1>1. NumChildren(p) \in Nat
  BY <1>0, TreeAssumption DEF NumChildren, FirstChild, LastChild
<1>2. ASSUME NEW c \in Children(p)
      PROVE  ChildIndex(c) = c - FirstChild(p)
  <2>1. c # 0 /\ Parent(c) = p /\ c \in Nat
    BY <1>0, ChildrenHaveParent, TreeAssumption DEF Partition
  <2>2. ChildIndex(c) \in Int /\ c = p * Fanout + 1 + ChildIndex(c)
    BY <2>1, Quotient, TreeAssumption
  <2> QED  BY <1>0, <2>1, <2>2 DEF FirstChild
<1>3. IsLeaf(p) <=> Children(p) = {}
  <2>1. ASSUME IsLeaf(p) PROVE Children(p) = {}
    BY <1>0, <2>1, TreeAssumption DEF IsLeaf, Children, FirstChild, LastChild
  <2>2. ASSUME ~IsLeaf(p) PROVE FirstChild(p) \in Children(p)
    BY <1>0, <2>2, TreeAssumption DEF IsLeaf, Children, FirstChild, LastChild
  <2> QED  BY <2>1, <2>2
<1>4. ASSUME NEW c \in Children(p)
      PROVE  c - FirstChild(p) \in 0 .. NumChildren(p) - 1
  BY <1>0, TreeAssumption DEF NumChildren, Children, FirstChild, LastChild
<1>5. ASSUME NEW c \in Children(p), NEW d \in Children(p),
             ChildIndex(c) = ChildIndex(d)
      PROVE  c = d
  <2>1. c \in Nat /\ d \in Nat /\ FirstChild(p) \in Nat
    BY <1>0, TreeAssumption DEF Partition, FirstChild
  <2> QED  BY <1>2, <1>5, <2>1
<1> QED  BY <1>1, <1>2, <1>3, <1>4, <1>5

\* A property of the root that parents pass to their children holds
\* everywhere: a set with the root and the children of its members is all.
THEOREM RootReachesAll ==
    ASSUME NEW S, 0 \in S,
           \A c \in Partition \ {0} : Parent(c) \in S => c \in S
    PROVE  Partition \subseteq S
<1> DEFINE T == Partition \ S
<1>1. SUFFICES ASSUME T # {} PROVE FALSE
  OBVIOUS
<1>2. T \subseteq Nat
  BY TreeAssumption DEF Partition
<1>3. PICK x \in T : \A y \in T : ~(<<y, x>> \in OpToRel(<, Nat))
  BY <1>1, <1>2, NatLessThanWellFounded, WFMin
<1>4. Parent(x) \in Partition /\ Parent(x) < x
  BY <1>3, ParentBefore
<1>5. Parent(x) \in T
  BY <1>3, <1>4
<1>6. <<Parent(x), x>> \in OpToRel(<, Nat)
  BY <1>2, <1>3, <1>4, <1>5 DEF OpToRel
<1> QED  BY <1>3, <1>5, <1>6
=============================================================================
