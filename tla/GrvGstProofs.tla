---------------------------- MODULE GrvGstProofs ----------------------------
(***************************************************************************)
(* Proofs about module GrvGst, for any configurations, any fanout, any     *)
(* number of replicas and any timestamps.                                  *)
(*                                                                         *)
(* A GST vector is safe because what a partition reports is below the      *)
(* peaks of everything below it in the tree, and because the root's        *)
(* minimum stays as it is until the root has used it.  The inductive       *)
(* invariant therefore gives every partition a phase of the round, as a    *)
(* function that is not part of the state, and bounds every report by the  *)
(* peaks of a subtree.                                                     *)
(***************************************************************************)
EXTENDS GrvGst, SequenceTheorems, FiniteSetTheorems, TLAPS

T == INSTANCE PartitionTreeProofs WITH NumPartitions <- config.num_partitions

\* p and everything below it: what every set that holds p, and with each
\* partition its children, holds
Closed(S)  == \A c \in Partition \ {0} : Parent(c) \in S => c \in S
Below(p)   == {q \in Partition : \A S \in SUBSET Partition : p \in S /\ Closed(S) => q \in S}

Covers(p, v) == \A q \in Below(p) : Leq(v, peak[q])
Safe(v)      == \A q \in Partition : Leq(v, peak[q])

\* Where c is in the round, from the point of view of its edge to its parent:
\*   working   c has not reported         sent      its report is under way
\*   counted   the parent has the report  waiting   the parent is not working
\*   coming    the GST is under way
Phases == {"working", "sent", "counted", "waiting", "coming"}

\* A leaf that works has one thing to do: apply its vector, let go of the
\* lock or start; otherwise it has nothing to do.
LeafRests(c) == start[c] = 0 /\ gst_waits[c] = {} /\ lock[c] # "gst"
LeafWorks(c) ==
    \/ start[c] = 1 /\ gst_waits[c] = {} /\ lock[c] # "gst"
    \/ start[c] = 0 /\ (\E v \in Vector : gst_waits[c] = {v}) /\ lock[c] # "gst"
    \/ start[c] = 0 /\ gst_waits[c] = {} /\ lock[c] = "gst"

EdgeAt(ph, c) ==
    /\ ph[c] = "waiting" <=> ph[Parent(c)] # "working"
    /\ IF ph[c] = "sent" THEN \E v \in Vector : lst_chan[c] = <<v>>
                         ELSE lst_chan[c] = <<>>
    /\ IF ph[c] = "coming" THEN \E v \in Vector : gst_chan[c] = <<v>>
                           ELSE gst_chan[c] = <<>>
    /\ ph[c] = "counted" <=> ChildIndex(c) \in lst_received[Parent(c)]
    /\ IsLeaf(c) => IF ph[c] = "working" THEN LeafWorks(c) ELSE LeafRests(c)
    /\ ~IsLeaf(c) => start[c] = 0

\* The root waits from its last report to the end of its chain.
RootAt(ph) ==
    /\ ph[0] = IF root_waits \/ lock[0] = "root" THEN "waiting" ELSE "working"
    /\ ~(root_waits /\ lock[0] = "root")
    /\ start[0] > 0 => IsLeaf(0)
    /\ lst_chan[0] = <<>> /\ gst_chan[0] = <<>>
    /\ gst_waits[0] = {} /\ lock[0] # "gst"

Rounds ==
    \E ph \in [Partition -> Phases] :
        RootAt(ph) /\ \A c \in Partition \ {0} : EdgeAt(ph, c)

\* A partition has counted only children of its own.
Counted ==
    \A p \in Partition : \A i \in lst_received[p] :
        \E c \in Partition \ {0} : Parent(c) = p /\ ChildIndex(c) = i

\* Every vector that is applied or will be is safe, and every report is below
\* the peaks of the subtree it comes from.
Values ==
    /\ \A p \in Partition :
        /\ Leq(version_vector[p], peak[p])
        /\ Safe(gst_vector[p])
        /\ \A v \in gst_waits[p] : Safe(v)
        /\ \A v \in Vector : gst_chan[p] = <<v>> => Safe(v)
    /\ Safe(known)
    /\ root_waits => Safe(min_lst_vector[0])
    /\ \A c \in Partition \ {0} :
        /\ \A v \in Vector : lst_chan[c] = <<v>> => Covers(c, v)
        /\ ChildIndex(c) \in lst_received[Parent(c)]
             => Covers(c, min_lst_vector[Parent(c)])

IInv == TypeOK /\ Rounds /\ Counted /\ Values

-----------------------------------------------------------------------------
(***************************************************************************)
(* The tree, and vectors                                                   *)
(***************************************************************************)

\* The tree of partitions, whatever their number.
LEMMA Tree ==
    ASSUME config \in Configs
    PROVE  /\ config.num_partitions \in Nat \ {0}
           /\ config.sending \subseteq Replica
           /\ 0 \in Partition
           /\ \A c \in Partition \ {0} :
                /\ Parent(c) \in Partition
                /\ Parent(c) # c
                /\ Parent(Parent(c)) # c
                /\ ChildIndex(c) \in Slot
                /\ ChildIndex(c) \in 0 .. NumChildren(Parent(c)) - 1
                /\ ~IsLeaf(Parent(c))
           /\ \A c, d \in Partition \ {0} :
                Parent(c) = Parent(d) /\ ChildIndex(c) = ChildIndex(d) => c = d
           /\ \A p \in Partition : NumChildren(p) \in Nat
           /\ \A p \in Partition, c \in Partition :
                    c \in Children(p) <=> c # 0 /\ Parent(c) = p
           /\ \A p \in Partition : \A c \in Children(p) : c \in Partition
           /\ IsLeaf(0) => Partition = {0}
<1>1. config.num_partitions \in Nat \ {0} /\ config.sending \subseteq Replica
  BY GrvGstAssumption DEF Config
<1>2. T!TreeAssumption
  BY <1>1, GrvGstAssumption DEF T!TreeAssumption
<1>3. /\ Partition = T!Partition
      /\ \A p : /\ Parent(p) = T!Parent(p) /\ ChildIndex(p) = T!ChildIndex(p)
                /\ NumChildren(p) = T!NumChildren(p) /\ IsLeaf(p) = T!IsLeaf(p)
                /\ Children(p) = T!Children(p)
  BY DEF Partition, Parent, ChildIndex, FirstChild, LastChild, NumChildren, IsLeaf, Children,
         T!Partition, T!Parent, T!ChildIndex, T!FirstChild, T!LastChild, T!NumChildren,
         T!IsLeaf, T!Children
<1>4. 0 \in Partition
  BY <1>1 DEF Partition
<1>5. ASSUME NEW p \in Partition, NEW c \in Partition
      PROVE  c \in Children(p) <=> c # 0 /\ Parent(c) = p
  <2>1. c \in T!Children(p) <=> c # 0 /\ T!Parent(c) = p
    BY <1>2, <1>3, T!ChildrenHaveParent
  <2> QED  BY <1>3, <2>1
<1>6. ASSUME NEW c \in Partition \ {0}
      PROVE  Parent(c) \in Partition /\ Parent(c) # c /\ Parent(Parent(c)) # c
  <2>1. ASSUME NEW d \in Partition \ {0} PROVE Parent(d) \in Partition /\ Parent(d) < d
    <3>1. T!Parent(d) \in T!Partition /\ T!Parent(d) < d
      BY <1>2, <1>3, T!ParentBefore
    <3> QED  BY <1>3, <3>1
  <2>2. \A d \in Partition : d \in Nat
    BY <1>1 DEF Partition
  <2>3. Parent(c) \in Partition /\ Parent(c) < c
    BY <2>1
  <2>4. CASE Parent(c) = 0
    <3>1. Parent(0) # c
      <4>1. CASE Fanout = 1
        BY <2>2, <4>1 DEF Parent
      <4>2. CASE Fanout # 1
        BY <2>2, <4>2, GrvGstAssumption DEF Parent
      <4> QED  BY <4>1, <4>2
    <3> QED  BY <2>2, <2>3, <2>4, <3>1
  <2>5. CASE Parent(c) # 0
    <3>1. Parent(Parent(c)) \in Partition /\ Parent(Parent(c)) < Parent(c)
      BY <2>1, <2>3, <2>5
    <3> QED  BY <2>2, <2>3, <3>1
  <2> QED  BY <2>4, <2>5
<1>7. ASSUME NEW p \in Partition
      PROVE  /\ NumChildren(p) \in Nat
             /\ IsLeaf(p) <=> Children(p) = {}
             /\ \A c \in Children(p) : ChildIndex(c) \in 0 .. NumChildren(p) - 1
             /\ \A c, d \in Children(p) : ChildIndex(c) = ChildIndex(d) => c = d
  <2>1. /\ T!NumChildren(p) \in Nat
        /\ T!IsLeaf(p) <=> T!Children(p) = {}
        /\ \A c \in T!Children(p) : T!ChildIndex(c) \in 0 .. T!NumChildren(p) - 1
        /\ \A c, d \in T!Children(p) : T!ChildIndex(c) = T!ChildIndex(d) => c = d
    BY <1>2, <1>3, T!Slots
  <2> QED  BY <1>3, <2>1
<1>8. ASSUME NEW c \in Partition \ {0}
      PROVE  /\ ChildIndex(c) \in 0 .. NumChildren(Parent(c)) - 1
             /\ ~IsLeaf(Parent(c))
             /\ ChildIndex(c) \in Slot
  <2>1. c \in Children(Parent(c))
    BY <1>5, <1>6
  <2>2. c \in Nat \ {0}
    BY <1>1 DEF Partition
  <2>3. T!ChildIndex(c) \in 0 .. Fanout - 1
    BY <1>2, <2>2, T!Quotient
  <2> QED  BY <1>3, <1>6, <1>7, <2>1, <2>3 DEF Slot
<1>9. ASSUME NEW c \in Partition \ {0}, NEW d \in Partition \ {0},
             Parent(c) = Parent(d), ChildIndex(c) = ChildIndex(d)
      PROVE  c = d
  <2>1. c \in Children(Parent(c)) /\ d \in Children(Parent(c))
    BY <1>5, <1>6, <1>9
  <2> QED  BY <1>6, <1>7, <1>9, <2>1
<1>10. ASSUME IsLeaf(0) PROVE Partition = {0}
  <2>1. 0 * Fanout + 1 >= config.num_partitions
    BY <1>10 DEF IsLeaf, FirstChild
  <2>2. config.num_partitions = 1
    BY <1>1, <2>1, GrvGstAssumption
  <2> QED  BY <2>2 DEF Partition
<1>11. ASSUME NEW p \in Partition, NEW c \in Children(p) PROVE c \in Partition
  <2>1. p * Fanout \in Nat
    BY <1>1, GrvGstAssumption DEF Partition
  <2> QED  BY <1>1, <2>1, GrvGstAssumption DEF Children, Partition, FirstChild, LastChild
<1> QED  BY <1>1, <1>4, <1>5, <1>6, <1>7, <1>8, <1>9, <1>10, <1>11

\* config never changes, so the tree does not either.
TreeSame ==
    /\ Partition' = Partition
    /\ \A p : /\ IsLeaf(p)' <=> IsLeaf(p)
              /\ NumChildren(p)' = NumChildren(p)
              /\ Children(p)' = Children(p)
              /\ Below(p)' = Below(p)

LEMMA TreeStays ==
    ASSUME config' = config
    PROVE  TreeSame
<1>1. Partition' = Partition
  BY DEF Partition
<1>2. \A p : /\ IsLeaf(p)' <=> IsLeaf(p)
            /\ NumChildren(p)' = NumChildren(p)
            /\ Children(p)' = Children(p)
  BY DEF IsLeaf, NumChildren, Children, FirstChild, LastChild
<1>3. \A p : Below(p)' = Below(p)
  BY <1>1 DEF Below, Closed
<1> QED  BY <1>1, <1>2, <1>3 DEF TreeSame

\* The children of p cover what is below p, p itself excepted.
LEMMA BelowStep ==
    ASSUME config \in Configs, NEW p \in Partition
    PROVE  \A q \in Below(p) :
                q = p \/ \E c \in Partition \ {0} : Parent(c) = p /\ q \in Below(c)
<1> DEFINE S == {q \in Partition :
                    q = p \/ \E c \in Partition \ {0} : Parent(c) = p /\ q \in Below(c)}
<1>1. p \in S /\ S \in SUBSET Partition
  OBVIOUS
<1>2. ASSUME NEW d \in Partition \ {0}, Parent(d) \in S PROVE d \in S
  <2>1. CASE Parent(d) = p
    <3>1. d \in Below(d)
      BY DEF Below
    <3> QED  BY <2>1, <3>1
  <2>2. ASSUME NEW c \in Partition \ {0}, Parent(c) = p, Parent(d) \in Below(c)
        PROVE  d \in S
    <3>1. d \in Below(c)
      BY <2>2 DEF Below, Closed
    <3> QED  BY <2>2, <3>1
  <2> QED  BY <1>2, <2>1, <2>2
<1>3. Closed(S)
  BY <1>2 DEF Closed
<1> HIDE DEF S
<1>4. \A q \in Below(p) : q \in S
  BY <1>1, <1>3 DEF Below
<1> QED  BY <1>4 DEF S

\* Everything is below the root.
LEMMA BelowRoot ==
    ASSUME config \in Configs
    PROVE  Partition \subseteq Below(0)
<1> SUFFICES ASSUME NEW q \in Partition, NEW S \in SUBSET Partition, 0 \in S, Closed(S)
             PROVE  q \in S
  BY DEF Below
<1>1. T!TreeAssumption
  BY Tree, GrvGstAssumption DEF T!TreeAssumption
<1>2. Partition = T!Partition /\ \A c : Parent(c) = T!Parent(c)
  BY DEF Partition, Parent, T!Partition, T!Parent
<1>3. \A c \in T!Partition \ {0} : T!Parent(c) \in S => c \in S
  BY <1>2 DEF Closed
<1>4. T!Partition \subseteq S
  BY <1>1, <1>3, T!RootReachesAll
<1> QED  BY <1>2, <1>4

\* Nothing but itself is below a leaf.
LEMMA BelowLeaf ==
    ASSUME config \in Configs, NEW p \in Partition, IsLeaf(p)
    PROVE  \A q \in Below(p) : q = p
  BY BelowStep, Tree

LEMMA VectorOps ==
    ASSUME NEW v \in Vector, NEW w \in Vector
    PROVE  /\ MaxVector(v, w) \in Vector /\ MinVector(v, w) \in Vector
           /\ Leq(v, MaxVector(v, w)) /\ Leq(w, MaxVector(v, w))
           /\ Leq(MinVector(v, w), v) /\ Leq(MinVector(v, w), w)
           /\ \A u \in Vector : Leq(v, u) /\ Leq(w, u) => Leq(MaxVector(v, w), u)
           /\ \A u \in Vector : Leq(v, w) /\ Leq(w, u) => Leq(v, u)
           /\ Leq(v, v) /\ Leq(Zero, v) /\ Zero \in Vector
<1> USE GrvGstAssumption
<1>1. \A r \in Replica : v[r] \in Time /\ w[r] \in Time
  BY DEF Vector
<1>2. \A r \in Replica : v[r] \in Nat /\ w[r] \in Nat
  BY <1>1 DEF Time
<1>3. MaxVector(v, w) \in Vector /\ MinVector(v, w) \in Vector
  BY <1>1 DEF Vector, MaxVector, MinVector
<1>4. /\ Leq(v, MaxVector(v, w)) /\ Leq(w, MaxVector(v, w))
      /\ Leq(MinVector(v, w), v) /\ Leq(MinVector(v, w), w)
  BY <1>2 DEF Leq, MaxVector, MinVector
<1>5. ASSUME NEW u \in Vector, Leq(v, u), Leq(w, u) PROVE Leq(MaxVector(v, w), u)
  BY <1>5 DEF Leq, MaxVector
<1>6. ASSUME NEW u \in Vector, Leq(v, w), Leq(w, u) PROVE Leq(v, u)
  <2>1. \A r \in Replica : u[r] \in Nat
    BY DEF Vector, Time
  <2> QED  BY <1>2, <1>6, <2>1 DEF Leq
<1>7. Leq(v, v) /\ Leq(Zero, v) /\ Zero \in Vector
  BY <1>2 DEF Leq, Zero, Vector, Time
<1> QED  BY <1>3, <1>4, <1>5, <1>6, <1>7

\* The minimum of the reports so far, of which u is the last
LEMMA MinSoFar ==
    ASSUME NEW R, NEW v \in Vector, NEW u \in Vector,
           NEW m, m = IF R = {} THEN u ELSE MinVector(v, u)
    PROVE  m \in Vector /\ Leq(m, u) /\ (R # {} => Leq(m, v))
<1>1. CASE R = {}
  BY <1>1, VectorOps
<1>2. CASE R # {}
  BY <1>2, VectorOps
<1> QED  BY <1>1, <1>2

\* A channel that holds one message at most
LEMMA OneMessage ==
    ASSUME NEW S, NEW x \in S
    PROVE  /\ <<x>> \in Seq(S)
           /\ <<x>> # <<>>
           /\ Append(<<>>, x) = <<x>>
           /\ Head(<<x>>) = x
           /\ Tail(<<x>>) = <<>>
           /\ \A y \in S : <<x>> = <<y>> => x = y
           /\ Len(<<x>>) = 1
           /\ Len(<<>>) = 0
  OBVIOUS

-----------------------------------------------------------------------------
(***************************************************************************)
(* Type correctness                                                        *)
(***************************************************************************)
LEMMA UpdateGstVectorType ==
    ASSUME TypeOK, NEW p \in Partition, NEW v \in Vector, UpdateGstVector(p, v)
    PROVE  /\ gst_vector' \in [Partition -> Vector]
           /\ gst_vector'[p] = MaxVector(gst_vector[p], v)
           /\ \A q \in Partition : q # p => gst_vector'[q] = gst_vector[q]
<1>1. gst_vector \in [Partition -> Vector] /\ gst_vector[p] \in Vector
  BY DEF TypeOK
<1>2. MaxVector(gst_vector[p], v) \in Vector
  BY <1>1, VectorOps
<1> QED  BY <1>1, <1>2 DEF UpdateGstVector

LEMMA SendGstType ==
    ASSUME NEW p \in Partition, NEW v \in Vector, NEW chan \in [Partition -> Seq(Vector)]
    PROVE  SendGst(chan, p, v) \in [Partition -> Seq(Vector)]
<1>1. \A c \in Partition : chan[c] \in Seq(Vector) /\ Append(chan[c], v) \in Seq(Vector)
  BY AppendProperties
<1> QED  BY <1>1 DEF SendGst

LEMMA TypeStep == TypeOK /\ [Next]_vars => TypeOK'
<1> SUFFICES ASSUME TypeOK, [Next]_vars PROVE TypeOK'
  OBVIOUS
<1> USE DEF state, chans, locks
<1>0. config' = config
  BY DEF Next, Round, Chain, vars, SetVersion, StartGstComputation, StartGstComputationAlone,
         ProcessLstFromLeaf, ProcessLastLstFromLeaf, LstFromLeafRootLocked,
         LstFromLeafRootUnlocked, GstFromRoot, GstFromRootLocked, GstFromRootUnlocked,
         HandOutGst, HintLocked, HintUnlocked, ForwardGet
<1>a. Partition' = Partition /\ config \in Configs
  BY <1>0, TreeStays DEF TreeSame, TypeOK
<1>1. CASE UNCHANGED vars
  BY <1>1, <1>a DEF vars, TypeOK
<1>2. ASSUME NEW p \in Partition, StartGstComputation(p) PROVE TypeOK'
  <2>1. start[p] \in Nat /\ lst_chan[p] \in Seq(Vector) /\ version_vector[p] \in Vector
    BY DEF TypeOK
  <2>2. Append(lst_chan[p], version_vector[p]) \in Seq(Vector)
    BY <2>1, AppendProperties
  <2>3. start[p] - 1 \in Nat
    BY <1>2, <2>1 DEF StartGstComputation
  <2> QED  BY <1>2, <1>a, <2>2, <2>3 DEF StartGstComputation, TypeOK
<1>3. ASSUME NEW p \in Partition, StartGstComputationAlone(p) PROVE TypeOK'
  <2>1. version_vector[p] \in Vector
    BY DEF TypeOK
  <2>2. gst_vector' \in [Partition -> Vector]
    BY <1>3, <2>1, UpdateGstVectorType DEF StartGstComputationAlone
  <2> QED  BY <1>3, <1>a, <2>2 DEF StartGstComputationAlone, TypeOK
<1>4. ASSUME NEW c \in Partition \ {0}, ProcessLstFromLeaf(c) PROVE TypeOK'
  <2> DEFINE p == Parent(c)
             lst == Head(lst_chan[c])
             min == IF lst_received[p] = {} THEN lst ELSE MinVector(min_lst_vector[p], lst)
  <2>1. p \in Partition /\ ChildIndex(c) \in Slot
    BY <1>a, Tree
  <2>2. lst \in Vector /\ Tail(lst_chan[c]) \in Seq(Vector)
    BY <1>4, HeadTailProperties DEF ProcessLstFromLeaf, TypeOK
  <2>3. min_lst_vector[p] \in Vector
    BY <2>1 DEF TypeOK
  <2>4. min \in Vector
    BY <2>2, <2>3, VectorOps
  <2>5. /\ min_lst_vector' = [min_lst_vector EXCEPT ![p] = min]
        /\ lst_received' = [lst_received EXCEPT ![p] = @ \cup {ChildIndex(c)}]
        /\ lst_chan' = [lst_chan EXCEPT ![c] = Tail(@)]
        /\ UNCHANGED <<config, version_vector, gst_vector, start, gst_chan, known, locks, peak>>
    BY <1>4 DEF ProcessLstFromLeaf
  <2> HIDE DEF p, lst, min
  <2> QED  BY <1>a, <2>1, <2>2, <2>4, <2>5 DEF TypeOK
<1>5. ASSUME NEW c \in Partition \ {0}, ProcessLastLstFromLeaf(c) PROVE TypeOK'
  <2> DEFINE p == Parent(c)
             lst == Head(lst_chan[c])
             below == IF lst_received[p] = {} THEN lst ELSE MinVector(min_lst_vector[p], lst)
             min == MinVector(below, version_vector[p])
             taken == [lst_chan EXCEPT ![c] = Tail(@)]
  <2>1. p \in Partition
    BY <1>a, Tree
  <2>2. lst \in Vector /\ Tail(lst_chan[c]) \in Seq(Vector)
    BY <1>5, HeadTailProperties DEF ProcessLastLstFromLeaf, TypeOK
  <2>3. min_lst_vector[p] \in Vector /\ version_vector[p] \in Vector
    BY <2>1 DEF TypeOK
  <2>4. below \in Vector
    BY <2>2, <2>3, VectorOps
  <2> HIDE DEF below
  <2>5. min \in Vector
    BY <2>3, <2>4, VectorOps
  <2>6. /\ min_lst_vector' = [min_lst_vector EXCEPT ![p] = min]
        /\ lst_received' = [lst_received EXCEPT ![p] = {}]
        /\ \/ root_waits' = TRUE /\ lst_chan' = taken
           \/ /\ lst_chan' = [taken EXCEPT ![p] = Append(@, min)]
              /\ root_waits' = root_waits
        /\ UNCHANGED <<config, version_vector, gst_vector, start, gst_chan, known, lock,
                       gst_waits, peak>>
    BY <1>5 DEF ProcessLastLstFromLeaf, below
  <2> HIDE DEF p, lst, min
  <2>7. taken \in [Partition -> Seq(Vector)]
    BY <2>2 DEF TypeOK
  <2> HIDE DEF taken
  <2>8. Append(taken[p], min) \in Seq(Vector)
    BY <2>1, <2>5, <2>7, AppendProperties
  <2>9. [taken EXCEPT ![p] = Append(@, min)] \in [Partition -> Seq(Vector)]
    BY <2>7, <2>8
  <2>10. lst_chan' \in [Partition -> Seq(Vector)] /\ root_waits' \in BOOLEAN
    BY <2>6, <2>7, <2>9 DEF TypeOK
  <2> QED  BY <1>a, <2>1, <2>5, <2>6, <2>10 DEF TypeOK
<1>6. CASE LstFromLeafRootLocked
  <2>1. 0 \in Partition /\ min_lst_vector[0] \in Vector
    BY <1>a, Tree DEF TypeOK
  <2>2. gst_vector' \in [Partition -> Vector]
    BY <1>6, <2>1, UpdateGstVectorType DEF LstFromLeafRootLocked
  <2> QED  BY <1>6, <1>a, <2>2 DEF LstFromLeafRootLocked, TypeOK
<1>7. CASE LstFromLeafRootUnlocked
  <2>1. 0 \in Partition /\ gst_vector[0] \in Vector /\ gst_chan \in [Partition -> Seq(Vector)]
    BY <1>a, Tree DEF TypeOK
  <2>2. gst_chan' \in [Partition -> Seq(Vector)]
    BY <1>7, <2>1, SendGstType DEF LstFromLeafRootUnlocked
  <2> QED  BY <1>7, <1>a, <2>2 DEF LstFromLeafRootUnlocked, TypeOK
<1>8. ASSUME NEW p \in Partition, GstFromRoot(p) PROVE TypeOK'
  <2> DEFINE v == Head(gst_chan[p])
             chan == [gst_chan EXCEPT ![p] = Tail(@)]
  <2>1. v \in Vector /\ Tail(gst_chan[p]) \in Seq(Vector)
    BY <1>8, HeadTailProperties DEF GstFromRoot, TypeOK
  <2>2. chan \in [Partition -> Seq(Vector)]
    BY <2>1 DEF TypeOK
  <2>3. /\ gst_chan' = SendGst(chan, p, v)
        /\ gst_waits' = [gst_waits EXCEPT ![p] = @ \cup {v}]
        /\ UNCHANGED <<state, start, lst_chan, known, lock, root_waits, peak>>
    BY <1>8 DEF GstFromRoot
  <2> HIDE DEF v, chan
  <2>4. gst_chan' \in [Partition -> Seq(Vector)]
    BY <2>1, <2>2, <2>3, SendGstType
  <2>5. gst_waits' \in [Partition -> SUBSET Vector]
    BY <2>1, <2>3 DEF TypeOK
  <2> QED  BY <1>a, <2>3, <2>4, <2>5 DEF TypeOK
<1>9. ASSUME NEW p \in Partition, NEW v \in gst_waits[p], GstFromRootLocked(p, v)
      PROVE  TypeOK'
  <2>1. v \in Vector
    BY DEF TypeOK
  <2>2. gst_vector' \in [Partition -> Vector]
    BY <1>9, <2>1, UpdateGstVectorType DEF GstFromRootLocked
  <2> QED  BY <1>9, <1>a, <2>2 DEF GstFromRootLocked, TypeOK
<1>10. ASSUME NEW p \in Partition, GstFromRootUnlocked(p) PROVE TypeOK'
  <2>1. start[p] + 1 \in Nat
    BY DEF TypeOK
  <2>2. start' \in [Partition -> Nat]
    BY <1>10, <2>1 DEF GstFromRootUnlocked, TypeOK
  <2> QED  BY <1>10, <1>a, <2>2 DEF GstFromRootUnlocked, TypeOK
<1>11. ASSUME NEW p \in Partition, HandOutGst(p) PROVE TypeOK'
  <2>1. known' \in Vector
    BY <1>11, VectorOps DEF HandOutGst, TypeOK
  <2> QED  BY <1>11, <1>a, <2>1 DEF HandOutGst, TypeOK
<1>12. ASSUME NEW p \in Partition, NEW v \in Vector, HintLocked(p, v) PROVE TypeOK'
  <2>1. gst_vector' \in [Partition -> Vector]
    BY <1>12, UpdateGstVectorType DEF HintLocked
  <2> QED  BY <1>12, <1>a, <2>1 DEF HintLocked, TypeOK
<1>13. ASSUME NEW p \in Partition, NEW v \in Vector, ForwardGet(p, v) PROVE TypeOK'
  <2>1. gst_vector' \in [Partition -> Vector]
    BY <1>13, UpdateGstVectorType DEF ForwardGet
  <2> QED  BY <1>13, <1>a, <2>1 DEF ForwardGet, TypeOK
<1>14. ASSUME NEW p \in Partition, HintUnlocked(p) PROVE TypeOK'
  BY <1>14, <1>a DEF HintUnlocked, TypeOK
<1>15. ASSUME NEW p \in Partition, SetVersion(p) PROVE TypeOK'
  <2>1. PICK r \in config.sending, t \in Time :
            version_vector' = [version_vector EXCEPT ![p][r] = t]
    BY <1>15 DEF SetVersion
  <2>2. version_vector \in [Partition -> Vector] /\ r \in Replica
    BY <1>a, Tree DEF TypeOK
  <2>3. version_vector' \in [Partition -> Vector]
    BY <2>1, <2>2 DEF Vector
  <2>4. MaxVector(peak[p], version_vector'[p]) \in Vector
    BY <2>3, VectorOps DEF TypeOK
  <2> QED  BY <1>15, <1>a, <2>3, <2>4 DEF SetVersion, TypeOK
<1>16. CASE Next
  <2>1. PICK p \in Partition :
        \/ Round(p)
        \/ Chain(p)
        \/ SetVersion(p)
        \/ HandOutGst(p)
        \/ \E v \in Vector : HintLocked(p, v) \/ ForwardGet(p, v)
    BY <1>16 DEF Next
  <2> QED
    BY <1>2, <1>3, <1>4, <1>5, <1>6, <1>7, <1>8, <1>9, <1>10, <1>11, <1>12, <1>13, <1>14,
       <1>15, <2>1 DEF Round, Chain
<1> QED  BY <1>1, <1>16

LEMMA TypeInit == Init => TypeOK
<1> SUFFICES ASSUME Init PROVE TypeOK
  OBVIOUS
<1>1. Zero \in Vector
  BY GrvGstAssumption DEF Zero, Vector, Time
<1> QED  BY <1>1, EmptySeq DEF Init, TypeOK

\* Every variable keeps its type, in every configuration.
THEOREM TypeCorrect == Spec => []TypeOK
  BY TypeInit, TypeStep, PTL DEF Spec

-----------------------------------------------------------------------------
(***************************************************************************)
(* What a step leaves alone                                                *)
(***************************************************************************)

\* Nothing moves a bound: a peak only rises.
LEMMA BoundsStay ==
    ASSUME TypeOK, TypeOK', TreeSame, \A q \in Partition : Leq(peak[q], peak'[q])
    PROVE  /\ \A v \in Vector : Safe(v) => Safe(v)'
           /\ \A v \in Vector, p \in Partition : Covers(p, v) => Covers(p, v)'
<1>1. \A q \in Partition : peak[q] \in Vector /\ peak'[q] \in Vector
  BY DEF TypeOK, TreeSame
<1>2. \A q \in Partition, v \in Vector : Leq(v, peak[q]) => Leq(v, peak'[q])
  BY <1>1, VectorOps
<1>3. \A p : \A q \in Below(p) : q \in Partition
  BY DEF Below
<1>4. Partition' = Partition /\ \A p : Below(p)' = Below(p)
  BY DEF TreeSame
<1>5. ASSUME NEW v \in Vector, Safe(v) PROVE Safe(v)'
  BY <1>2, <1>4, <1>5 DEF Safe, Leq
<1>6. ASSUME NEW v \in Vector, NEW p \in Partition, Covers(p, v) PROVE Covers(p, v)'
  BY <1>2, <1>3, <1>4, <1>6 DEF Covers, Leq
<1> QED  BY <1>5, <1>6

LEMMA BoundsSame ==
    ASSUME TreeSame, UNCHANGED peak
    PROVE  /\ \A v : Safe(v)' <=> Safe(v)
           /\ \A v, p : Covers(p, v)' <=> Covers(p, v)
  BY DEF TreeSame, Safe, Covers, Leq

\* An edge stays where it is when nothing it depends on changes.
LEMMA EdgeFrame ==
    ASSUME TreeSame, NEW c \in Partition \ {0}, NEW ph, NEW new, EdgeAt(ph, c),
           new[c] = ph[c],
           new[Parent(c)] = "working" <=> ph[Parent(c)] = "working",
           start'[c] = start[c],
           lst_chan'[c] = lst_chan[c],
           gst_chan'[c] = gst_chan[c],
           IsLeaf(c) => gst_waits'[c] = gst_waits[c] /\ (lock'[c] = "gst" <=> lock[c] = "gst"),
           ChildIndex(c) \in lst_received'[Parent(c)]
                <=> ChildIndex(c) \in lst_received[Parent(c)]
    PROVE  EdgeAt(new, c)'
  BY DEF EdgeAt, LeafWorks, LeafRests, TreeSame

\* A step that is not of the rounds
LEMMA RoundsFrame ==
    ASSUME IInv, TreeSame,
           UNCHANGED <<start, lst_chan, gst_chan, lst_received, root_waits, gst_waits>>,
           \A p \in Partition : lock'[p] = "gst" <=> lock[p] = "gst",
           lock'[0] = "root" <=> lock[0] = "root"
    PROVE  Rounds' /\ Counted'
<1>1. PICK ph \in [Partition -> Phases] :
        RootAt(ph) /\ \A c \in Partition \ {0} : EdgeAt(ph, c)
  BY DEF IInv, Rounds
<1>2. \A c \in Partition \ {0} : EdgeAt(ph, c)'
  BY <1>1, EdgeFrame
<1>3. RootAt(ph)'
  <2>1. 0 \in Partition
    BY Tree DEF IInv, TypeOK
  <2> QED  BY <1>1, <2>1 DEF RootAt, TreeSame
<1>4. Rounds'
  BY <1>2, <1>3 DEF Rounds, TreeSame
<1>5. Counted'
  BY DEF IInv, Counted, TreeSame
<1> QED  BY <1>4, <1>5

\* grv_update_gst_vector with a safe vector
LEMMA UpdateSafe ==
    ASSUME TypeOK, \A q \in Partition : Safe(gst_vector[q]), NEW p \in Partition,
           NEW v \in Vector, Safe(v), UpdateGstVector(p, v)
    PROVE  \A q \in Partition : Safe(gst_vector'[q])
<1>1. /\ gst_vector'[p] = MaxVector(gst_vector[p], v)
      /\ \A q \in Partition : q # p => gst_vector'[q] = gst_vector[q]
  BY UpdateGstVectorType
<1>2. gst_vector[p] \in Vector /\ \A q \in Partition : peak[q] \in Vector
  BY DEF TypeOK
<1>3. \A q \in Partition : Leq(MaxVector(gst_vector[p], v), peak[q])
  <2> TAKE q \in Partition
  <2>1. Leq(gst_vector[p], peak[q]) /\ Leq(v, peak[q])
    BY DEF Safe
  <2> QED  BY <1>2, <2>1, VectorOps
<1>4. Safe(MaxVector(gst_vector[p], v))
  BY <1>3 DEF Safe
<1> QED  BY <1>1, <1>4

\* A step that only raises a GST vector, to something safe, or hands one out
LEMMA GstFrame ==
    ASSUME IInv, TreeSame, \A q \in Partition : Safe(gst_vector'[q]), Safe(known'),
           UNCHANGED <<version_vector, min_lst_vector, lst_received, root_waits, lst_chan,
                       gst_chan, peak>>,
           \A q \in Partition : gst_waits'[q] \subseteq gst_waits[q]
    PROVE  Values'
<1>1. /\ \A v : Safe(v)' <=> Safe(v)
      /\ \A v, p : Covers(p, v)' <=> Covers(p, v)
  BY BoundsSame
<1>2. Values /\ Partition' = Partition
  BY DEF IInv, TreeSame
<1>3. \A p \in Partition : Leq(version_vector[p], peak[p])'
  BY <1>2 DEF Values, Leq
<1> QED  BY <1>1, <1>2, <1>3 DEF Values

-----------------------------------------------------------------------------
(***************************************************************************)
(* Steps that are not of the rounds                                        *)
(***************************************************************************)
LEMMA SetVersionOk ==
    ASSUME IInv, TypeOK', TreeSame, NEW p \in Partition, SetVersion(p)
    PROVE  (Rounds /\ Counted /\ Values)'
<1> USE DEF state, chans, locks
<1>1. UNCHANGED <<config, gst_vector, min_lst_vector, lst_received, chans, locks>>
  BY DEF SetVersion
<1>2. Rounds' /\ Counted'
  BY <1>1, RoundsFrame
<1>3. \A q \in Partition : Leq(peak[q], peak'[q]) /\ Leq(version_vector'[q], peak'[q])
  <2> SUFFICES ASSUME NEW q \in Partition
               PROVE  Leq(peak[q], peak'[q]) /\ Leq(version_vector'[q], peak'[q])
    OBVIOUS
  <2>1. /\ peak[q] \in Vector /\ peak'[q] \in Vector /\ version_vector'[q] \in Vector
        /\ peak \in [Partition -> Vector] /\ version_vector \in [Partition -> Vector]
    BY DEF IInv, TypeOK, TreeSame
  <2>2. CASE q = p
    <3>1. peak'[q] = MaxVector(peak[q], version_vector'[q])
      BY <2>1, <2>2 DEF SetVersion
    <3> QED  BY <2>1, <3>1, VectorOps
  <2>3. CASE q # p
    <3>1. peak'[q] = peak[q] /\ version_vector'[q] = version_vector[q]
      BY <2>1, <2>3 DEF SetVersion
    <3>2. Leq(version_vector[q], peak[q])
      BY DEF IInv, Values
    <3> QED  BY <2>1, <3>1, <3>2, VectorOps
  <2> QED  BY <2>2, <2>3
<1>4. /\ \A v \in Vector : Safe(v) => Safe(v)'
      /\ \A v \in Vector, q \in Partition : Covers(q, v) => Covers(q, v)'
  BY <1>3, BoundsStay DEF IInv
<1>5. /\ known \in Vector /\ \A q \in Partition :
            /\ gst_vector[q] \in Vector /\ min_lst_vector[q] \in Vector
            /\ \A v \in gst_waits[q] : v \in Vector
  BY DEF IInv, TypeOK
<1>6. \A c \in Partition \ {0} : Parent(c) \in Partition
  BY Tree DEF IInv, TypeOK
<1>7. 0 \in Partition
  BY Tree DEF IInv, TypeOK
<1>8. Values /\ Partition' = Partition
  BY DEF IInv, TreeSame
<1>9. /\ \A q \in Partition :
            /\ Leq(version_vector[q], peak[q])'
            /\ Safe(gst_vector[q])'
            /\ \A v \in gst_waits'[q] : Safe(v)'
            /\ \A v \in Vector : gst_chan'[q] = <<v>> => Safe(v)'
      /\ Safe(known)'
      /\ root_waits' => Safe(min_lst_vector[0])'
  BY <1>1, <1>3, <1>4, <1>5, <1>7, <1>8 DEF Values, Leq
<1>10. \A c \in Partition \ {0} :
        /\ \A v \in Vector : lst_chan'[c] = <<v>> => Covers(c, v)'
        /\ ChildIndex(c) \in lst_received'[Parent(c)]
             => Covers(c, min_lst_vector[Parent(c)])'
  BY <1>1, <1>4, <1>5, <1>6, <1>8 DEF Values
<1>11. Values'
  BY <1>8, <1>9, <1>10 DEF Values
<1> QED  BY <1>2, <1>11

\* What a client presents is safe, as it has been handed out.
LEMMA PresentedSafe ==
    ASSUME IInv, NEW v \in Vector, Leq(v, known)
    PROVE  Safe(v)
<1>1. known \in Vector /\ \A q \in Partition : peak[q] \in Vector
  BY DEF IInv, TypeOK
<1>2. \A q \in Partition : Leq(known, peak[q])
  BY DEF IInv, Values, Safe
<1>3. \A q \in Partition : Leq(v, peak[q])
  BY <1>1, <1>2, VectorOps
<1> QED  BY <1>3 DEF Safe

LEMMA HintsOk ==
    ASSUME IInv, TreeSame, NEW p \in Partition,
           \/ HandOutGst(p)
           \/ HintUnlocked(p)
           \/ StartGstComputationAlone(p)
           \/ \E v \in Vector : HintLocked(p, v) \/ ForwardGet(p, v)
    PROVE  (Rounds /\ Counted /\ Values)'
<1> USE DEF state, chans, locks
<1>1. /\ TypeOK /\ Values /\ 0 \in Partition
      /\ lock \in [Partition -> {"free", "root", "gst", "hint"}]
  BY Tree DEF IInv, TypeOK
<1>2. CASE HandOutGst(p)
  <2>1. /\ UNCHANGED <<state, start, lst_chan, gst_chan, locks, peak>>
        /\ known' = MaxVector(known, gst_vector[p])
    BY <1>2 DEF HandOutGst
  <2>2. Safe(known')
    <3>1. known \in Vector /\ gst_vector[p] \in Vector /\ \A q \in Partition : peak[q] \in Vector
      BY <1>1 DEF TypeOK
    <3>2. \A q \in Partition : Leq(known, peak[q]) /\ Leq(gst_vector[p], peak[q])
      BY <1>1 DEF Values, Safe
    <3>3. \A q \in Partition : Leq(MaxVector(known, gst_vector[p]), peak[q])
      BY <3>1, <3>2, VectorOps
    <3> QED  BY <2>1, <3>3 DEF Safe
  <2>3. Values'
    BY <1>1, <2>1, <2>2, GstFrame DEF Values
  <2>4. Rounds' /\ Counted'
    BY <2>1, RoundsFrame
  <2> QED  BY <2>3, <2>4
<1>3. CASE HintUnlocked(p)
  <2>1. /\ UNCHANGED <<state, chans, root_waits, gst_waits, peak>>
        /\ lock[p] = "hint" /\ lock' = [lock EXCEPT ![p] = "free"]
    BY <1>3 DEF HintUnlocked
  <2>2. Values'
    BY <1>1, <2>1, GstFrame DEF Values
  <2>3. Rounds' /\ Counted'
    BY <1>1, <2>1, RoundsFrame
  <2> QED  BY <2>2, <2>3
<1>4. ASSUME NEW v \in Vector, HintLocked(p, v) \/ ForwardGet(p, v)
      PROVE  (Rounds /\ Counted /\ Values)'
  <2>1. /\ UNCHANGED <<config, version_vector, min_lst_vector, lst_received, chans, root_waits,
                       gst_waits, peak>>
        /\ UpdateGstVector(p, v) /\ Leq(v, known)
        /\ \/ lock' = lock
           \/ lock[p] = "free" /\ lock' = [lock EXCEPT ![p] = "hint"]
    BY <1>4 DEF HintLocked, ForwardGet
  <2>2. \A q \in Partition : Safe(gst_vector'[q])
    BY <1>1, <2>1, PresentedSafe, UpdateSafe DEF Values
  <2>3. Values'
    BY <1>1, <2>1, <2>2, GstFrame DEF Values
  <2>4. Rounds' /\ Counted'
    BY <1>1, <2>1, RoundsFrame
  <2> QED  BY <2>3, <2>4
<1>5. CASE StartGstComputationAlone(p)
  <2>1. /\ UNCHANGED <<config, version_vector, min_lst_vector, lst_received, chans, locks, peak>>
        /\ UpdateGstVector(p, version_vector[p]) /\ p = 0 /\ start[p] > 0
    BY <1>5 DEF StartGstComputationAlone
  <2>2. Partition = {p}
    BY <2>1, Tree DEF IInv, Rounds, RootAt, TypeOK
  <2>3. version_vector[p] \in Vector /\ Safe(version_vector[p])
    BY <1>1, <2>2 DEF Values, Safe, TypeOK
  <2>4. \A q \in Partition : Safe(gst_vector'[q])
    BY <1>1, <2>1, <2>3, UpdateSafe DEF Values
  <2>5. Values'
    BY <1>1, <2>1, <2>4, GstFrame DEF Values
  <2>6. Rounds' /\ Counted'
    BY <1>1, <2>1, RoundsFrame
  <2> QED  BY <2>5, <2>6
<1> QED  BY <1>2, <1>3, <1>4, <1>5

-----------------------------------------------------------------------------
(***************************************************************************)
(* The way up                                                              *)
(***************************************************************************)

\* A leaf reports: it goes from working to sent.
LEMMA StartOk ==
    ASSUME IInv, TypeOK', TreeSame, NEW p \in Partition, StartGstComputation(p)
    PROVE  (Rounds /\ Counted /\ Values)'
<1> USE DEF state, chans, locks
<1> DEFINE lst == version_vector[p]
<1>1. /\ p # 0 /\ start[p] > 0
      /\ lst_chan' = [lst_chan EXCEPT ![p] = Append(@, lst)]
      /\ start' = [start EXCEPT ![p] = @ - 1]
      /\ UNCHANGED <<state, gst_chan, known, locks, peak>>
  BY DEF StartGstComputation
<1>2. /\ config \in Configs /\ TypeOK /\ Values /\ Counted
      /\ start \in [Partition -> Nat] /\ lst_chan \in [Partition -> Seq(Vector)]
      /\ lst \in Vector
  BY DEF IInv, TypeOK
<1>3. PICK ph \in [Partition -> Phases] :
        RootAt(ph) /\ \A c \in Partition \ {0} : EdgeAt(ph, c)
  BY DEF IInv, Rounds
<1>4. EdgeAt(ph, p)
  BY <1>1, <1>3
<1>5. /\ IsLeaf(p) /\ ph[p] = "working" /\ start[p] = 1 /\ lst_chan[p] = <<>>
      /\ gst_chan[p] = <<>> /\ gst_waits[p] = {} /\ lock[p] # "gst"
      /\ ph[Parent(p)] = "working" /\ ChildIndex(p) \notin lst_received[Parent(p)]
  BY <1>1, <1>4 DEF EdgeAt, LeafWorks, LeafRests
<1>6. /\ Parent(p) \in Partition /\ Parent(p) # p /\ 0 \in Partition
      /\ \A c \in Partition \ {0} : Parent(c) \in Partition /\ Parent(c) # p
  BY <1>1, <1>2, <1>5, Tree
<1>7. lst_chan'[p] = <<lst>> /\ start'[p] = 0
  BY <1>1, <1>2, <1>5, OneMessage
<1> DEFINE new == [ph EXCEPT ![p] = "sent"]
<1>8. /\ new \in [Partition -> Phases] /\ new[p] = "sent"
      /\ \A q \in Partition : q # p => new[q] = ph[q]
  BY DEF Phases
<1> HIDE DEF new, lst
<1>9. EdgeAt(new, p)'
  BY <1>1, <1>2, <1>5, <1>6, <1>7, <1>8 DEF EdgeAt, LeafRests, TreeSame
<1>10. ASSUME NEW c \in Partition \ {0}, c # p PROVE EdgeAt(new, c)'
  <2>1. start'[c] = start[c] /\ lst_chan'[c] = lst_chan[c]
    BY <1>1, <1>2, <1>10
  <2>2. EdgeAt(ph, c) /\ new[c] = ph[c] /\ new[Parent(c)] = ph[Parent(c)]
    BY <1>3, <1>6, <1>8, <1>10
  <2> QED  BY <1>1, <2>1, <2>2, EdgeFrame
<1>11. RootAt(new)'
  <2>1. start'[0] = start[0] /\ lst_chan'[0] = lst_chan[0] /\ new[0] = ph[0]
    BY <1>1, <1>2, <1>6, <1>8
  <2> QED  BY <1>1, <1>3, <2>1 DEF RootAt, TreeSame
<1>12. Rounds'
  BY <1>8, <1>9, <1>10, <1>11 DEF Rounds, TreeSame
<1>13. Counted'
  BY <1>1, <1>2 DEF Counted, TreeSame
<1>14. Covers(p, lst)
  BY <1>2, <1>5, BelowLeaf DEF Covers, Values, lst
<1>15. Values'
  <2>1. /\ \A v : Safe(v)' <=> Safe(v)
        /\ \A v, q : Covers(q, v)' <=> Covers(q, v)
    BY <1>1, BoundsSame
  <2>2. Partition' = Partition
    BY DEF TreeSame
  <2>3. \A q \in Partition : Leq(version_vector[q], peak[q])'
    BY <1>1, <1>2 DEF Values, Leq
  <2>4. ASSUME NEW c \in Partition \ {0}, NEW v \in Vector, lst_chan'[c] = <<v>>
        PROVE  Covers(c, v)
    <3>1. CASE c = p
      <4>1. v = lst
        BY <1>2, <1>7, <2>4, <3>1, OneMessage
      <4> QED  BY <1>14, <3>1, <4>1
    <3>2. CASE c # p
      <4>1. lst_chan[c] = <<v>>
        BY <1>1, <1>2, <2>4, <3>2
      <4> QED  BY <1>2, <4>1 DEF Values
    <3> QED  BY <3>1, <3>2
  <2> QED  BY <1>1, <1>2, <2>1, <2>2, <2>3, <2>4 DEF Values
<1> QED  BY <1>12, <1>13, <1>15

\* A parent counts a report that is not the last: the child goes from sent to
\* counted.
LEMMA LstOk ==
    ASSUME IInv, TypeOK', TreeSame, NEW c \in Partition \ {0}, ProcessLstFromLeaf(c)
    PROVE  (Rounds /\ Counted /\ Values)'
<1> USE DEF state, chans, locks
<1> DEFINE p == Parent(c)
           lst == Head(lst_chan[c])
           min == IF lst_received[p] = {} THEN lst ELSE MinVector(min_lst_vector[p], lst)
<1>1. /\ lst_chan[c] # <<>> /\ ChildIndex(c) \notin lst_received[p]
      /\ min_lst_vector' = [min_lst_vector EXCEPT ![p] = min]
      /\ lst_received' = [lst_received EXCEPT ![p] = @ \cup {ChildIndex(c)}]
      /\ lst_chan' = [lst_chan EXCEPT ![c] = Tail(@)]
      /\ UNCHANGED <<config, version_vector, gst_vector, start, gst_chan, known, locks, peak>>
  BY DEF ProcessLstFromLeaf
<1>2. /\ config \in Configs /\ TypeOK /\ Values /\ Counted
      /\ min_lst_vector \in [Partition -> Vector]
      /\ lst_received \in [Partition -> SUBSET Slot]
      /\ lst_chan \in [Partition -> Seq(Vector)]
      /\ \A q \in Partition : peak[q] \in Vector
  BY DEF IInv, TypeOK
<1>3. /\ p \in Partition /\ p # c /\ 0 \in Partition
      /\ \A d \in Partition \ {0} : Parent(d) \in Partition
  BY <1>2, Tree
<1>4. PICK ph \in [Partition -> Phases] :
        RootAt(ph) /\ \A d \in Partition \ {0} : EdgeAt(ph, d)
  BY DEF IInv, Rounds
<1>5. EdgeAt(ph, c)
  BY <1>4
<1>6. /\ ph[c] = "sent" /\ ph[p] = "working" /\ gst_chan[c] = <<>>
      /\ IsLeaf(c) => LeafRests(c)
      /\ ~IsLeaf(c) => start[c] = 0
  BY <1>1, <1>5 DEF EdgeAt
<1>7. PICK u \in Vector : lst_chan[c] = <<u>>
  BY <1>5, <1>6 DEF EdgeAt
<1>8. lst = u /\ Tail(lst_chan[c]) = <<>> /\ Covers(c, u)
  BY <1>2, <1>7, OneMessage DEF Values
<1>9. /\ min \in Vector /\ Leq(min, u)
      /\ lst_received[p] # {} => Leq(min, min_lst_vector[p])
  <2>1. min_lst_vector[p] \in Vector
    BY <1>2, <1>3
  <2>2. min = IF lst_received[p] = {} THEN u ELSE MinVector(min_lst_vector[p], u)
    BY <1>8
  <2> HIDE DEF min
  <2> QED  BY <2>1, <2>2, MinSoFar
<1> HIDE DEF p, lst, min
<1> DEFINE new == [ph EXCEPT ![c] = "counted"]
<1>10. /\ new \in [Partition -> Phases] /\ new[c] = "counted"
       /\ \A q \in Partition : q # c => new[q] = ph[q]
  BY DEF Phases
<1> HIDE DEF new
<1>11. /\ lst_chan'[c] = <<>> /\ min_lst_vector'[p] = min
       /\ lst_received'[p] = lst_received[p] \cup {ChildIndex(c)}
       /\ \A q \in Partition : q # p => /\ min_lst_vector'[q] = min_lst_vector[q]
                                        /\ lst_received'[q] = lst_received[q]
       /\ \A q \in Partition : q # c => lst_chan'[q] = lst_chan[q]
  BY <1>1, <1>2, <1>3, <1>8
<1>12. EdgeAt(new, c)'
  BY <1>1, <1>3, <1>6, <1>10, <1>11 DEF EdgeAt, LeafRests, TreeSame, p
<1>13. ASSUME NEW d \in Partition \ {0}, d # c
       PROVE  ChildIndex(d) \in lst_received'[Parent(d)]
                <=> ChildIndex(d) \in lst_received[Parent(d)]
  <2>1. CASE Parent(d) = p
    <3>1. ChildIndex(d) # ChildIndex(c)
      BY <1>2, <1>13, <2>1, Tree DEF p
    <3> QED  BY <1>11, <2>1, <3>1
  <2>2. CASE Parent(d) # p
    BY <1>3, <1>11, <2>2
  <2> QED  BY <2>1, <2>2
<1>14. ASSUME NEW d \in Partition \ {0}, d # c PROVE EdgeAt(new, d)'
  <2>1. EdgeAt(ph, d) /\ new[d] = ph[d] /\ lst_chan'[d] = lst_chan[d]
    BY <1>4, <1>10, <1>11, <1>14
  <2>2. new[Parent(d)] = "working" <=> ph[Parent(d)] = "working"
    <3>1. CASE Parent(d) = c
      BY <1>6, <1>10, <3>1
    <3>2. CASE Parent(d) # c
      BY <1>3, <1>10, <3>2
    <3> QED  BY <3>1, <3>2
  <2> QED  BY <1>1, <1>13, <1>14, <2>1, <2>2, EdgeFrame
<1>15. RootAt(new)'
  BY <1>1, <1>3, <1>4, <1>10, <1>11 DEF RootAt, TreeSame
<1>16. Rounds'
  BY <1>10, <1>12, <1>14, <1>15 DEF Rounds, TreeSame
<1>17. Counted'
  <2>1. ASSUME NEW q \in Partition, NEW i \in lst_received'[q]
        PROVE  \E d \in Partition \ {0} : Parent(d) = q /\ ChildIndex(d) = i
    <3>1. CASE i \in lst_received[q]
      BY <1>2, <3>1 DEF Counted
    <3>2. CASE i \notin lst_received[q]
      <4>1. q = p /\ i = ChildIndex(c)
        BY <1>11, <2>1, <3>2
      <4> QED  BY <4>1 DEF p
    <3> QED  BY <3>1, <3>2
  <2> QED  BY <2>1 DEF Counted, TreeSame
<1>18. ~root_waits \/ p # 0
  BY <1>4, <1>6 DEF RootAt
<1>19. ASSUME NEW d \in Partition \ {0}, ChildIndex(d) \in lst_received'[Parent(d)]
       PROVE  Covers(d, min_lst_vector'[Parent(d)])
  <2>0. \A q \in Below(d) : q \in Partition
    BY DEF Below
  <2>1. CASE d = c
    <3>1. \A q \in Below(c) : Leq(u, peak[q])
      BY <1>8 DEF Covers
    <3>2. \A q \in Below(c) : Leq(min, peak[q])
      BY <1>2, <1>9, <2>0, <2>1, <3>1, VectorOps
    <3> QED  BY <1>11, <2>1, <3>2 DEF Covers, p
  <2>2. CASE d # c /\ Parent(d) = p
    <3>1. ChildIndex(d) \in lst_received[p]
      BY <1>13, <1>19, <2>2
    <3>2. Covers(d, min_lst_vector[p]) /\ lst_received[p] # {}
      BY <1>2, <2>2, <3>1 DEF Values
    <3>3. \A q \in Below(d) : Leq(min_lst_vector[p], peak[q])
      BY <3>2 DEF Covers
    <3>4. min_lst_vector[p] \in Vector
      BY <1>2, <1>3
    <3>5. \A q \in Below(d) : Leq(min, peak[q])
      BY <1>2, <1>9, <2>0, <3>2, <3>3, <3>4, VectorOps
    <3> QED  BY <1>11, <2>2, <3>5 DEF Covers
  <2>3. CASE Parent(d) # p
    <3>1. /\ min_lst_vector'[Parent(d)] = min_lst_vector[Parent(d)]
          /\ lst_received'[Parent(d)] = lst_received[Parent(d)]
      BY <1>3, <1>11, <2>3
    <3> QED  BY <1>2, <1>19, <3>1 DEF Values
  <2> QED  BY <2>1, <2>2, <2>3 DEF p
<1>20. Values'
  <2>1. /\ \A v : Safe(v)' <=> Safe(v)
        /\ \A v, q : Covers(q, v)' <=> Covers(q, v)
    BY <1>1, BoundsSame
  <2>2. Partition' = Partition
    BY DEF TreeSame
  <2>3. \A q \in Partition : Leq(version_vector[q], peak[q])'
    BY <1>1, <1>2 DEF Values, Leq
  <2>4. ASSUME NEW d \in Partition \ {0}, NEW v \in Vector, lst_chan'[d] = <<v>>
        PROVE  Covers(d, v)
    <3>1. d # c
      BY <1>11, <2>4, OneMessage
    <3>2. lst_chan[d] = <<v>>
      BY <1>11, <2>4, <3>1
    <3> QED  BY <1>2, <3>2 DEF Values
  <2>5. root_waits' => Safe(min_lst_vector'[0])
    <3>1. root_waits' => root_waits /\ min_lst_vector'[0] = min_lst_vector[0]
      BY <1>1, <1>3, <1>11, <1>18
    <3> QED  BY <1>2, <3>1 DEF Values
  <2> QED  BY <1>1, <1>2, <1>19, <2>1, <2>2, <2>3, <2>4, <2>5 DEF Values
<1> QED  BY <1>16, <1>17, <1>20

\* With one report missing, every other child has been counted.
LEMMA OthersCounted ==
    ASSUME config \in Configs, Counted, NEW c \in Partition \ {0},
           ChildIndex(c) \notin lst_received[Parent(c)],
           Cardinality(lst_received[Parent(c)]) = NumChildren(Parent(c)) - 1,
           NEW d \in Partition \ {0}, Parent(d) = Parent(c), d # c
    PROVE  ChildIndex(d) \in lst_received[Parent(c)]
<1> DEFINE p   == Parent(c)
           R   == lst_received[p]
           I   == 0 .. NumChildren(p) - 1
           all == R \cup {ChildIndex(c)}
<1>1. p \in Partition /\ NumChildren(p) \in Nat
  BY Tree
<1>2. /\ ChildIndex(c) \in I /\ ChildIndex(d) \in I
      /\ ChildIndex(c) # ChildIndex(d)
  BY Tree
<1>3. \A i \in R : i \in I
  <2> TAKE i \in R
  <2>1. PICK e \in Partition \ {0} : Parent(e) = p /\ ChildIndex(e) = i
    BY <1>1 DEF Counted
  <2>2. ChildIndex(e) \in 0 .. NumChildren(Parent(e)) - 1
    BY Tree
  <2> QED  BY <2>1, <2>2
<1> HIDE DEF p
<1>4. IsFiniteSet(I) /\ Cardinality(I) = NumChildren(p)
  <2>1. 0 \in Int /\ NumChildren(p) - 1 \in Int
    BY <1>1
  <2>2. /\ IsFiniteSet(I)
        /\ Cardinality(I) = IF 0 > NumChildren(p) - 1 THEN 0
                            ELSE (NumChildren(p) - 1) - 0 + 1
    BY <2>1, FS_Interval
  <2> QED  BY <1>1, <2>2
<1>5. IsFiniteSet(R)
  BY <1>3, <1>4, FS_Subset
<1>6. Cardinality(all) = Cardinality(R) + 1
  BY <1>5, FS_AddElement DEF p
<1>7. Cardinality(all) = Cardinality(I)
  BY <1>1, <1>4, <1>6 DEF p
<1>8. all \in SUBSET I
  BY <1>2, <1>3
<1> HIDE DEF I, R, all
<1>9. all = I
  BY <1>4, <1>7, <1>8, FS_Subset
<1> QED  BY <1>2, <1>9 DEF all, R, p

\* The phases after the last report has reached p
Reported(ph, p) ==
    [q \in Partition |-> IF q = p THEN IF p = 0 THEN "waiting" ELSE "sent"
                         ELSE IF q # 0 /\ Parent(q) = p THEN "waiting" ELSE ph[q]]

\* The last report: all children wait from now on, and the parent goes from
\* working to sent, or the root to waiting.
LEMMA LastLstOk ==
    ASSUME IInv, TypeOK', TreeSame, NEW c \in Partition \ {0}, ProcessLastLstFromLeaf(c)
    PROVE  (Rounds /\ Counted /\ Values)'
<1> USE DEF state, chans, locks
<1> DEFINE p     == Parent(c)
           lst   == Head(lst_chan[c])
           below == IF lst_received[p] = {} THEN lst ELSE MinVector(min_lst_vector[p], lst)
           min   == MinVector(below, version_vector[p])
           taken == [lst_chan EXCEPT ![c] = Tail(@)]
<1>1. /\ lst_chan[c] # <<>> /\ ChildIndex(c) \notin lst_received[p]
      /\ Cardinality(lst_received[p]) = NumChildren(p) - 1
      /\ min_lst_vector' = [min_lst_vector EXCEPT ![p] = min]
      /\ lst_received' = [lst_received EXCEPT ![p] = {}]
      /\ p = 0 => root_waits' = TRUE /\ lst_chan' = taken
      /\ p # 0 => lst_chan' = [taken EXCEPT ![p] = Append(@, min)] /\ root_waits' = root_waits
      /\ UNCHANGED <<config, version_vector, gst_vector, start, gst_chan, known, lock,
                     gst_waits, peak>>
  BY DEF ProcessLastLstFromLeaf
<1>2. /\ config \in Configs /\ TypeOK /\ Values /\ Counted
      /\ min_lst_vector \in [Partition -> Vector]
      /\ lst_received \in [Partition -> SUBSET Slot]
      /\ lst_chan \in [Partition -> Seq(Vector)]
      /\ \A q \in Partition : peak[q] \in Vector /\ version_vector[q] \in Vector
  BY DEF IInv, TypeOK
<1>3. /\ p \in Partition /\ p # c /\ 0 \in Partition /\ ~IsLeaf(p)
      /\ \A d \in Partition \ {0} : /\ Parent(d) \in Partition /\ Parent(d) # d
                                    /\ Parent(Parent(d)) # d
  BY <1>2, Tree
<1>4. PICK ph \in [Partition -> Phases] :
        RootAt(ph) /\ \A d \in Partition \ {0} : EdgeAt(ph, d)
  BY DEF IInv, Rounds
<1>5. EdgeAt(ph, c)
  BY <1>4
<1>6. ph[c] = "sent" /\ ph[p] = "working"
  BY <1>1, <1>5 DEF EdgeAt
<1>7. PICK u \in Vector : lst_chan[c] = <<u>>
  BY <1>5, <1>6 DEF EdgeAt
<1>8. lst = u /\ Tail(lst_chan[c]) = <<>> /\ Covers(c, u)
  BY <1>2, <1>7, OneMessage DEF Values
<1>9. /\ min \in Vector /\ Leq(min, u) /\ Leq(min, version_vector[p])
      /\ lst_received[p] # {} => Leq(min, min_lst_vector[p])
  <2>1. min_lst_vector[p] \in Vector /\ version_vector[p] \in Vector
    BY <1>2, <1>3
  <2>2. below = IF lst_received[p] = {} THEN u ELSE MinVector(min_lst_vector[p], u)
    BY <1>8
  <2> HIDE DEF below
  <2>3. /\ below \in Vector /\ Leq(below, u)
        /\ lst_received[p] # {} => Leq(below, min_lst_vector[p])
    BY <2>1, <2>2, MinSoFar
  <2>4. min \in Vector /\ Leq(min, below) /\ Leq(min, version_vector[p])
    BY <2>1, <2>3, VectorOps
  <2> HIDE DEF min
  <2> QED  BY <2>1, <2>3, <2>4, VectorOps
<1> HIDE DEF p, lst, below, min
<1>10. \A d \in Partition \ {0} : Parent(d) = p /\ d # c =>
            /\ ChildIndex(d) \in lst_received[p] /\ ph[d] = "counted"
  <2> SUFFICES ASSUME NEW d \in Partition \ {0}, Parent(d) = p, d # c
               PROVE  ChildIndex(d) \in lst_received[p] /\ ph[d] = "counted"
    OBVIOUS
  <2>1. ChildIndex(d) \in lst_received[p]
    BY <1>1, <1>2, OthersCounted DEF p
  <2>2. EdgeAt(ph, d)
    BY <1>4
  <2> QED  BY <2>1, <2>2 DEF EdgeAt
<1>11. /\ lst_received'[p] = {} /\ min_lst_vector'[p] = min
       /\ \A q \in Partition : q # p => /\ lst_received'[q] = lst_received[q]
                                        /\ min_lst_vector'[q] = min_lst_vector[q]
  BY <1>1, <1>2, <1>3
<1>12. /\ taken[c] = <<>> /\ taken \in [Partition -> Seq(Vector)]
       /\ \A q \in Partition : q # c => taken[q] = lst_chan[q]
  <2>1. Tail(lst_chan[c]) = <<>> /\ <<>> \in Seq(Vector)
    BY <1>8, EmptySeq
  <2>2. taken = [lst_chan EXCEPT ![c] = <<>>]
    BY <2>1
  <2> HIDE DEF taken
  <2> QED  BY <1>2, <2>1, <2>2
<1> HIDE DEF taken
<1>13. /\ lst_chan'[c] = <<>>
       /\ \A q \in Partition : q # c /\ q # p => lst_chan'[q] = lst_chan[q]
       /\ p # 0 => lst_chan'[p] = <<min>>
       /\ p = 0 => lst_chan'[p] = lst_chan[p]
  <2>1. p # 0 => lst_chan[p] = <<>>
    <3>1. p # 0 => EdgeAt(ph, p)
      BY <1>3, <1>4
    <3> QED  BY <1>6, <3>1 DEF EdgeAt
  <2>2. Append(<<>>, min) = <<min>>
    BY <1>9, OneMessage
  <2> QED  BY <1>1, <1>3, <1>12, <2>1, <2>2
<1>14. PICK new \in [Partition -> Phases] :
       /\ new[p] = IF p = 0 THEN "waiting" ELSE "sent"
       /\ \A q \in Partition \ {0} : Parent(q) = p /\ q # p => new[q] = "waiting"
       /\ \A q \in Partition : q # p /\ (q = 0 \/ Parent(q) # p) => new[q] = ph[q]
  <2> DEFINE new == Reported(ph, p)
  <2>1. /\ new \in [Partition -> Phases]
        /\ new[p] = IF p = 0 THEN "waiting" ELSE "sent"
        /\ \A q \in Partition \ {0} : Parent(q) = p /\ q # p => new[q] = "waiting"
        /\ \A q \in Partition : q # p /\ (q = 0 \/ Parent(q) # p) => new[q] = ph[q]
    BY <1>3 DEF Reported, Phases
  <2> HIDE DEF new
  <2> QED  BY <2>1
<1>15. ASSUME NEW d \in Partition \ {0} PROVE EdgeAt(new, d)'
  <2>0. EdgeAt(ph, d)
    BY <1>4
  <2>1. CASE Parent(d) = p
    <3>1. d # p /\ new[d] = "waiting" /\ new[p] # "working"
      BY <1>3, <1>14, <2>1
    <3>2. lst_chan'[d] = <<>>
      BY <1>10, <1>13, <2>0, <2>1, <3>1 DEF EdgeAt
    <3>3. ph[d] \in {"sent", "counted"}
      BY <1>6, <1>10, <2>1
    <3>4. gst_chan[d] = <<>> /\ (IsLeaf(d) => LeafRests(d)) /\ (~IsLeaf(d) => start[d] = 0)
      BY <2>0, <3>3 DEF EdgeAt
    <3> QED  BY <1>1, <1>11, <2>1, <3>1, <3>2, <3>4 DEF EdgeAt, LeafRests, TreeSame
  <2>2. CASE d = p
    <3>1. /\ Parent(p) \in Partition /\ Parent(p) # p /\ p # 0
          /\ Parent(p) = 0 \/ Parent(Parent(p)) # p
      BY <1>3, <2>2
    <3>2. new[p] = "sent" /\ new[Parent(p)] = ph[Parent(p)]
      BY <1>14, <3>1
    <3>3. /\ ph[Parent(p)] = "working" /\ gst_chan[p] = <<>> /\ start[p] = 0
          /\ ChildIndex(p) \notin lst_received[Parent(p)]
      BY <1>3, <1>6, <2>0, <2>2 DEF EdgeAt
    <3>4. lst_chan'[p] = <<min>> /\ lst_received'[Parent(p)] = lst_received[Parent(p)]
      BY <1>11, <1>13, <3>1
    <3> QED  BY <1>1, <1>3, <1>9, <2>2, <3>2, <3>3, <3>4 DEF EdgeAt, TreeSame
  <2>3. CASE Parent(d) # p /\ d # p
    <3>1. d # c /\ lst_chan'[d] = lst_chan[d] /\ new[d] = ph[d]
      BY <1>13, <1>14, <2>3 DEF p
    <3>2. lst_received'[Parent(d)] = lst_received[Parent(d)]
      BY <1>3, <1>11, <2>3
    <3>3. new[Parent(d)] = "working" <=> ph[Parent(d)] = "working"
      <4>1. CASE Parent(d) # 0 /\ Parent(Parent(d)) = p
        <5>1. new[Parent(d)] = "waiting"
          BY <1>3, <1>14, <2>3, <4>1
        <5>2. ph[Parent(d)] \in {"sent", "counted"}
          BY <1>3, <1>6, <1>10, <4>1
        <5> QED  BY <5>1, <5>2
      <4>2. CASE Parent(d) = 0 \/ Parent(Parent(d)) # p
        BY <1>3, <1>14, <2>3, <4>2
      <4> QED  BY <4>1, <4>2
    <3> QED  BY <1>1, <2>0, <3>1, <3>2, <3>3, EdgeFrame
  <2> QED  BY <2>1, <2>2, <2>3
<1>16. RootAt(new)'
  <2>1. lst_chan'[0] = lst_chan[0]
    BY <1>3, <1>13
  <2>2. CASE p = 0
    <3>1. root_waits' = TRUE /\ lock[0] # "root" /\ new[0] = "waiting"
      BY <1>1, <1>4, <1>6, <1>14, <2>2 DEF RootAt
    <3> QED  BY <1>1, <1>4, <2>1, <3>1 DEF RootAt, TreeSame
  <2>3. CASE p # 0
    <3>1. root_waits' = root_waits /\ new[0] = ph[0]
      BY <1>1, <1>3, <1>14, <2>3
    <3> QED  BY <1>1, <1>4, <2>1, <3>1 DEF RootAt, TreeSame
  <2> QED  BY <2>2, <2>3
<1>17. Rounds'
  BY <1>14, <1>15, <1>16 DEF Rounds, TreeSame
<1>18. Counted'
  <2>1. \A q \in Partition : \A i \in lst_received'[q] : i \in lst_received[q]
    BY <1>11
  <2> QED  BY <1>2, <2>1 DEF Counted, TreeSame
<1>19. Covers(p, min)
  <2> SUFFICES ASSUME NEW q \in Below(p) PROVE Leq(min, peak[q])
    BY DEF Covers
  <2>1. q \in Partition /\ peak[q] \in Vector
    BY <1>2 DEF Below
  <2>2. CASE q = p
    <3>1. version_vector[p] \in Vector /\ Leq(version_vector[p], peak[p])
      BY <1>2, <1>3 DEF Values
    <3>2. peak[p] \in Vector /\ Leq(min, version_vector[p]) /\ min \in Vector
      BY <1>2, <1>3, <1>9
    <3>3. Leq(min, peak[p])
      BY <3>1, <3>2, VectorOps
    <3> QED  BY <2>2, <3>3
  <2>3. ASSUME NEW d \in Partition \ {0}, Parent(d) = p, q \in Below(d)
        PROVE  Leq(min, peak[q])
    <3>1. CASE d = c
      <4>1. Leq(u, peak[q])
        BY <1>8, <2>3, <3>1 DEF Covers
      <4> QED  BY <1>9, <2>1, <4>1, VectorOps
    <3>2. CASE d # c
      <4>1. ChildIndex(d) \in lst_received[p]
        BY <1>10, <2>3, <3>2
      <4>2. Covers(d, min_lst_vector[p])
        BY <1>2, <2>3, <4>1 DEF Values
      <4>3. Leq(min_lst_vector[p], peak[q]) /\ min_lst_vector[p] \in Vector
        BY <1>2, <1>3, <2>3, <4>2 DEF Covers
      <4>4. Leq(min, min_lst_vector[p])
        BY <1>9, <4>1
      <4> QED  BY <1>9, <2>1, <4>3, <4>4, VectorOps
    <3> QED  BY <3>1, <3>2
  <2> QED  BY <1>2, <1>3, <2>2, <2>3, BelowStep
<1>20. p = 0 => Safe(min)
  BY <1>2, <1>19, BelowRoot DEF Covers, Safe
<1>21. Values'
  <2>1. /\ \A v : Safe(v)' <=> Safe(v)
        /\ \A v, q : Covers(q, v)' <=> Covers(q, v)
    BY <1>1, BoundsSame
  <2>2. Partition' = Partition
    BY DEF TreeSame
  <2>3. \A q \in Partition : Leq(version_vector[q], peak[q])'
    BY <1>1, <1>2 DEF Values, Leq
  <2>4. ASSUME NEW d \in Partition \ {0}, NEW v \in Vector, lst_chan'[d] = <<v>>
        PROVE  Covers(d, v)
    <3>1. d # c
      BY <1>13, <2>4, OneMessage
    <3>2. CASE d = p
      <4>1. v = min
        BY <1>9, <1>13, <2>4, <3>2, OneMessage
      <4> QED  BY <1>19, <3>2, <4>1
    <3>3. CASE d # p
      <4>1. lst_chan[d] = <<v>>
        BY <1>13, <2>4, <3>1, <3>3
      <4> QED  BY <1>2, <4>1 DEF Values
    <3> QED  BY <3>2, <3>3
  <2>5. root_waits' => Safe(min_lst_vector'[0])
    <3>1. p # 0 => root_waits' = root_waits /\ min_lst_vector'[0] = min_lst_vector[0]
      BY <1>1, <1>3, <1>11
    <3> QED  BY <1>2, <1>11, <1>20, <3>1 DEF Values
  <2>6. ASSUME NEW d \in Partition \ {0}, ChildIndex(d) \in lst_received'[Parent(d)]
        PROVE  Covers(d, min_lst_vector'[Parent(d)])
    <3>1. Parent(d) # p
      BY <1>11, <2>6
    <3>2. /\ lst_received'[Parent(d)] = lst_received[Parent(d)]
          /\ min_lst_vector'[Parent(d)] = min_lst_vector[Parent(d)]
      BY <1>3, <1>11, <3>1
    <3> QED  BY <1>2, <2>6, <3>2 DEF Values
  <2> QED  BY <1>1, <1>2, <2>1, <2>2, <2>3, <2>4, <2>5, <2>6 DEF Values
<1> QED  BY <1>17, <1>18, <1>21

-----------------------------------------------------------------------------
(***************************************************************************)
(* The way down                                                            *)
(***************************************************************************)

\* The root raises its vector: it still waits.
LEMMA RootLockedOk ==
    ASSUME IInv, TreeSame, LstFromLeafRootLocked
    PROVE  (Rounds /\ Counted /\ Values)'
<1> USE DEF state, chans, locks
<1>1. /\ root_waits /\ lock[0] = "free" /\ UpdateGstVector(0, min_lst_vector[0])
      /\ root_waits' = FALSE /\ lock' = [lock EXCEPT ![0] = "root"]
      /\ UNCHANGED <<config, version_vector, min_lst_vector, lst_received, chans, gst_waits, peak>>
  BY DEF LstFromLeafRootLocked
<1>2. /\ TypeOK /\ Values /\ Counted /\ 0 \in Partition
      /\ lock \in [Partition -> {"free", "root", "gst", "hint"}]
      /\ min_lst_vector[0] \in Vector
  BY Tree DEF IInv, TypeOK
<1>3. lock'[0] = "root" /\ \A q \in Partition : q # 0 => lock'[q] = lock[q]
  BY <1>1, <1>2
<1>4. PICK ph \in [Partition -> Phases] :
        RootAt(ph) /\ \A d \in Partition \ {0} : EdgeAt(ph, d)
  BY DEF IInv, Rounds
<1>5. \A d \in Partition \ {0} : EdgeAt(ph, d)'
  BY <1>1, <1>3, <1>4, EdgeFrame
<1>6. RootAt(ph)'
  BY <1>1, <1>3, <1>4 DEF RootAt, TreeSame
<1>7. Rounds'
  BY <1>5, <1>6 DEF Rounds, TreeSame
<1>8. Counted'
  BY <1>1, <1>2 DEF Counted, TreeSame
<1>9. \A q \in Partition : Safe(gst_vector'[q])
  BY <1>1, <1>2, UpdateSafe DEF Values
<1>10. Values'
  <2>1. /\ \A v : Safe(v)' <=> Safe(v)
        /\ \A v, q : Covers(q, v)' <=> Covers(q, v)
    BY <1>1, BoundsSame
  <2>2. Partition' = Partition
    BY DEF TreeSame
  <2>3. \A q \in Partition : Leq(version_vector[q], peak[q])'
    BY <1>1, <1>2 DEF Values, Leq
  <2> QED  BY <1>1, <1>2, <1>9, <2>1, <2>2, <2>3 DEF Values
<1> QED  BY <1>7, <1>8, <1>10

\* The phases after p has sent the GST vector to its children
Lowered(ph, p) ==
    [q \in Partition |-> IF q = p THEN "working"
                         ELSE IF q # 0 /\ Parent(q) = p THEN "coming" ELSE ph[q]]

LEMMA LoweredIs ==
    ASSUME config \in Configs, NEW p \in Partition, NEW ph \in [Partition -> Phases]
    PROVE  \E new \in [Partition -> Phases] :
                /\ new[p] = "working"
                /\ \A q \in Partition \ {0} : Parent(q) = p => new[q] = "coming"
                /\ \A q \in Partition : q # p /\ (q = 0 \/ Parent(q) # p) => new[q] = ph[q]
<1> DEFINE new == Lowered(ph, p)
<1>1. \A q \in Partition \ {0} : Parent(q) # q
  BY Tree
<1>2. /\ new \in [Partition -> Phases]
      /\ new[p] = "working"
      /\ \A q \in Partition \ {0} : Parent(q) = p => new[q] = "coming"
      /\ \A q \in Partition : q # p /\ (q = 0 \/ Parent(q) # p) => new[q] = ph[q]
  BY <1>1 DEF Lowered, Phases
<1> HIDE DEF new
<1> QED  BY <1>2

\* Sending it down: the children go from waiting to coming.
LEMMA DownOk ==
    ASSUME config \in Configs, TypeOK, TreeSame, NEW p \in Partition, NEW v \in Vector,
           NEW ph \in [Partition -> Phases], NEW new \in [Partition -> Phases],
           new[p] = "working",
           \A q \in Partition \ {0} : Parent(q) = p => new[q] = "coming",
           \A q \in Partition : q # p /\ (q = 0 \/ Parent(q) # p) => new[q] = ph[q],
           ph[p] # "working",
           UNCHANGED <<start, lst_chan, lst_received>>,
           NEW chan, gst_chan' = SendGst(chan, p, v),
           \A q \in Partition : q # p => chan[q] = gst_chan[q],
           \A q \in Partition : q # p => gst_waits'[q] = gst_waits[q],
           \A q \in Partition : q # p => (lock'[q] = "gst" <=> lock[q] = "gst"),
           NEW d \in Partition \ {0}, d # p, EdgeAt(ph, d),
           Parent(d) # 0 => EdgeAt(ph, Parent(d))
    PROVE  EdgeAt(new, d)'
<1>1. /\ Parent(d) \in Partition /\ Parent(d) # d
      /\ d \in Children(p) <=> Parent(d) = p
  BY Tree
<1>2. CASE Parent(d) = p
  <2>1. /\ ph[d] = "waiting" /\ gst_chan[d] = <<>> /\ lst_chan[d] = <<>>
        /\ ChildIndex(d) \notin lst_received[Parent(d)]
        /\ (IsLeaf(d) => LeafRests(d)) /\ (~IsLeaf(d) => start[d] = 0)
    BY <1>2 DEF EdgeAt
  <2>2. gst_chan'[d] = <<v>>
    <3>1. gst_chan'[d] = Append(gst_chan[d], v)
      BY <1>1, <1>2 DEF SendGst
    <3> QED  BY <2>1, <3>1, OneMessage
  <2>3. new[d] = "coming" /\ new[Parent(d)] = "working"
    BY <1>2
  <2> QED  BY <2>1, <2>2, <2>3 DEF EdgeAt, LeafRests, TreeSame
<1>3. CASE Parent(d) # p
  <2>1. gst_chan'[d] = gst_chan[d] /\ new[d] = ph[d]
    BY <1>1, <1>3 DEF SendGst
  <2>2. new[Parent(d)] = "working" <=> ph[Parent(d)] = "working"
    <3>1. CASE Parent(d) # 0 /\ Parent(Parent(d)) = p
      <4>1. new[Parent(d)] = "coming"
        BY <1>1, <3>1
      <4>2. ph[Parent(d)] = "waiting"
        BY <3>1 DEF EdgeAt
      <4> QED  BY <4>1, <4>2
    <3>2. CASE Parent(d) = 0 \/ Parent(Parent(d)) # p
      BY <1>1, <1>3, <3>2
    <3> QED  BY <3>1, <3>2
  <2> QED  BY <2>1, <2>2, EdgeFrame
<1> QED  BY <1>2, <1>3

\* What it sends is safe.
LEMMA SendGstSafe ==
    ASSUME IInv, TreeSame, NEW p \in Partition, NEW v \in Vector, Safe(v),
           NEW chan, gst_chan' = SendGst(chan, p, v),
           \A q \in Partition : chan[q] = gst_chan[q] \/ chan[q] = <<>>,
           \A q \in Children(p) : gst_chan[q] = <<>>,
           \A q \in Partition : \A w \in gst_waits'[q] : w \in gst_waits[q] \/ w = v,
           UNCHANGED <<version_vector, min_lst_vector, lst_received, root_waits, lst_chan,
                       gst_vector, known, peak>>
    PROVE  Values'
<1>1. /\ \A w : Safe(w)' <=> Safe(w)
      /\ \A w, q : Covers(q, w)' <=> Covers(q, w)
  BY BoundsSame
<1>2. Partition' = Partition /\ Values
  BY DEF TreeSame, IInv
<1>3. \A q \in Partition : Leq(version_vector[q], peak[q])'
  BY <1>2 DEF Values, Leq
<1>4. ASSUME NEW q \in Partition, NEW w \in Vector, gst_chan'[q] = <<w>> PROVE Safe(w)
  <2>1. CASE q \in Children(p)
    <3>1. gst_chan'[q] = Append(<<>>, v)
      BY <2>1 DEF SendGst
    <3>2. w = v
      BY <1>4, <3>1, OneMessage
    <3> QED  BY <3>2
  <2>2. CASE q \notin Children(p)
    <3>1. gst_chan'[q] = chan[q]
      BY <2>2 DEF SendGst
    <3>2. gst_chan[q] = <<w>>
      BY <1>4, <3>1, OneMessage
    <3> QED  BY <1>2, <3>2 DEF Values
  <2> QED  BY <2>1, <2>2
<1>5. \A q \in Partition : \A w \in gst_waits'[q] : Safe(w)
  BY <1>2 DEF Values
<1> QED  BY <1>1, <1>2, <1>3, <1>4, <1>5 DEF Values

LEMMA RootUnlockedOk ==
    ASSUME IInv, TreeSame, LstFromLeafRootUnlocked
    PROVE  (Rounds /\ Counted /\ Values)'
<1> USE DEF state, chans, locks
<1> DEFINE v == gst_vector[0]
<1>1. /\ lock[0] = "root" /\ lock' = [lock EXCEPT ![0] = "free"]
      /\ gst_chan' = SendGst(gst_chan, 0, v)
      /\ UNCHANGED <<state, start, lst_chan, known, root_waits, gst_waits, peak>>
  BY DEF LstFromLeafRootUnlocked
<1>2. /\ config \in Configs /\ TypeOK /\ Values /\ Counted
      /\ lock \in [Partition -> {"free", "root", "gst", "hint"}]
  BY DEF IInv, TypeOK
<1>3. /\ 0 \in Partition
      /\ \A c \in Partition : c \in Children(0) <=> c # 0 /\ Parent(c) = 0
      /\ \A c \in Partition \ {0} : Parent(c) \in Partition
  BY <1>2, Tree
<1>4. v \in Vector /\ Safe(v)
  BY <1>2, <1>3 DEF TypeOK, Values
<1> HIDE DEF v
<1>5. lock'[0] = "free" /\ \A q \in Partition : q # 0 => lock'[q] = lock[q]
  BY <1>1, <1>2, <1>3
<1>6. PICK ph \in [Partition -> Phases] :
        RootAt(ph) /\ \A d \in Partition \ {0} : EdgeAt(ph, d)
  BY DEF IInv, Rounds
<1>7. ph[0] = "waiting" /\ ~root_waits
  BY <1>1, <1>6 DEF RootAt
<1>8. PICK new \in [Partition -> Phases] :
        /\ new[0] = "working"
        /\ \A q \in Partition \ {0} : Parent(q) = 0 => new[q] = "coming"
        /\ \A q \in Partition : q # 0 /\ (q = 0 \/ Parent(q) # 0) => new[q] = ph[q]
  BY <1>2, <1>3, LoweredIs
<1>9. ASSUME NEW d \in Partition \ {0} PROVE EdgeAt(new, d)'
  <2>1. EdgeAt(ph, d) /\ (Parent(d) # 0 => EdgeAt(ph, Parent(d)))
    BY <1>3, <1>6
  <2>2. ph[0] # "working" /\ d # 0
    BY <1>7
  <2> QED  BY <1>1, <1>2, <1>3, <1>4, <1>5, <1>8, <2>1, <2>2, DownOk
<1>10. RootAt(new)'
  <2>1. gst_chan'[0] = gst_chan[0]
    BY <1>1, <1>3 DEF SendGst
  <2> QED  BY <1>1, <1>5, <1>6, <1>7, <1>8, <2>1 DEF RootAt, TreeSame
<1>11. Rounds'
  BY <1>9, <1>10 DEF Rounds, TreeSame
<1>12. Counted'
  BY <1>1, <1>2 DEF Counted, TreeSame
<1>13. \A q \in Children(0) : gst_chan[q] = <<>>
  <2> SUFFICES ASSUME NEW q \in Children(0) PROVE gst_chan[q] = <<>>
    OBVIOUS
  <2>1. q \in Partition \ {0} /\ Parent(q) = 0
    <3>1. q \in Partition
      BY <1>2, Tree
    <3> QED  BY <1>3, <3>1
  <2>2. EdgeAt(ph, q)
    BY <1>6, <2>1
  <2> QED  BY <1>7, <2>1, <2>2 DEF EdgeAt
<1>14. Values'
  BY <1>1, <1>3, <1>4, <1>13, SendGstSafe
<1> QED  BY <1>11, <1>12, <1>14

\* A partition passes the vector on and has itself something to apply.
LEMMA GstFromRootOk ==
    ASSUME IInv, TypeOK', TreeSame, NEW p \in Partition, GstFromRoot(p)
    PROVE  (Rounds /\ Counted /\ Values)'
<1> USE DEF state, chans, locks
<1> DEFINE v    == Head(gst_chan[p])
           chan == [gst_chan EXCEPT ![p] = Tail(@)]
<1>1. /\ gst_chan[p] # <<>>
      /\ gst_chan' = SendGst(chan, p, v)
      /\ gst_waits' = [gst_waits EXCEPT ![p] = @ \cup {v}]
      /\ UNCHANGED <<state, start, lst_chan, known, lock, root_waits, peak>>
  BY DEF GstFromRoot
<1>2. /\ config \in Configs /\ TypeOK /\ Values /\ Counted
      /\ gst_waits \in [Partition -> SUBSET Vector]
      /\ gst_chan \in [Partition -> Seq(Vector)]
  BY DEF IInv, TypeOK
<1>3. /\ 0 \in Partition
      /\ \A c \in Partition : c \in Children(p) <=> c # 0 /\ Parent(c) = p
      /\ \A c \in Partition \ {0} : /\ Parent(c) \in Partition /\ Parent(c) # c
                                    /\ Parent(Parent(c)) # c
  BY <1>2, Tree
<1>4. PICK ph \in [Partition -> Phases] :
        RootAt(ph) /\ \A d \in Partition \ {0} : EdgeAt(ph, d)
  BY DEF IInv, Rounds
<1>5. p # 0
  BY <1>1, <1>4 DEF RootAt
<1>6. EdgeAt(ph, p)
  BY <1>4, <1>5
<1>7. /\ ph[p] = "coming" /\ lst_chan[p] = <<>> /\ ph[Parent(p)] = "working"
      /\ ChildIndex(p) \notin lst_received[Parent(p)]
      /\ (IsLeaf(p) => LeafRests(p)) /\ (~IsLeaf(p) => start[p] = 0)
  BY <1>1, <1>6 DEF EdgeAt
<1>8. PICK u \in Vector : gst_chan[p] = <<u>>
  BY <1>6, <1>7 DEF EdgeAt
<1>9. v = u /\ Tail(gst_chan[p]) = <<>> /\ Safe(v) /\ v \in Vector
  BY <1>2, <1>8, OneMessage DEF Values
<1>10. chan[p] = <<>> /\ \A q \in Partition : q # p => chan[q] = gst_chan[q]
  BY <1>2, <1>9
<1> HIDE DEF v, chan
<1>11. /\ gst_waits'[p] = gst_waits[p] \cup {v}
       /\ \A q \in Partition : q # p => gst_waits'[q] = gst_waits[q]
  BY <1>1, <1>2
<1>12. PICK new \in [Partition -> Phases] :
        /\ new[p] = "working"
        /\ \A q \in Partition \ {0} : Parent(q) = p => new[q] = "coming"
        /\ \A q \in Partition : q # p /\ (q = 0 \/ Parent(q) # p) => new[q] = ph[q]
  <2>1. config \in Configs /\ p \in Partition
    BY <1>2
  <2> QED  BY ONLY <2>1, LoweredIs
<1>13. ASSUME NEW d \in Partition \ {0}, d # p PROVE EdgeAt(new, d)'
  <2>1. EdgeAt(ph, d) /\ (Parent(d) # 0 => EdgeAt(ph, Parent(d)))
    BY <1>3, <1>4
  <2>2. ph[p] # "working"
    BY <1>7
  <2> QED  BY <1>1, <1>2, <1>9, <1>10, <1>11, <1>12, <1>13, <2>1, <2>2, DownOk
<1>14. EdgeAt(new, p)'
  <2>1. gst_chan'[p] = <<>>
    <3>1. p \notin Children(p)
      BY <1>3, <1>5
    <3> QED  BY <1>1, <1>10, <3>1 DEF SendGst
  <2>2. new[p] = "working" /\ new[Parent(p)] = ph[Parent(p)]
    BY <1>3, <1>5, <1>12
  <2>3. IsLeaf(p) => LeafWorks(p)'
    BY <1>1, <1>7, <1>9, <1>11 DEF LeafWorks, LeafRests
  <2> QED  BY <1>1, <1>7, <2>1, <2>2, <2>3 DEF EdgeAt, TreeSame
<1>15. RootAt(new)'
  <2>1. gst_chan'[0] = gst_chan[0] /\ gst_waits'[0] = gst_waits[0] /\ new[0] = ph[0]
    BY <1>1, <1>3, <1>5, <1>10, <1>11, <1>12 DEF SendGst
  <2> QED  BY <1>1, <1>4, <2>1 DEF RootAt, TreeSame
<1>16. Rounds'
  BY <1>13, <1>14, <1>15 DEF Rounds, TreeSame
<1>17. Counted'
  BY <1>1, <1>2 DEF Counted, TreeSame
<1>18. \A q \in Children(p) : gst_chan[q] = <<>>
  <2> SUFFICES ASSUME NEW q \in Children(p) PROVE gst_chan[q] = <<>>
    OBVIOUS
  <2>1. q \in Partition \ {0} /\ Parent(q) = p
    <3>1. q \in Partition
      BY <1>2, Tree
    <3> QED  BY <1>3, <3>1
  <2>2. EdgeAt(ph, q)
    BY <1>4, <2>1
  <2> QED  BY <1>7, <2>1, <2>2 DEF EdgeAt
<1>19. Values'
  <2>1. /\ \A q \in Partition : chan[q] = gst_chan[q] \/ chan[q] = <<>>
        /\ \A q \in Partition : \A w \in gst_waits'[q] : w \in gst_waits[q] \/ w = v
    BY <1>10, <1>11
  <2> QED  BY <1>1, <1>9, <1>18, <2>1, SendGstSafe
<1> QED  BY <1>16, <1>17, <1>19

\* A partition raises its vector: if it is a leaf it had nothing else to do.
LEMMA GstLockedOk ==
    ASSUME IInv, TreeSame, NEW p \in Partition, NEW v \in gst_waits[p], GstFromRootLocked(p, v)
    PROVE  (Rounds /\ Counted /\ Values)'
<1> USE DEF state, chans, locks
<1>1. /\ lock[p] = "free" /\ UpdateGstVector(p, v)
      /\ gst_waits' = [gst_waits EXCEPT ![p] = @ \ {v}]
      /\ lock' = [lock EXCEPT ![p] = "gst"]
      /\ UNCHANGED <<config, version_vector, min_lst_vector, lst_received, chans, root_waits, peak>>
  BY DEF GstFromRootLocked
<1>2. /\ config \in Configs /\ TypeOK /\ Values /\ Counted /\ 0 \in Partition
      /\ gst_waits \in [Partition -> SUBSET Vector] /\ v \in Vector
      /\ lock \in [Partition -> {"free", "root", "gst", "hint"}]
  BY Tree DEF IInv, TypeOK
<1>3. /\ lock'[p] = "gst" /\ gst_waits'[p] = gst_waits[p] \ {v}
      /\ \A q \in Partition : q # p => lock'[q] = lock[q] /\ gst_waits'[q] = gst_waits[q]
  BY <1>1, <1>2
<1>4. PICK ph \in [Partition -> Phases] :
        RootAt(ph) /\ \A d \in Partition \ {0} : EdgeAt(ph, d)
  BY DEF IInv, Rounds
<1>5. p # 0
  BY <1>4 DEF RootAt
<1>6. EdgeAt(ph, p)'
  <2>1. EdgeAt(ph, p)
    BY <1>4, <1>5
  <2>2. ASSUME IsLeaf(p) PROVE ph[p] = "working" /\ LeafWorks(p)'
    <3>1. ph[p] = "working" /\ LeafWorks(p)
      BY <2>1, <2>2 DEF EdgeAt, LeafRests
    <3>2. gst_waits'[p] = {} /\ start[p] = 0
      BY <1>3, <3>1 DEF LeafWorks
    <3> QED  BY <1>1, <1>3, <3>1, <3>2 DEF LeafWorks
  <2> QED  BY <1>1, <2>1, <2>2 DEF EdgeAt, TreeSame
<1>7. ASSUME NEW d \in Partition \ {0}, d # p PROVE EdgeAt(ph, d)'
  BY <1>1, <1>3, <1>4, <1>7, EdgeFrame
<1>8. RootAt(ph)'
  BY <1>1, <1>2, <1>3, <1>4, <1>5 DEF RootAt, TreeSame
<1>9. Rounds'
  BY <1>6, <1>7, <1>8 DEF Rounds, TreeSame
<1>10. Counted'
  BY <1>1, <1>2 DEF Counted, TreeSame
<1>11. \A q \in Partition : Safe(gst_vector'[q])
  BY <1>1, <1>2, UpdateSafe DEF Values
<1>12. Values'
  <2>1. \A q \in Partition : gst_waits'[q] \subseteq gst_waits[q]
    BY <1>3
  <2> QED  BY <1>1, <1>2, <1>11, <2>1, GstFrame DEF Values
<1> QED  BY <1>9, <1>10, <1>12

\* A leaf schedules the next round.
LEMMA GstUnlockedOk ==
    ASSUME IInv, TreeSame, NEW p \in Partition, GstFromRootUnlocked(p)
    PROVE  (Rounds /\ Counted /\ Values)'
<1> USE DEF state, chans, locks
<1>1. /\ lock[p] = "gst" /\ lock' = [lock EXCEPT ![p] = "free"]
      /\ start' = [start EXCEPT ![p] = IF IsLeaf(p) THEN @ + 1 ELSE @]
      /\ UNCHANGED <<state, lst_chan, gst_chan, known, root_waits, gst_waits, peak>>
  BY DEF GstFromRootUnlocked
<1>2. /\ config \in Configs /\ TypeOK /\ Values /\ Counted /\ 0 \in Partition
      /\ start \in [Partition -> Nat]
      /\ lock \in [Partition -> {"free", "root", "gst", "hint"}]
  BY Tree DEF IInv, TypeOK
<1>3. /\ lock'[p] = "free" /\ start'[p] = IF IsLeaf(p) THEN start[p] + 1 ELSE start[p]
      /\ \A q \in Partition : q # p => lock'[q] = lock[q] /\ start'[q] = start[q]
  BY <1>1, <1>2
<1>4. PICK ph \in [Partition -> Phases] :
        RootAt(ph) /\ \A d \in Partition \ {0} : EdgeAt(ph, d)
  BY DEF IInv, Rounds
<1>5. p # 0
  BY <1>1, <1>4 DEF RootAt
<1>6. EdgeAt(ph, p)'
  <2>1. EdgeAt(ph, p)
    BY <1>4, <1>5
  <2>2. ASSUME IsLeaf(p) PROVE ph[p] = "working" /\ LeafWorks(p)'
    <3>1. ph[p] = "working" /\ LeafWorks(p)
      BY <1>1, <2>1, <2>2 DEF EdgeAt, LeafRests
    <3>2. gst_waits[p] = {} /\ start[p] = 0
      BY <1>1, <3>1 DEF LeafWorks
    <3>3. start'[p] = 1
      BY <1>3, <2>2, <3>2
    <3> QED  BY <1>1, <1>3, <3>1, <3>2, <3>3 DEF LeafWorks
  <2>3. ~IsLeaf(p) => start'[p] = 0
    BY <1>3, <2>1 DEF EdgeAt
  <2> QED  BY <1>1, <2>1, <2>2, <2>3 DEF EdgeAt, TreeSame
<1>7. ASSUME NEW d \in Partition \ {0}, d # p PROVE EdgeAt(ph, d)'
  BY <1>1, <1>3, <1>4, <1>7, EdgeFrame
<1>8. RootAt(ph)'
  BY <1>1, <1>2, <1>3, <1>4, <1>5 DEF RootAt, TreeSame
<1>9. Rounds'
  BY <1>6, <1>7, <1>8 DEF Rounds, TreeSame
<1>10. Counted'
  BY <1>1, <1>2 DEF Counted, TreeSame
<1>11. Values'
  BY <1>1, <1>2, GstFrame DEF Values
<1> QED  BY <1>9, <1>10, <1>11

-----------------------------------------------------------------------------
(***************************************************************************)
(* The theorems                                                            *)
(***************************************************************************)
LEMMA InitOk ==
    ASSUME Init
    PROVE  IInv
<1>1. TypeOK /\ config \in Configs
  BY TypeInit DEF Init
<1>2. /\ 0 \in Partition
      /\ \A c \in Partition \ {0} : Parent(c) \in Partition
  BY <1>1, Tree
<1>3. Rounds
  <2> DEFINE ph == [p \in Partition |-> "working"]
  <2>1. ph \in [Partition -> Phases]
    BY DEF Phases
  <2>2. \A p \in Partition : ph[p] = "working"
    OBVIOUS
  <2> HIDE DEF ph
  <2>3. RootAt(ph)
    BY <1>2, <2>2 DEF RootAt, Init
  <2>4. ASSUME NEW c \in Partition \ {0} PROVE EdgeAt(ph, c)
    <3>1. ph[c] = "working" /\ ph[Parent(c)] = "working"
      BY <1>2, <2>2
    <3>2. /\ lst_chan[c] = <<>> /\ gst_chan[c] = <<>> /\ lst_received[Parent(c)] = {}
          /\ start[c] = IF IsLeaf(c) THEN 1 ELSE 0
          /\ gst_waits[c] = {} /\ lock[c] = "free"
      BY <1>2 DEF Init
    <3> QED  BY <3>1, <3>2 DEF EdgeAt, LeafWorks
  <2> QED  BY <2>1, <2>3, <2>4 DEF Rounds
<1>4. Counted
  BY DEF Init, Counted
<1>5. Values
  <2>1. Zero \in Vector /\ Leq(Zero, Zero)
    BY VectorOps, GrvGstAssumption DEF Zero, Vector, Time, Leq
  <2>2. Safe(Zero)
    BY <2>1 DEF Init, Safe
  <2>3. \A v \in Vector : <<>> # <<v>>
    BY OneMessage
  <2>4. /\ known = Zero /\ root_waits = FALSE
        /\ \A p \in Partition :
            /\ version_vector[p] = Zero /\ peak[p] = Zero /\ gst_vector[p] = Zero
            /\ gst_waits[p] = {} /\ gst_chan[p] = <<>> /\ lst_chan[p] = <<>>
            /\ lst_received[p] = {}
    BY DEF Init
  <2> QED  BY <1>2, <2>1, <2>2, <2>3, <2>4 DEF Values
<1> QED  BY <1>1, <1>3, <1>4, <1>5 DEF IInv

LEMMA ConfigStays == [Next]_vars => config' = config
  BY DEF Next, Round, Chain, vars, state, SetVersion, StartGstComputation,
         StartGstComputationAlone, ProcessLstFromLeaf, ProcessLastLstFromLeaf,
         LstFromLeafRootLocked, LstFromLeafRootUnlocked, GstFromRoot, GstFromRootLocked,
         GstFromRootUnlocked, HandOutGst, HintLocked, HintUnlocked, ForwardGet

LEMMA NextOk == IInv /\ [Next]_vars => IInv'
<1> SUFFICES ASSUME IInv, [Next]_vars PROVE IInv'
  OBVIOUS
<1>1. TypeOK'
  BY TypeStep DEF IInv
<1>2. TreeSame
  BY ConfigStays, TreeStays
<1>3. CASE UNCHANGED vars
  <2>1. UNCHANGED <<state, chans, locks, peak>>
    BY <1>3 DEF vars
  <2>2. Rounds' /\ Counted'
    BY <1>2, <2>1, RoundsFrame DEF state, chans, locks
  <2>3. \A q \in Partition : Safe(gst_vector'[q])
    BY <2>1 DEF IInv, Values, state
  <2>4. Safe(known')
    BY <2>1 DEF IInv, Values, chans
  <2>5. Values'
    BY <1>2, <2>1, <2>3, <2>4, GstFrame DEF state, chans, locks
  <2> QED  BY <1>1, <2>2, <2>5 DEF IInv
<1>4. CASE Next
  <2>1. PICK p \in Partition :
        \/ Round(p)
        \/ Chain(p)
        \/ SetVersion(p)
        \/ HandOutGst(p)
        \/ \E v \in Vector : HintLocked(p, v) \/ ForwardGet(p, v)
    BY <1>4 DEF Next
  <2>2. CASE Round(p)
    <3>1. CASE StartGstComputation(p)
      BY <1>1, <1>2, <3>1, StartOk DEF IInv
    <3>2. CASE StartGstComputationAlone(p)
      BY <1>1, <1>2, <3>2, HintsOk DEF IInv
    <3>3. CASE p # 0 /\ ProcessLstFromLeaf(p)
      BY <1>1, <1>2, <3>3, LstOk DEF IInv
    <3>4. CASE p # 0 /\ ProcessLastLstFromLeaf(p)
      BY <1>1, <1>2, <3>4, LastLstOk DEF IInv
    <3>5. CASE GstFromRoot(p)
      BY <1>1, <1>2, <3>5, GstFromRootOk DEF IInv
    <3> QED  BY <2>2, <3>1, <3>2, <3>3, <3>4, <3>5 DEF Round
  <2>3. CASE Chain(p)
    <3>1. CASE LstFromLeafRootLocked
      BY <1>1, <1>2, <3>1, RootLockedOk DEF IInv
    <3>2. CASE LstFromLeafRootUnlocked
      BY <1>1, <1>2, <3>2, RootUnlockedOk DEF IInv
    <3>3. ASSUME NEW v \in gst_waits[p], GstFromRootLocked(p, v) PROVE IInv'
      BY <1>1, <1>2, <3>3, GstLockedOk DEF IInv
    <3>4. CASE GstFromRootUnlocked(p)
      BY <1>1, <1>2, <3>4, GstUnlockedOk DEF IInv
    <3>5. CASE HintUnlocked(p)
      BY <1>1, <1>2, <3>5, HintsOk DEF IInv
    <3> QED  BY <2>3, <3>1, <3>2, <3>3, <3>4, <3>5 DEF Chain
  <2>4. CASE SetVersion(p)
    BY <1>1, <1>2, <2>4, SetVersionOk DEF IInv
  <2>5. CASE HandOutGst(p) \/ \E v \in Vector : HintLocked(p, v) \/ ForwardGet(p, v)
    BY <1>1, <1>2, <2>5, HintsOk DEF IInv
  <2> QED  BY <2>1, <2>2, <2>3, <2>4, <2>5
<1> QED  BY <1>3, <1>4

\* The inductive invariant holds in every reachable state.
THEOREM Invariance == Spec => []IInv
<1>1. Init => IInv
  BY InitOk
<1> QED  BY <1>1, NextOk, PTL DEF Spec

\* Although a partition passes the vector on before it has applied it, and
\* holds several at once, the next round never mixes with this one: a child
\* reports once per round (gst.c:32-33), a leaf is in one round at a time, and
\* the root's minimum is used before the next report arrives.
THEOREM RoundsStayApart == Spec => []RoundsDoNotMix
<1>1. ASSUME IInv PROVE RoundsDoNotMix
  <2>1. PICK ph \in [Partition -> Phases] :
            RootAt(ph) /\ \A c \in Partition \ {0} : EdgeAt(ph, c)
    BY <1>1 DEF IInv, Rounds
  <2>2. config \in Configs /\ Counted /\ 0 \in Partition
    BY <1>1, Tree DEF IInv, TypeOK
  <2>3. ASSUME NEW p \in Partition \ {0}
        PROVE  /\ Len(lst_chan[p]) = IF ph[p] = "sent" THEN 1 ELSE 0
               /\ Len(gst_chan[p]) = IF ph[p] = "coming" THEN 1 ELSE 0
               /\ ph[p] = "counted" <=> ChildIndex(p) \in lst_received[Parent(p)]
    <3>1. EdgeAt(ph, p)
      BY <2>1
    <3>2. Len(<<>>) = 0 /\ \A v \in Vector : Len(<<v>>) = 1
      OBVIOUS
    <3> QED  BY <3>1, <3>2 DEF EdgeAt
  <2>4. ASSUME NEW p \in Partition \ {0}, IsLeaf(p) PROVE InRound(p) <= 1
    <3>1. EdgeAt(ph, p)
      BY <2>1
    <3>2. Cardinality({}) = 0 /\ \A v \in Vector : Cardinality({v}) = 1
      BY FS_EmptySet, FS_Singleton
    <3> DEFINE k == Cardinality(gst_waits[p])
               l == IF lock[p] = "gst" THEN 1 ELSE 0
               m == IF ChildIndex(p) \in lst_received[Parent(p)] THEN 1 ELSE 0
    <3>3. CASE ph[p] = "working"
      <4>1. LeafWorks(p)
        BY <2>4, <3>1, <3>3 DEF EdgeAt
      <4>2. /\ start[p] \in {0, 1} /\ k \in {0, 1} /\ l \in {0, 1}
            /\ start[p] = 1 => k = 0 /\ l = 0
            /\ k = 1 => l = 0
        <5>1. CASE start[p] = 1 /\ gst_waits[p] = {} /\ lock[p] # "gst"
          BY <3>2, <5>1
        <5>2. CASE start[p] = 0 /\ (\E v \in Vector : gst_waits[p] = {v}) /\ lock[p] # "gst"
          <6>1. k = 1
            BY <3>2, <5>2
          <6>2. l = 0
            BY <5>2
          <6> HIDE DEF k, l
          <6> QED  BY <5>2, <6>1, <6>2
        <5>3. CASE start[p] = 0 /\ gst_waits[p] = {} /\ lock[p] = "gst"
          <6>1. k = 0
            BY <3>2, <5>3
          <6>2. l = 1
            BY <5>3
          <6> HIDE DEF k, l
          <6> QED  BY <5>3, <6>1, <6>2
        <5> QED  BY <4>1, <5>1, <5>2, <5>3 DEF LeafWorks
      <4>3. Len(lst_chan[p]) = 0 /\ Len(gst_chan[p]) = 0 /\ m = 0
        BY <2>3, <3>3
      <4>4. InRound(p) = start[p] + 0 + 0 + k + l + 0
        BY <4>3 DEF InRound
      <4> HIDE DEF k, l
      <4> QED  BY <4>2, <4>4
    <3>4. CASE ph[p] # "working"
      <4>1. LeafRests(p)
        BY <2>4, <3>1, <3>4 DEF EdgeAt
      <4>2. start[p] = 0 /\ k = 0 /\ l = 0
        BY <3>2, <4>1 DEF LeafRests
      <4>3. /\ Len(lst_chan[p]) = IF ph[p] = "sent" THEN 1 ELSE 0
            /\ Len(gst_chan[p]) = IF ph[p] = "coming" THEN 1 ELSE 0
            /\ m = IF ph[p] = "counted" THEN 1 ELSE 0
        BY <2>3
      <4>4. InRound(p) = start[p] + Len(lst_chan[p]) + Len(gst_chan[p]) + k + l + m
        BY DEF InRound
      <4> HIDE DEF k, l, m
      <4> QED  BY <4>2, <4>3, <4>4
    <3> QED  BY <3>3, <3>4
  <2>5. ASSUME NEW p \in Partition \ {0}
        PROVE  /\ Len(lst_chan[p]) <= 1
               /\ lst_chan[p] # <<>> => ChildIndex(p) \notin lst_received[Parent(p)]
    <3>1. EdgeAt(ph, p)
      BY <2>1
    <3> QED  BY <2>3, <3>1 DEF EdgeAt
  <2>6. ASSUME root_waits \/ lock[0] = "root"
        PROVE  /\ lst_received[0] = {}
               /\ \A c \in Children(0) : lst_chan[c] = <<>>
    <3>1. ph[0] # "working"
      BY <2>1, <2>6 DEF RootAt
    <3>2. ASSUME NEW c \in Partition \ {0}, Parent(c) = 0
          PROVE  lst_chan[c] = <<>> /\ ChildIndex(c) \notin lst_received[0]
      <4>1. EdgeAt(ph, c)
        BY <2>1
      <4> QED  BY <3>1, <3>2, <4>1 DEF EdgeAt
    <3>3. lst_received[0] = {}
      BY <2>2, <3>2 DEF Counted
    <3>4. \A c \in Children(0) : c \in Partition \ {0} /\ Parent(c) = 0
      BY <2>2, Tree
    <3> QED  BY <3>2, <3>3, <3>4
  <2> QED  BY <2>4, <2>5, <2>6 DEF RoundsDoNotMix
<1> QED  BY <1>1, Invariance, PTL

-----------------------------------------------------------------------------
(***************************************************************************)
(* Each entry implements the abstract stable time                          *)
(***************************************************************************)
AbstractStep(r) ==
    \/ Stable(r)!Next
    \/ UNCHANGED <<Entry(gst_vector, r), Entry(peak, r)>>

\* A handler that calls grv_update_gst_vector takes an abstract step of an
\* entry or none, if the vector is safe.
LEMMA UpdateStep ==
    ASSUME TypeOK, TypeOK', TreeSame, NEW p \in Partition, NEW v \in Vector, Safe(v),
           UpdateGstVector(p, v), UNCHANGED peak, NEW r \in Replica
    PROVE  AbstractStep(r)
<1> DEFINE g == Entry(gst_vector, r)
           k == Entry(peak, r)
<1>1. Partition' = Partition
  BY DEF TreeSame
<1>2. /\ gst_vector'[p] = MaxVector(gst_vector[p], v)
      /\ \A q \in Partition : q # p => gst_vector'[q] = gst_vector[q]
  BY UpdateGstVectorType
<1>3. /\ v[r] \in Time /\ gst_vector[p][r] \in Time /\ v[r] \in Nat /\ gst_vector[p][r] \in Nat
  BY DEF Vector, Time, TypeOK
<1>4. gst_vector'[p][r] = IF gst_vector[p][r] < v[r] THEN v[r] ELSE gst_vector[p][r]
  BY <1>2 DEF MaxVector
<1>5. k' = k
  BY <1>1 DEF Entry
<1>6. g' = [q \in Partition |-> gst_vector'[q][r]]
  BY <1>1 DEF Entry
<1>7. CASE gst_vector[p][r] < v[r]
  <2>1. g' = [g EXCEPT ![p] = v[r]]
    BY <1>2, <1>4, <1>6, <1>7 DEF Entry
  <2>2. v[r] > g[p]
    BY <1>3, <1>7 DEF Entry
  <2>3. \A q \in DOMAIN k : v[r] <= k[q]
    BY DEF Safe, Leq, Entry
  <2>4. p \in DOMAIN g
    BY DEF Entry
  <2> HIDE DEF g, k
  <2>5. Stable(r)!Raise(p, v[r])
    BY <1>5, <2>1, <2>2, <2>3 DEF Stable!Raise, g, k
  <2>6. Stable(r)!Next
    BY <1>3, <2>4, <2>5 DEF Stable!Next, g
  <2> QED  BY <2>6 DEF AbstractStep
<1>8. CASE ~(gst_vector[p][r] < v[r])
  <2>1. g' = g
    BY <1>2, <1>4, <1>6, <1>8 DEF Entry
  <2> QED  BY <1>5, <2>1 DEF AbstractStep
<1> QED  BY <1>7, <1>8

\* A step of a version vector raises one peak or none.
LEMMA PeakStep ==
    ASSUME TypeOK, TypeOK', TreeSame, NEW p \in Partition, SetVersion(p), NEW r \in Replica
    PROVE  AbstractStep(r)
<1> DEFINE g == Entry(gst_vector, r)
           k == Entry(peak, r)
           w == version_vector'[p]
<1>1. Partition' = Partition
  BY DEF TreeSame
<1>2. /\ peak' = [peak EXCEPT ![p] = MaxVector(peak[p], w)]
      /\ UNCHANGED gst_vector
  BY DEF SetVersion
<1>3. /\ peak \in [Partition -> Vector] /\ w \in Vector
  BY <1>1 DEF TypeOK
<1> HIDE DEF w
<1>4. w[r] \in Time /\ peak[p][r] \in Time /\ w[r] \in Nat /\ peak[p][r] \in Nat
  BY <1>3 DEF Vector, Time
<1>5. /\ peak'[p][r] = IF peak[p][r] < w[r] THEN w[r] ELSE peak[p][r]
      /\ \A q \in Partition : q # p => peak'[q] = peak[q]
  BY <1>2, <1>3 DEF MaxVector
<1>6. g' = g /\ k' = [q \in Partition |-> peak'[q][r]]
  BY <1>1, <1>2 DEF Entry
<1>7. CASE peak[p][r] < w[r]
  <2>1. k' = [k EXCEPT ![p] = w[r]] /\ w[r] > k[p]
    BY <1>4, <1>5, <1>6, <1>7 DEF Entry
  <2>2. p \in DOMAIN g
    BY DEF Entry
  <2> DEFINE t == w[r]
  <2>3. t \in Time /\ k' = [k EXCEPT ![p] = t] /\ t > k[p]
    BY <1>4, <2>1
  <2> HIDE DEF g, k, t
  <2>4. Stable(r)!Reach(p, t)
    BY <1>6, <2>3 DEF Stable!Reach, g, k
  <2>5. Stable(r)!Next
    BY <2>2, <2>3, <2>4 DEF Stable!Next, g
  <2> QED  BY <2>5 DEF AbstractStep
<1>8. CASE ~(peak[p][r] < w[r])
  <2>1. k' = k
    BY <1>5, <1>6, <1>8 DEF Entry
  <2> QED  BY <1>6, <2>1 DEF AbstractStep
<1> QED  BY <1>7, <1>8

LEMMA StableStep ==
    ASSUME IInv, TypeOK', [Next]_vars, NEW r \in Replica
    PROVE  AbstractStep(r)
<1> USE DEF state, chans, locks
<1>1. TypeOK /\ Values /\ TreeSame /\ config \in Configs
  BY ConfigStays, TreeStays DEF IInv, TypeOK
<1>2. ASSUME UNCHANGED <<gst_vector, peak>> PROVE AbstractStep(r)
  <2>1. Partition' = Partition
    BY <1>1 DEF TreeSame
  <2> QED  BY <1>2, <2>1 DEF AbstractStep, Entry
<1>3. ASSUME NEW p \in Partition, NEW v \in Vector, Safe(v), UpdateGstVector(p, v), UNCHANGED peak
      PROVE  AbstractStep(r)
  BY <1>1, <1>3, UpdateStep
<1>4. CASE UNCHANGED vars
  BY <1>2, <1>4 DEF vars
<1>5. ASSUME NEW p \in Partition, Round(p) PROVE AbstractStep(r)
  <2>1. CASE StartGstComputationAlone(p)
    <3>1. p = 0 /\ start[p] > 0 /\ UpdateGstVector(p, version_vector[p]) /\ UNCHANGED peak
      BY <2>1 DEF StartGstComputationAlone
    <3>2. Partition = {p}
      BY <1>1, <3>1, Tree DEF IInv, Rounds, RootAt
    <3>3. version_vector[p] \in Vector /\ Safe(version_vector[p])
      BY <1>1, <3>2 DEF Values, Safe, TypeOK
    <3> QED  BY <1>3, <3>1, <3>3
  <2>2. CASE \/ StartGstComputation(p) \/ GstFromRoot(p)
             \/ ProcessLstFromLeaf(p) \/ ProcessLastLstFromLeaf(p)
    BY <1>2, <2>2 DEF StartGstComputation, GstFromRoot, ProcessLstFromLeaf,
                      ProcessLastLstFromLeaf
  <2> QED  BY <1>5, <2>1, <2>2 DEF Round
<1>6. ASSUME NEW p \in Partition, Chain(p) PROVE AbstractStep(r)
  <2>1. CASE p = 0 /\ LstFromLeafRootLocked
    <3>1. /\ min_lst_vector[0] \in Vector /\ Safe(min_lst_vector[0])
          /\ UpdateGstVector(0, min_lst_vector[0]) /\ UNCHANGED peak
      BY <1>1, <2>1 DEF LstFromLeafRootLocked, Values, TypeOK
    <3> QED  BY <1>3, <2>1, <3>1
  <2>2. ASSUME NEW v \in gst_waits[p], GstFromRootLocked(p, v) PROVE AbstractStep(r)
    <3>1. v \in Vector /\ Safe(v) /\ UpdateGstVector(p, v) /\ UNCHANGED peak
      BY <1>1, <2>2 DEF GstFromRootLocked, Values, TypeOK
    <3> QED  BY <1>3, <3>1
  <2>3. CASE LstFromLeafRootUnlocked \/ GstFromRootUnlocked(p) \/ HintUnlocked(p)
    BY <1>2, <2>3 DEF LstFromLeafRootUnlocked, GstFromRootUnlocked, HintUnlocked
  <2> QED  BY <1>6, <2>1, <2>2, <2>3 DEF Chain
<1>7. ASSUME NEW p \in Partition, NEW v \in Vector, HintLocked(p, v) \/ ForwardGet(p, v)
      PROVE  AbstractStep(r)
  <2>1. UpdateGstVector(p, v) /\ Leq(v, known) /\ UNCHANGED peak
    BY <1>7 DEF HintLocked, ForwardGet
  <2> QED  BY <1>3, <2>1, PresentedSafe
<1>8. ASSUME NEW p \in Partition, HandOutGst(p) PROVE AbstractStep(r)
  BY <1>2, <1>8 DEF HandOutGst
<1>9. ASSUME NEW p \in Partition, SetVersion(p) PROVE AbstractStep(r)
  BY <1>1, <1>9, PeakStep
<1>10. CASE Next
  BY <1>5, <1>6, <1>7, <1>8, <1>9, <1>10 DEF Next
<1> QED  BY <1>4, <1>10

\* In every configuration, one partition alone included, each entry of the
\* GST vectors implements the abstract stable time: it only rises, and never
\* above what every partition has received of that replica, with the
\* unlocked writes of forwarded gets as well (gst.c:29-243, getput.c:63-80).
THEOREM EntriesImplementStableTime == Spec => ImplementsStableTimes
<1>1. Init => \A r \in Replica : Stable(r)!Init
  BY DEF Init, Stable!Init, Entry, Zero
<1>2. IInv /\ IInv' /\ [Next]_vars =>
        [\A r \in Replica :
            \/ Stable(r)!Next
            \/ UNCHANGED <<Entry(gst_vector, r), Entry(peak, r)>>]_vars
  <2> SUFFICES ASSUME IInv, IInv', [Next]_vars, NEW r \in Replica
               PROVE  \/ Stable(r)!Next
                      \/ UNCHANGED <<Entry(gst_vector, r), Entry(peak, r)>>
    OBVIOUS
  <2>1. TypeOK'
    BY DEF IInv
  <2>2. AbstractStep(r)
    BY <2>1, StableStep
  <2> QED  BY <2>2 DEF AbstractStep
<1> QED  BY <1>1, <1>2, Invariance, PTL DEF Spec, ImplementsStableTimes
====
