---------------------------- MODULE GrGstProofs ----------------------------
(***************************************************************************)
(* Proofs about module GrGst, for any number of partitions above one, any  *)
(* fanout, any number of replicas and any timestamps.                      *)
(*                                                                         *)
(* The GST is safe because rounds do not overlap: were a report of the     *)
(* next round to reach the root between its last report and the _LOCKED    *)
(* event, min_lst would be overwritten.  The inductive invariant therefore *)
(* says where each edge of the tree is in the round (EdgeAt), and that the *)
(* reports decrease towards the root and are below the peaks.              *)
(***************************************************************************)
EXTENDS GrGst, PartitionTreeProofs, SequenceTheorems

Safe(g) == \A q \in Partition : g <= peak[q]

\* p has reported in the current round and has not applied its GST yet
Up(p) == reported[p] # NoReport

\* Where the edge between c and its parent is in the round:
\*   working   c has not reported         sent      its report is under way
\*   counted   the parent has the report  waiting   the parent has reported
\*   coming    the GST is under way       applying  c raises its GST
Phases == {"working", "sent", "counted", "waiting", "coming", "applying"}

EdgeAt(c, ph) ==
    /\ Up(c) <=> ph # "working"
    /\ Up(Parent(c)) <=> ph = "waiting"
    /\ start[c] = IF ph = "working" /\ IsLeaf(c) THEN 1 ELSE 0
    /\ IF ph = "sent" THEN lst_chan[c] = <<reported[c]>> ELSE lst_chan[c] = <<>>
    /\ IF ph = "coming" THEN \E g \in Time : gst_chan[c] = <<g>>
                        ELSE gst_chan[c] = <<>>
    /\ stage[c] = "idle" <=> ph # "applying"
    /\ ChildIndex(c) \in lst_received[Parent(c)] <=> ph = "counted"
    /\ ph = "counted" => min_lst[Parent(c)] <= reported[c]
    /\ ph = "waiting" => reported[Parent(c)] <= reported[c]

Edges == \A c \in Partition \ {0} : \E ph \in Phases : EdgeAt(c, ph)

\* What a partition has counted, and its reports against its peak.
Nodes ==
    \A p \in Partition :
        /\ lst_received[p] \subseteq 0 .. NumChildren(p) - 1
        /\ MinReplicaVersion(version_vector[p]) <= peak[p]
        /\ Up(p) => reported[p] <= peak[p]

Root ==
    /\ Up(0) <=> stage[0] # "idle"
    /\ stage[0] = "locking" => min_lst[0] = reported[0]
    /\ start[0] = 0 /\ lst_chan[0] = <<>> /\ gst_chan[0] = <<>>

\* Every GST value there is, applied or on its way, is safe.
Values ==
    /\ \A p \in Partition :
        /\ Safe(gst[p])
        /\ Safe(root_gst[p])
        /\ \A g \in hints[p] : Safe(g)
        /\ \A g \in Time : gst_chan[p] = <<g>> => Safe(g)
    /\ \A g \in known : Safe(g)

IInv == TypeOK /\ Edges /\ Nodes /\ Root /\ Values

-----------------------------------------------------------------------------
(***************************************************************************)
(* Data                                                                    *)
(***************************************************************************)

\* min_replica_version returns an entry of the vector.
LEMMA MinReplicaVersionType ==
    ASSUME NEW v \in [Replica -> Time]
    PROVE  MinReplicaVersion(v) \in Time
<1> DEFINE V == {v[r] : r \in Replica}
<1>1. V \subseteq Nat /\ V # {}
  BY GstAssumption DEF Time, Replica
<1>2. PICK m \in V : \A y \in V : ~(<<y, m>> \in OpToRel(<, Nat))
  BY <1>1, NatLessThanWellFounded, WFMin
<1>3. \A y \in V : m <= y
  <2> SUFFICES ASSUME NEW y \in V, y < m PROVE FALSE
    BY <1>1
  <2>1. <<y, m>> \in OpToRel(<, Nat)
    BY <1>1 DEF OpToRel
  <2> QED  BY <1>2, <2>1
<1>4. \E x \in V : \A r \in Replica : x <= v[r]
  BY <1>3
<1>5. MinReplicaVersion(v) \in V
  BY <1>4 DEF MinReplicaVersion
<1> QED  BY <1>5

\* The channels of the tree hold one message at most.
LEMMA OneMessage ==
    ASSUME NEW S, NEW x \in S
    PROVE  /\ <<x>> \in Seq(S)
           /\ <<x>> # <<>>
           /\ Append(<<>>, x) = <<x>>
           /\ Head(<<x>>) = x
           /\ Tail(<<x>>) = <<>>
           /\ \A y \in S : <<x>> = <<y>> => x = y
           /\ Len(<<x>>) = 1
           /\ Len(<<>>) = 0
  OBVIOUS

LEMMA Min2Max2 ==
    ASSUME NEW a \in Time, NEW b \in Time
    PROVE  /\ Min2(a, b) \in Time /\ Min2(a, b) <= a /\ Min2(a, b) <= b
           /\ Max2(a, b) \in Time /\ a <= Max2(a, b) /\ b <= Max2(a, b)
           /\ Max2(a, b) \in {a, b}
  BY GstAssumption DEF Min2, Max2, Time

LEMMA Tree ==
    /\ 0 \in Partition
    /\ \A c \in Partition \ {0} :
        /\ Parent(c) \in Partition
        /\ Parent(c) # c
        /\ ChildIndex(c) \in Slot
        /\ ChildIndex(c) \in 0 .. NumChildren(Parent(c)) - 1
        /\ ~IsLeaf(Parent(c))
    /\ \A c, d \in Partition \ {0} :
        Parent(c) = Parent(d) /\ ChildIndex(c) = ChildIndex(d) => c = d
    /\ \A p \in Partition : NumChildren(p) \in Nat
    /\ \A p \in Partition, c \in Partition \ {0} :
            c \in Children(p) <=> Parent(c) = p
    /\ \A p \in Partition : 0 \notin Children(p)
<1>1. 0 \in Partition
  BY TreeAssumption DEF Partition
<1>2. \A c \in Partition \ {0} :
        Parent(c) \in Partition /\ Parent(c) # c /\ c \in Children(Parent(c))
  BY ParentBefore, ChildrenHaveParent, TreeAssumption DEF Partition
<1>3. \A c \in Partition \ {0} : ChildIndex(c) \in Slot
  BY Quotient, TreeAssumption DEF Partition, Slot
<1>4. \A c \in Partition \ {0} :
        ChildIndex(c) \in 0 .. NumChildren(Parent(c)) - 1 /\ ~IsLeaf(Parent(c))
  BY <1>2, Slots
<1>5. \A c, d \in Partition \ {0} :
        Parent(c) = Parent(d) /\ ChildIndex(c) = ChildIndex(d) => c = d
  BY <1>2, Slots
<1>6. \A p \in Partition : NumChildren(p) \in Nat /\ 0 \notin Children(p)
  BY <1>1, Slots, ChildrenHaveParent
<1>7. \A p \in Partition, c \in Partition \ {0} :
            c \in Children(p) <=> Parent(c) = p
  BY ChildrenHaveParent
<1> QED  BY <1>1, <1>2, <1>3, <1>4, <1>5, <1>6, <1>7

-----------------------------------------------------------------------------
(***************************************************************************)
(* Type correctness                                                        *)
(***************************************************************************)
LEMMA UpdateGstType ==
    ASSUME TypeOK, NEW p \in Partition, NEW g \in Time, UpdateGst(p, g)
    PROVE  gst' \in [Partition -> Time] /\ rotx' \in [Partition -> SUBSET Time]
<1>1. gst[p] \in Time
  BY DEF TypeOK
<1>2. Max2(gst[p], g) \in Time
  BY <1>1, Min2Max2
<1> QED  BY <1>2 DEF TypeOK, UpdateGst

LEMMA TypeStep == TypeOK /\ [Next]_vars => TypeOK'
<1> SUFFICES ASSUME TypeOK, [Next]_vars PROVE TypeOK'
  OBVIOUS
<1> USE DEF state, chans, chains, history
<1>1. CASE UNCHANGED vars
  BY <1>1 DEF vars, TypeOK
<1>2. ASSUME NEW p \in Partition, StartGstComputation(p) PROVE TypeOK'
  <2>1. MinReplicaVersion(version_vector[p]) \in Time
    BY MinReplicaVersionType DEF TypeOK
  <2>2. start[p] \in Nat /\ lst_chan[p] \in Seq(Time)
    BY DEF TypeOK
  <2>3. Append(lst_chan[p], MinReplicaVersion(version_vector[p])) \in Seq(Time)
    BY <2>1, <2>2, AppendProperties
  <2>4. start[p] - 1 \in Nat
    BY <1>2, <2>2 DEF StartGstComputation
  <2> QED  BY <1>2, <2>1, <2>3, <2>4 DEF StartGstComputation, TypeOK
<1>3. ASSUME NEW p \in Partition, StartGstComputationAlone(p) PROVE TypeOK'
  <2>1. version_vector[p][0] \in Time
    BY GstAssumption DEF TypeOK, Replica
  <2>2. UpdateGst(p, version_vector[p][0])
    BY <1>3 DEF StartGstComputationAlone
  <2>3. gst' \in [Partition -> Time] /\ rotx' \in [Partition -> SUBSET Time]
    BY <2>1, <2>2, UpdateGstType
  <2> QED  BY <1>3, <2>3 DEF StartGstComputationAlone, TypeOK
<1>4. ASSUME NEW c \in Partition \ {0}, ProcessLstFromLeaf(c) PROVE TypeOK'
  <2> DEFINE p == Parent(c)
             lst == Head(lst_chan[c])
             min == IF lst_received[p] = {} THEN lst ELSE Min2(lst, min_lst[p])
  <2>1. p \in Partition /\ ChildIndex(c) \in Slot
    BY Tree
  <2>2. lst \in Time /\ Tail(lst_chan[c]) \in Seq(Time)
    BY <1>4, HeadTailProperties DEF ProcessLstFromLeaf, TypeOK
  <2>3. min_lst[p] \in Time
    BY <2>1 DEF TypeOK
  <2>4. min \in Time
    BY <2>2, <2>3, Min2Max2
  <2>5. /\ min_lst' = [min_lst EXCEPT ![p] = min]
        /\ lst_received' = [lst_received EXCEPT ![p] = @ \cup {ChildIndex(c)}]
        /\ lst_chan' = [lst_chan EXCEPT ![c] = Tail(@)]
        /\ UNCHANGED <<version_vector, gst, rotx, start, gst_chan, known,
                       chains, history>>
    BY <1>4 DEF ProcessLstFromLeaf
  <2> HIDE DEF p, lst, min
  <2> QED  BY <2>1, <2>2, <2>4, <2>5 DEF TypeOK
<1>5. ASSUME NEW c \in Partition \ {0}, ProcessLastLstFromLeaf(c) PROVE TypeOK'
  <2> DEFINE p == Parent(c)
             lst == Head(lst_chan[c])
             kids == IF lst_received[p] = {} THEN lst ELSE Min2(lst, min_lst[p])
             min == Min2(kids, MinReplicaVersion(version_vector[p]))
             taken == [lst_chan EXCEPT ![c] = Tail(@)]
  <2>1. p \in Partition
    BY Tree
  <2>2. lst \in Time /\ Tail(lst_chan[c]) \in Seq(Time)
    BY <1>5, HeadTailProperties DEF ProcessLastLstFromLeaf, TypeOK
  <2>3. min_lst[p] \in Time /\ MinReplicaVersion(version_vector[p]) \in Time
    BY <2>1, MinReplicaVersionType DEF TypeOK
  <2>4. kids \in Time
    BY <2>2, <2>3, Min2Max2
  <2>5. min \in Time
    BY <2>3, <2>4, Min2Max2
  <2>6. /\ min_lst' = [min_lst EXCEPT ![p] = min]
        /\ lst_received' = [lst_received EXCEPT ![p] = {}]
        /\ reported' = [reported EXCEPT ![p] = min]
        /\ \/ stage' = [stage EXCEPT ![p] = "locking"] /\ lst_chan' = taken
           \/ /\ lst_chan' = [taken EXCEPT ![p] = Append(@, min)]
              /\ stage' = stage
        /\ UNCHANGED <<version_vector, gst, rotx, start, gst_chan, known, lock,
                       root_gst, hints, peak>>
    BY <1>5 DEF ProcessLastLstFromLeaf
  <2> HIDE DEF p, lst, kids, min
  <2>7. taken \in [Partition -> Seq(Time)]
    BY <2>2 DEF TypeOK
  <2> HIDE DEF taken
  <2>8. Append(taken[p], min) \in Seq(Time)
    BY <2>1, <2>5, <2>7, AppendProperties
  <2>9. [taken EXCEPT ![p] = Append(@, min)] \in [Partition -> Seq(Time)]
    BY <2>7, <2>8
  <2>10. /\ lst_chan' \in [Partition -> Seq(Time)]
         /\ stage' \in [Partition -> {"idle", "locking", "unlocking"}]
    BY <2>6, <2>7, <2>9 DEF TypeOK
  <2> QED  BY <2>5, <2>6, <2>10 DEF TypeOK
<1>6. CASE LstFromLeafRootLocked
  <2>1. 0 \in Partition /\ min_lst[0] \in Time
    BY Tree DEF TypeOK
  <2>2. gst' \in [Partition -> Time] /\ rotx' \in [Partition -> SUBSET Time]
    BY <1>6, <2>1, UpdateGstType DEF LstFromLeafRootLocked
  <2> QED  BY <1>6, <2>2 DEF LstFromLeafRootLocked, TypeOK
<1>7. ASSUME NEW p \in Partition, NEW g \in Time, SendGst(p, g)
      PROVE  gst_chan' \in [Partition -> Seq(Time)]
  <2>1. \A c \in Partition : gst_chan[c] \in Seq(Time)
    BY DEF TypeOK
  <2>2. \A c \in Partition : Append(gst_chan[c], g) \in Seq(Time)
    BY <1>7, <2>1, AppendProperties
  <2> QED  BY <1>7, <2>1, <2>2 DEF SendGst
<1>8. CASE LstFromLeafRootUnlocked
  <2>1. 0 \in Partition /\ gst[0] \in Time
    BY Tree DEF TypeOK
  <2>2. gst_chan' \in [Partition -> Seq(Time)]
    BY <1>7, <1>8, <2>1 DEF LstFromLeafRootUnlocked
  <2> QED  BY <1>8, <2>2 DEF LstFromLeafRootUnlocked, TypeOK
<1>9. ASSUME NEW p \in Partition, GstFromRoot(p) PROVE TypeOK'
  <2>1. Head(gst_chan[p]) \in Time /\ Tail(gst_chan[p]) \in Seq(Time)
    BY <1>9, HeadTailProperties DEF GstFromRoot, TypeOK
  <2> QED  BY <1>9, <2>1 DEF GstFromRoot, TypeOK
<1>10. ASSUME NEW p \in Partition, GstFromRootLocked(p) PROVE TypeOK'
  <2>1. root_gst[p] \in Time
    BY DEF TypeOK
  <2>2. gst' \in [Partition -> Time] /\ rotx' \in [Partition -> SUBSET Time]
    BY <1>10, <2>1, UpdateGstType DEF GstFromRootLocked
  <2> QED  BY <1>10, <2>2 DEF GstFromRootLocked, TypeOK
<1>11. ASSUME NEW p \in Partition, GstFromRootUnlocked(p) PROVE TypeOK'
  <2>1. root_gst[p] \in Time /\ start[p] + 1 \in Nat
    BY DEF TypeOK
  <2>2. gst_chan' \in [Partition -> Seq(Time)] /\ start' \in [Partition -> Nat]
    BY <1>7, <1>11, <2>1 DEF GstFromRootUnlocked, TypeOK
  <2> QED  BY <1>11, <2>2 DEF GstFromRootUnlocked, TypeOK
<1>12. ASSUME NEW p \in Partition, HandOutGst(p) PROVE TypeOK'
  BY <1>12 DEF HandOutGst, TypeOK
<1>13. ASSUME NEW p \in Partition, NEW g \in known, NeedUpdate(p, g)
       PROVE  TypeOK'
  BY <1>13 DEF NeedUpdate, TypeOK
<1>14. ASSUME NEW p \in Partition, NEW g \in known, HintLocked(p, g)
       PROVE  TypeOK'
  <2>1. g \in Time
    BY DEF TypeOK
  <2>2. gst' \in [Partition -> Time] /\ rotx' \in [Partition -> SUBSET Time]
    BY <1>14, <2>1, UpdateGstType DEF HintLocked
  <2> QED  BY <1>14, <2>2 DEF HintLocked, TypeOK
<1>15. ASSUME NEW p \in Partition, HintUnlocked(p) PROVE TypeOK'
  BY <1>15 DEF HintUnlocked, TypeOK
<1>16. ASSUME NEW p \in Partition, NEW d \in Time, RotxRequestWaits(p, d)
       PROVE  TypeOK'
  BY <1>16 DEF RotxRequestWaits, TypeOK
<1>17. ASSUME NEW p \in Partition, SetVersion(p) PROVE TypeOK'
  <2>1. version_vector' \in [Partition -> [Replica -> Time]]
    BY <1>17 DEF SetVersion, TypeOK
  <2>2. MinReplicaVersion(version_vector'[p]) \in Time
    BY <2>1, MinReplicaVersionType
  <2>3. peak[p] \in Time
    BY DEF TypeOK
  <2>4. Max2(peak[p], MinReplicaVersion(version_vector'[p])) \in Time
    BY <2>2, <2>3, Min2Max2
  <2> QED  BY <1>17, <2>1, <2>4 DEF SetVersion, TypeOK
<1> QED
  BY <1>1, <1>2, <1>3, <1>4, <1>5, <1>6, <1>8, <1>9, <1>10, <1>11, <1>12,
     <1>13, <1>14, <1>15, <1>16, <1>17 DEF Next, Round, Hint

LEMMA TypeInit == Init => TypeOK
  BY GstAssumption, EmptySeq DEF Init, TypeOK, Time, NoReport, Slot

\* Every variable keeps its type, with one partition or many.
THEOREM TypeCorrect == Spec => []TypeOK
  BY TypeInit, TypeStep, PTL DEF Spec

-----------------------------------------------------------------------------
(***************************************************************************)
(* Consequences of the invariant                                           *)
(***************************************************************************)

\* When the root has reported, every partition has, and no report is below
\* the root's: so the root's is below every peak.
LEMMA RootSafe ==
    ASSUME TypeOK, Edges, Nodes, Up(0)
    PROVE  reported[0] \in Time /\ Safe(reported[0])
<1> DEFINE S == {q \in Partition : Up(q) /\ reported[0] <= reported[q]}
<1>1. \A q \in Partition : Up(q) => reported[q] \in Time
  BY DEF TypeOK, Up
<1>2. reported[0] \in Time
  BY <1>1, Tree
<1>3. 0 \in S
  BY <1>2, Tree DEF Time
<1>4. ASSUME NEW c \in Partition \ {0}, Parent(c) \in S PROVE c \in S
  <2>1. PICK ph \in Phases : EdgeAt(c, ph)
    BY DEF Edges
  <2>2. Parent(c) \in Partition /\ Up(Parent(c)) /\ reported[0] <= reported[Parent(c)]
    BY <1>4
  <2>3. Up(c) /\ reported[Parent(c)] <= reported[c]
    BY <2>1, <2>2 DEF EdgeAt
  <2>4. reported[c] \in Nat /\ reported[Parent(c)] \in Nat /\ reported[0] \in Nat
    BY <1>1, <1>2, <2>2, <2>3 DEF Time
  <2> QED  BY <2>2, <2>3, <2>4
<1> HIDE DEF S
<1>5. Partition \subseteq S
  BY <1>3, <1>4, RootReachesAll
<1>6. ASSUME NEW q \in Partition PROVE reported[0] <= peak[q]
  <2>1. Up(q) /\ reported[0] <= reported[q]
    BY <1>5 DEF S
  <2>2. reported[q] <= peak[q]
    BY <2>1 DEF Nodes
  <2>3. reported[q] \in Nat /\ peak[q] \in Nat /\ reported[0] \in Nat
    BY <1>1, <1>2, <2>1 DEF TypeOK, Time
  <2> QED  BY <2>1, <2>2, <2>3
<1> QED  BY <1>2, <1>6 DEF Safe

\* An edge stays where it is when nothing it depends on changes.
LEMMA EdgeFrame ==
    ASSUME NEW c \in Partition \ {0}, NEW ph \in Phases, EdgeAt(c, ph),
           reported'[c] = reported[c],
           reported'[Parent(c)] = reported[Parent(c)],
           start'[c] = start[c],
           lst_chan'[c] = lst_chan[c],
           gst_chan'[c] = gst_chan[c],
           stage'[c] = "idle" <=> stage[c] = "idle",
           ChildIndex(c) \in lst_received'[Parent(c)]
                <=> ChildIndex(c) \in lst_received[Parent(c)],
           ph = "counted" => min_lst'[Parent(c)] <= reported[c]
    PROVE  EdgeAt(c, ph)'
  BY DEF EdgeAt, Up

LEMMA EdgesFrame ==
    ASSUME Edges, UNCHANGED <<reported, start, lst_chan, gst_chan, lst_received,
                              min_lst>>,
           \A c \in Partition \ {0} : stage'[c] = "idle" <=> stage[c] = "idle"
    PROVE  Edges'
<1> SUFFICES ASSUME NEW c \in Partition \ {0}
             PROVE  \E ph \in Phases : EdgeAt(c, ph)'
  BY DEF Edges
<1>1. PICK ph \in Phases : EdgeAt(c, ph)
  BY DEF Edges
<1>2. ph = "counted" => min_lst[Parent(c)] <= reported[c]
  BY <1>1 DEF EdgeAt
<1> QED  BY <1>1, <1>2, EdgeFrame

\* gr_update_gst with a safe value.
LEMMA UpdateGstSafe ==
    ASSUME TypeOK, \A q \in Partition : Safe(gst[q]), NEW p \in Partition,
           NEW g \in Time, Safe(g), UpdateGst(p, g)
    PROVE  \A q \in Partition : Safe(gst'[q])
<1>1. gst[p] \in Time
  BY DEF TypeOK
<1>2. Max2(gst[p], g) \in {gst[p], g}
  BY <1>1, Min2Max2
<1>3. \A q \in Partition : gst'[q] \in {gst[q], g}
  BY <1>2 DEF UpdateGst, TypeOK
<1> QED  BY <1>3

-----------------------------------------------------------------------------
(***************************************************************************)
(* Steps that are not of the rounds                                        *)
(***************************************************************************)
LEMMA SetVersionOk ==
    ASSUME IInv, TypeOK', NEW p \in Partition, SetVersion(p)
    PROVE  (Edges /\ Nodes /\ Root /\ Values)'
<1> USE DEF state, chans, chains, history
<1>1. UNCHANGED <<gst, min_lst, lst_received, rotx, chans, chains, reported>>
  BY DEF SetVersion
<1>2. \A q \in Partition :
        /\ peak[q] \in Nat /\ peak'[q] \in Nat /\ peak[q] <= peak'[q]
        /\ MinReplicaVersion(version_vector'[q]) <= peak'[q]
  <2> SUFFICES ASSUME NEW q \in Partition
               PROVE  /\ peak[q] \in Nat /\ peak'[q] \in Nat /\ peak[q] <= peak'[q]
                      /\ MinReplicaVersion(version_vector'[q]) <= peak'[q]
    OBVIOUS
  <2>1. peak[q] \in Time /\ peak'[q] \in Time /\ version_vector'[q] \in [Replica -> Time]
    BY DEF IInv, TypeOK
  <2>2. MinReplicaVersion(version_vector'[q]) \in Time
    BY <2>1, MinReplicaVersionType
  <2>3. CASE q = p
    <3>1. peak'[q] = Max2(peak[q], MinReplicaVersion(version_vector'[q]))
      BY <2>3 DEF SetVersion, IInv, TypeOK
    <3>2. /\ peak[q] <= peak'[q]
          /\ MinReplicaVersion(version_vector'[q]) <= peak'[q]
      BY <2>1, <2>2, <3>1, Min2Max2
    <3> QED  BY <2>1, <3>2 DEF Time
  <2>4. CASE q # p
    <3>1. peak'[q] = peak[q] /\ version_vector'[q] = version_vector[q]
      BY <2>4 DEF SetVersion, IInv, TypeOK
    <3> QED  BY <2>1, <3>1 DEF IInv, Nodes, Time
  <2> QED  BY <2>3, <2>4
<1>3. \A g \in Time : Safe(g) => Safe(g)'
  BY <1>2 DEF Safe, Time
<1>4. Edges'
  BY <1>1, EdgesFrame DEF IInv
<1>5. Root'
  BY <1>1 DEF IInv, Root, Up
<1>6. Nodes'
  <2> SUFFICES ASSUME NEW q \in Partition
               PROVE  /\ lst_received'[q] \subseteq 0 .. NumChildren(q) - 1
                      /\ MinReplicaVersion(version_vector'[q]) <= peak'[q]
                      /\ Up(q)' => reported'[q] <= peak'[q]
    BY DEF Nodes
  <2>1. lst_received'[q] \subseteq 0 .. NumChildren(q) - 1
    BY <1>1 DEF IInv, Nodes
  <2>2. ASSUME Up(q)' PROVE reported'[q] <= peak'[q]
    <3>1. Up(q) /\ reported'[q] = reported[q] /\ reported[q] \in Nat
      BY <1>1, <2>2 DEF Up, IInv, TypeOK, Time
    <3>2. reported[q] <= peak[q]
      BY <3>1 DEF IInv, Nodes
    <3> QED  BY <1>2, <3>1, <3>2
  <2> QED  BY <1>2, <2>1, <2>2
<1>7. Values'
  <2>1. \A q \in Partition :
            /\ gst[q] \in Time /\ root_gst[q] \in Time
            /\ \A g \in hints[q] : g \in Time
    BY DEF IInv, TypeOK
  <2>2. \A g \in known : g \in Time
    BY DEF IInv, TypeOK
  <2> QED  BY <1>1, <1>3, <2>1, <2>2 DEF IInv, Values
<1> QED  BY <1>4, <1>5, <1>6, <1>7

LEMMA HintsOk ==
    ASSUME IInv, TypeOK', NEW p \in Partition,
           \/ HandOutGst(p)
           \/ Hint(p)
           \/ \E d \in Time : RotxRequestWaits(p, d)
    PROVE  (Edges /\ Nodes /\ Root /\ Values)'
<1> USE DEF state, chans, chains, history
<1>1. UNCHANGED <<version_vector, min_lst, lst_received, start, lst_chan,
                  gst_chan, stage, root_gst, peak, reported>>
  BY DEF HandOutGst, Hint, NeedUpdate, HintLocked, HintUnlocked, RotxRequestWaits
<1>2. Edges'
  BY <1>1, EdgesFrame DEF IInv
<1>3. Nodes' /\ Root'
  BY <1>1 DEF IInv, Nodes, Root, Up
<1>4. \A g : Safe(g)' <=> Safe(g)
  BY <1>1 DEF Safe
<1>5. Values
  BY DEF IInv
<1>6. CASE HandOutGst(p)
  <2>1. /\ UNCHANGED <<gst, hints>>
        /\ known' = known \cup {gst[p]}
    BY <1>6 DEF HandOutGst
  <2> QED  BY <1>1, <1>2, <1>3, <1>4, <1>5, <2>1 DEF Values
<1>7. CASE HintUnlocked(p) \/ \E d \in Time : RotxRequestWaits(p, d)
  <2>1. UNCHANGED <<gst, hints, known>>
    BY <1>7 DEF HintUnlocked, RotxRequestWaits
  <2> QED  BY <1>1, <1>2, <1>3, <1>4, <1>5, <2>1 DEF Values
<1>8. ASSUME NEW g \in known, NeedUpdate(p, g)
      PROVE  (Edges /\ Nodes /\ Root /\ Values)'
  <2>1. /\ UNCHANGED <<gst, known>>
        /\ \A q \in Partition : hints'[q] \subseteq hints[q] \cup {g}
    BY <1>8 DEF NeedUpdate, IInv, TypeOK
  <2> QED  BY <1>1, <1>2, <1>3, <1>4, <1>5, <2>1 DEF Values
<1>9. ASSUME NEW g \in known, HintLocked(p, g)
      PROVE  (Edges /\ Nodes /\ Root /\ Values)'
  <2>1. /\ UNCHANGED known
        /\ \A q \in Partition : hints'[q] \subseteq hints[q]
        /\ UpdateGst(p, g)
    BY <1>9 DEF HintLocked, IInv, TypeOK
  <2>2. Safe(g) /\ g \in Time
    BY <1>5 DEF Values, IInv, TypeOK
  <2>3. \A q \in Partition : Safe(gst'[q])
    BY <1>5, <2>1, <2>2, UpdateGstSafe DEF Values, IInv
  <2> QED  BY <1>1, <1>2, <1>3, <1>4, <1>5, <2>1, <2>3 DEF Values
<1> QED  BY <1>6, <1>7, <1>8, <1>9 DEF Hint

-----------------------------------------------------------------------------
(***************************************************************************)
(* The way up                                                              *)
(***************************************************************************)

\* A leaf reports: its edge goes from working to sent.
LEMMA StartOk ==
    ASSUME IInv, TypeOK', NEW p \in Partition, StartGstComputation(p)
    PROVE  (Edges /\ Nodes /\ Root /\ Values)'
<1> USE DEF state, chans, chains, history
<1> DEFINE lst == MinReplicaVersion(version_vector[p])
<1>1. /\ p # 0 /\ start[p] > 0
      /\ lst_chan' = [lst_chan EXCEPT ![p] = Append(@, lst)]
      /\ reported' = [reported EXCEPT ![p] = lst]
      /\ start' = [start EXCEPT ![p] = @ - 1]
      /\ UNCHANGED <<state, gst_chan, known, chains, peak>>
  BY DEF StartGstComputation
<1>2. lst \in Time /\ lst # NoReport /\ lst <= peak[p]
  <2>1. lst \in Time
    BY MinReplicaVersionType DEF IInv, TypeOK
  <2> QED  BY <2>1 DEF IInv, Nodes, Time, NoReport
<1> HIDE DEF lst
<1>3. /\ reported \in [Partition -> Time \cup {NoReport}]
      /\ start \in [Partition -> Nat]
      /\ lst_chan \in [Partition -> Seq(Time)]
  BY DEF IInv, TypeOK
<1>4. PICK old \in Phases : EdgeAt(p, old)
  BY <1>1 DEF IInv, Edges
<1>5. /\ old = "working" /\ IsLeaf(p) /\ start[p] = 1
      /\ lst_chan[p] = <<>> /\ gst_chan[p] = <<>> /\ stage[p] = "idle"
      /\ ~Up(Parent(p)) /\ ChildIndex(p) \notin lst_received[Parent(p)]
  BY <1>1, <1>4 DEF EdgeAt
<1>6. Edges'
  <2> SUFFICES ASSUME NEW c \in Partition \ {0}
               PROVE  \E ph \in Phases : EdgeAt(c, ph)'
    BY DEF Edges
  <2>1. CASE c = p
    <3>1. Parent(p) \in Partition /\ Parent(p) # p
      BY <1>1, Tree
    <3>2. /\ lst_chan'[p] = <<lst>> /\ reported'[p] = lst /\ start'[p] = 0
          /\ reported'[Parent(p)] = reported[Parent(p)]
      BY <1>1, <1>2, <1>3, <1>5, <3>1, OneMessage
    <3>3. EdgeAt(p, "sent")'
      BY <1>1, <1>2, <1>5, <3>2 DEF EdgeAt, Up
    <3> QED  BY <2>1, <3>3 DEF Phases
  <2>2. CASE c # p
    <3>1. PICK ph \in Phases : EdgeAt(c, ph)
      BY DEF IInv, Edges
    <3>2. Parent(c) \in Partition /\ Parent(c) # p
      BY <1>5, Tree
    <3>3. /\ lst_chan'[c] = lst_chan[c] /\ start'[c] = start[c]
          /\ reported'[c] = reported[c]
          /\ reported'[Parent(c)] = reported[Parent(c)]
      BY <1>1, <1>3, <2>2, <3>2
    <3>4. ph = "counted" => min_lst[Parent(c)] <= reported[c]
      BY <3>1 DEF EdgeAt
    <3>5. EdgeAt(c, ph)'
      BY <1>1, <3>1, <3>3, <3>4, EdgeFrame
    <3> QED  BY <3>5
  <2> QED  BY <2>1, <2>2
<1>7. Nodes'
  <2>1. \A q \in Partition : reported'[q] = IF q = p THEN lst ELSE reported[q]
    BY <1>1, <1>3
  <2> QED  BY <1>1, <1>2, <2>1 DEF IInv, Nodes, Up
<1>8. Root'
  <2>1. 0 \in Partition
    BY Tree
  <2>2. reported'[0] = reported[0] /\ start'[0] = start[0] /\ lst_chan'[0] = lst_chan[0]
    BY <1>1, <1>3, <2>1
  <2> QED  BY <1>1, <2>2 DEF IInv, Root, Up
<1>9. Values'
  BY <1>1 DEF IInv, Values, Safe
<1> QED  BY <1>6, <1>7, <1>8, <1>9

\* A parent counts a report that is not the last: the edge goes from sent to
\* counted, those of the siblings stay.
LEMMA LstOk ==
    ASSUME IInv, TypeOK', NEW c \in Partition \ {0}, ProcessLstFromLeaf(c)
    PROVE  (Edges /\ Nodes /\ Root /\ Values)'
<1> USE DEF state, chans, chains, history
<1> DEFINE p == Parent(c)
           lst == Head(lst_chan[c])
           min == IF lst_received[p] = {} THEN lst ELSE Min2(lst, min_lst[p])
<1>1. /\ lst_chan[c] # <<>>
      /\ ChildIndex(c) \notin lst_received[p]
      /\ min_lst' = [min_lst EXCEPT ![p] = min]
      /\ lst_received' = [lst_received EXCEPT ![p] = @ \cup {ChildIndex(c)}]
      /\ lst_chan' = [lst_chan EXCEPT ![c] = Tail(@)]
      /\ UNCHANGED <<version_vector, gst, rotx, start, gst_chan, known, chains,
                     history>>
  BY DEF ProcessLstFromLeaf
<1>2. /\ p \in Partition /\ p # c /\ 0 \in Partition
      /\ ChildIndex(c) \in 0 .. NumChildren(p) - 1
  BY Tree
<1>3. PICK old \in Phases : EdgeAt(c, old)
  BY DEF IInv, Edges
<1>4. /\ old = "sent" /\ Up(c) /\ ~Up(p) /\ lst_chan[c] = <<reported[c]>>
      /\ start[c] = 0 /\ gst_chan[c] = <<>> /\ stage[c] = "idle"
  BY <1>1, <1>3 DEF EdgeAt
<1>5. /\ reported[c] \in Time /\ min_lst[p] \in Time
      /\ min_lst \in [Partition -> Time]
      /\ lst_received \in [Partition -> SUBSET Slot]
      /\ lst_chan \in [Partition -> Seq(Time)]
  BY <1>2, <1>4 DEF IInv, TypeOK, Up
<1>6. lst = reported[c] /\ Tail(lst_chan[c]) = <<>>
  BY <1>4, <1>5, OneMessage
<1>7. /\ min <= reported[c]
      /\ lst_received[p] # {} => min <= min_lst[p]
      /\ min \in Time
  BY <1>5, <1>6, Min2Max2 DEF Time
<1> HIDE DEF p, lst, min
<1>8. Edges'
  <2> SUFFICES ASSUME NEW d \in Partition \ {0}
               PROVE  \E ph \in Phases : EdgeAt(d, ph)'
    BY DEF Edges
  <2>0. Parent(d) \in Partition /\ Parent(d) # d
    BY Tree
  <2>1. CASE d = c
    <3>1. /\ lst_chan'[c] = <<>>
          /\ ChildIndex(c) \in lst_received'[p]
          /\ min_lst'[p] = min
      BY <1>1, <1>2, <1>5, <1>6
    <3>2. EdgeAt(c, "counted")'
      BY <1>1, <1>4, <1>7, <3>1 DEF EdgeAt, Up, p
    <3> QED  BY <2>1, <3>2 DEF Phases
  <2>2. CASE d # c
    <3>1. PICK ph \in Phases : EdgeAt(d, ph)
      BY DEF IInv, Edges
    <3>2. lst_chan'[d] = lst_chan[d]
      BY <1>1, <1>5, <2>2
    <3>3. ChildIndex(d) \in lst_received'[Parent(d)]
            <=> ChildIndex(d) \in lst_received[Parent(d)]
      <4>1. CASE Parent(d) = p
        <5>1. ChildIndex(d) # ChildIndex(c)
          BY <2>2, <4>1, Tree DEF p
        <5> QED  BY <1>1, <1>2, <1>5, <4>1, <5>1
      <4>2. CASE Parent(d) # p
        BY <1>1, <1>5, <2>0, <4>2
      <4> QED  BY <4>1, <4>2
    <3>4. ASSUME ph = "counted" PROVE min_lst'[Parent(d)] <= reported[d]
      <4>1. /\ min_lst[Parent(d)] <= reported[d] /\ Up(d)
            /\ ChildIndex(d) \in lst_received[Parent(d)]
        BY <3>1, <3>4 DEF EdgeAt
      <4>2. reported[d] \in Time
        BY <4>1 DEF Up, IInv, TypeOK
      <4>3. CASE Parent(d) = p
        <5>1. min <= min_lst[p] /\ min_lst'[p] = min
          BY <1>1, <1>2, <1>5, <1>7, <4>1, <4>3
        <5> QED  BY <1>5, <1>7, <4>1, <4>2, <4>3, <5>1 DEF Time
      <4>4. CASE Parent(d) # p
        BY <1>1, <1>5, <2>0, <4>1, <4>4
      <4> QED  BY <4>3, <4>4
    <3>5. EdgeAt(d, ph)'
      BY <1>1, <3>1, <3>2, <3>3, <3>4, EdgeFrame
    <3> QED  BY <3>5
  <2> QED  BY <2>1, <2>2
<1>9. Nodes'
  <2>1. \A q \in Partition : lst_received'[q] \subseteq 0 .. NumChildren(q) - 1
    BY <1>1, <1>2, <1>5 DEF IInv, Nodes
  <2> QED  BY <1>1, <2>1 DEF IInv, Nodes, Up
<1>10. Root'
  <2>1. stage[0] = "locking" => p # 0
    BY <1>4 DEF IInv, Root
  <2>2. lst_chan'[0] = lst_chan[0] /\ (p # 0 => min_lst'[0] = min_lst[0])
    BY <1>1, <1>2, <1>5
  <2> QED  BY <1>1, <2>1, <2>2 DEF IInv, Root, Up
<1>11. Values'
  BY <1>1 DEF IInv, Values, Safe
<1> QED  BY <1>8, <1>9, <1>10, <1>11

\* With one report missing, every other child has been counted.
LEMMA OthersCounted ==
    ASSUME Nodes, NEW c \in Partition \ {0},
           ChildIndex(c) \notin lst_received[Parent(c)],
           Cardinality(lst_received[Parent(c)]) = NumChildren(Parent(c)) - 1,
           NEW d \in Partition \ {0}, Parent(d) = Parent(c), d # c
    PROVE  ChildIndex(d) \in lst_received[Parent(c)]
<1> DEFINE p == Parent(c)
           R == lst_received[p]
           I == 0 .. NumChildren(p) - 1
           all == R \cup {ChildIndex(c)}
<1>1. p \in Partition /\ NumChildren(p) \in Nat
  BY Tree
<1>2. /\ ChildIndex(c) \in I /\ ChildIndex(d) \in I
      /\ ChildIndex(c) # ChildIndex(d)
  BY Tree
<1>3. R \subseteq I
  BY <1>1 DEF Nodes
<1> HIDE DEF p
<1>4. IsFiniteSet(I) /\ Cardinality(I) = NumChildren(p)
  <2>1. 0 \in Int /\ NumChildren(p) - 1 \in Int
    BY <1>1
  <2>2. /\ IsFiniteSet(I)
        /\ Cardinality(I) = IF 0 > NumChildren(p) - 1 THEN 0
                            ELSE (NumChildren(p) - 1) - 0 + 1
    BY <2>1, FS_Interval
  <2> QED  BY <1>1, <2>2
<1>5. IsFiniteSet(R)
  BY <1>3, <1>4, FS_Subset
<1>6. Cardinality(all) = Cardinality(R) + 1
  BY <1>5, FS_AddElement DEF p
<1>7. Cardinality(all) = Cardinality(I)
  BY <1>1, <1>4, <1>6 DEF p
<1>8. all \in SUBSET I
  BY <1>2, <1>3
<1> HIDE DEF I, R, all
<1>9. all = I
  BY <1>4, <1>7, <1>8, FS_Subset
<1> QED  BY <1>2, <1>9 DEF all, R, p

\* The last report: the edges of all children go to waiting, and the edge of
\* the parent, unless it is the root, from working to sent.
LEMMA LastLstOk ==
    ASSUME IInv, TypeOK', NEW c \in Partition \ {0}, ProcessLastLstFromLeaf(c)
    PROVE  (Edges /\ Nodes /\ Root /\ Values)'
<1> USE DEF state, chans, chains, history
<1> DEFINE p == Parent(c)
           lst == Head(lst_chan[c])
           kids == IF lst_received[p] = {} THEN lst ELSE Min2(lst, min_lst[p])
           mrv == MinReplicaVersion(version_vector[p])
           min == Min2(kids, mrv)
           taken == [lst_chan EXCEPT ![c] = Tail(@)]
<1>1. /\ lst_chan[c] # <<>>
      /\ ChildIndex(c) \notin lst_received[p]
      /\ Cardinality(lst_received[p]) = NumChildren(p) - 1
      /\ min_lst' = [min_lst EXCEPT ![p] = min]
      /\ lst_received' = [lst_received EXCEPT ![p] = {}]
      /\ reported' = [reported EXCEPT ![p] = min]
      /\ \/ /\ p = 0
            /\ stage' = [stage EXCEPT ![p] = "locking"]
            /\ lst_chan' = taken
         \/ /\ p # 0
            /\ lst_chan' = [taken EXCEPT ![p] = Append(@, min)]
            /\ stage' = stage
      /\ UNCHANGED <<version_vector, gst, rotx, start, gst_chan, known, lock,
                     root_gst, hints, peak>>
  BY DEF ProcessLastLstFromLeaf
<1>2. /\ p \in Partition /\ p # c /\ 0 \in Partition /\ ~IsLeaf(p)
      /\ \A d \in Partition \ {0} : Parent(d) \in Partition /\ Parent(d) # d
  BY Tree
<1>3. PICK old \in Phases : EdgeAt(c, old)
  BY DEF IInv, Edges
<1>4. /\ old = "sent" /\ Up(c) /\ ~Up(p) /\ lst_chan[c] = <<reported[c]>>
      /\ start[c] = 0 /\ gst_chan[c] = <<>> /\ stage[c] = "idle"
  BY <1>1, <1>3 DEF EdgeAt
<1>5. /\ reported[c] \in Time /\ min_lst[p] \in Time
      /\ min_lst \in [Partition -> Time]
      /\ reported \in [Partition -> Time \cup {NoReport}]
      /\ lst_received \in [Partition -> SUBSET Slot]
      /\ lst_chan \in [Partition -> Seq(Time)]
      /\ stage \in [Partition -> {"idle", "locking", "unlocking"}]
  BY <1>2, <1>4 DEF IInv, TypeOK, Up
<1>6. lst = reported[c] /\ Tail(lst_chan[c]) = <<>>
  BY <1>4, <1>5, OneMessage
<1>7. mrv \in Time /\ mrv <= peak[p] /\ peak[p] \in Time
  <2>1. mrv \in Time
    BY <1>2, MinReplicaVersionType DEF IInv, TypeOK
  <2> QED  BY <1>2, <2>1 DEF IInv, Nodes, TypeOK
<1>8. /\ kids \in Time /\ kids <= reported[c]
      /\ lst_received[p] # {} => kids <= min_lst[p]
  <2> HIDE DEF lst
  <2>1. CASE lst_received[p] = {}
    BY <2>1, <1>5, <1>6 DEF Time
  <2>2. CASE lst_received[p] # {}
    <3>1. kids = Min2(lst, min_lst[p])
      BY <2>2
    <3>2. lst \in Time /\ min_lst[p] \in Time
      BY <1>5, <1>6
    <3> QED  BY <3>1, <3>2, <1>6, Min2Max2
  <2> QED  BY <2>1, <2>2
<1> HIDE DEF mrv, kids, lst
<1>9. min \in Time /\ min <= kids /\ min <= mrv
  BY <1>7, <1>8, Min2Max2
<1> HIDE DEF min
<1>10. min # NoReport /\ min <= reported[c] /\ min <= peak[p]
  BY <1>5, <1>7, <1>8, <1>9 DEF Time, NoReport
<1>11. ASSUME NEW d \in Partition \ {0}, Parent(d) = p, d # c
       PROVE  EdgeAt(d, "counted") /\ min <= reported[d]
  <2>1. ChildIndex(d) \in lst_received[p]
    BY <1>1, <1>11, OthersCounted DEF IInv
  <2>2. PICK ph \in Phases : EdgeAt(d, ph)
    BY DEF IInv, Edges
  <2>3. ph = "counted" /\ Up(d) /\ min_lst[p] <= reported[d]
    BY <1>11, <2>1, <2>2 DEF EdgeAt
  <2>4. reported[d] \in Time /\ kids <= min_lst[p]
    BY <1>8, <2>1, <2>3 DEF Up, IInv, TypeOK
  <2>5. min <= reported[d]
    BY <1>5, <1>8, <1>9, <2>3, <2>4 DEF Time
  <2> QED  BY <2>2, <2>3, <2>5
<1> HIDE DEF p
<1>12. \A d \in Partition :
        /\ reported'[d] = IF d = p THEN min ELSE reported[d]
        /\ lst_received'[d] = IF d = p THEN {} ELSE lst_received[d]
        /\ min_lst'[d] = IF d = p THEN min ELSE min_lst[d]
        /\ stage'[d] = IF d = p /\ p = 0 THEN "locking" ELSE stage[d]
        /\ d # c /\ d # p => lst_chan'[d] = lst_chan[d]
  BY <1>1, <1>2, <1>5
<1>13. /\ lst_chan'[c] = <<>>
       /\ p # 0 => lst_chan'[p] = Append(lst_chan[p], min)
       /\ p = 0 => lst_chan'[p] = lst_chan[p]
  BY <1>1, <1>2, <1>5, <1>6
<1>14. Edges'
  <2> SUFFICES ASSUME NEW d \in Partition \ {0}
               PROVE  \E ph \in Phases : EdgeAt(d, ph)'
    BY DEF Edges
  <2>0. Parent(d) \in Partition /\ Parent(d) # d
    BY Tree
  <2>1. CASE d = c
    <3>1. reported'[c] = reported[c] /\ stage'[c] = "idle"
      BY <1>2, <1>4, <1>12
    <3>2. EdgeAt(c, "waiting")'
      BY <1>1, <1>2, <1>4, <1>10, <1>12, <1>13, <3>1 DEF EdgeAt, Up, p
    <3> QED  BY <2>1, <3>2 DEF Phases
  <2>2. CASE d # c /\ Parent(d) = p
    <3>1. EdgeAt(d, "counted") /\ min <= reported[d]
      BY <1>11, <2>2
    <3>2. d # p
      BY <2>0, <2>2
    <3>3. EdgeAt(d, "waiting")'
      BY <1>1, <1>2, <1>10, <1>12, <2>2, <3>1, <3>2 DEF EdgeAt, Up
    <3> QED  BY <3>3 DEF Phases
  <2>3. CASE d = p
    <3>1. PICK ph \in Phases : EdgeAt(p, ph)
      BY <2>3 DEF IInv, Edges
    <3>2. ph = "working" /\ lst_chan[p] = <<>>
      BY <1>4, <3>1 DEF EdgeAt
    <3>3. lst_chan'[p] = <<min>> /\ reported'[p] = min
      BY <1>2, <1>9, <1>12, <1>13, <2>3, <3>2, OneMessage
    <3>4. EdgeAt(p, "sent")'
      BY <1>1, <1>2, <1>10, <1>12, <2>0, <2>3, <3>1, <3>2, <3>3 DEF EdgeAt, Up
    <3> QED  BY <2>3, <3>4 DEF Phases
  <2>4. CASE d # c /\ d # p /\ Parent(d) # p
    <3>1. PICK ph \in Phases : EdgeAt(d, ph)
      BY DEF IInv, Edges
    <3>2. ph = "counted" => min_lst[Parent(d)] <= reported[d]
      BY <3>1 DEF EdgeAt
    <3>3. EdgeAt(d, ph)'
      BY <1>1, <1>12, <2>0, <2>4, <3>1, <3>2, EdgeFrame
    <3> QED  BY <3>3
  <2> QED  BY <2>1, <2>2, <2>3, <2>4
<1>15. Nodes'
  BY <1>1, <1>10, <1>12 DEF IInv, Nodes, Up
<1>16. Root'
  <2>1. CASE p = 0
    BY <1>1, <1>2, <1>10, <1>12, <1>13, <2>1 DEF IInv, Root, Up
  <2>2. CASE p # 0
    BY <1>1, <1>2, <1>12, <2>2 DEF IInv, Root, Up
  <2> QED  BY <2>1, <2>2
<1>17. Values'
  BY <1>1 DEF IInv, Values, Safe
<1> QED  BY <1>14, <1>15, <1>16, <1>17

-----------------------------------------------------------------------------
(***************************************************************************)
(* The way down                                                            *)
(***************************************************************************)

\* The root raises its GST to the minimum it computed.
LEMMA RootLockedOk ==
    ASSUME IInv, TypeOK', LstFromLeafRootLocked
    PROVE  (Edges /\ Nodes /\ Root /\ Values)'
<1> USE DEF state, chans, chains, history
<1>1. /\ stage[0] = "locking"
      /\ UpdateGst(0, min_lst[0])
      /\ stage' = [stage EXCEPT ![0] = "unlocking"]
      /\ UNCHANGED <<version_vector, min_lst, lst_received, chans, root_gst,
                     hints, history>>
  BY DEF LstFromLeafRootLocked
<1>2. 0 \in Partition /\ stage \in [Partition -> {"idle", "locking", "unlocking"}]
  BY Tree DEF IInv, TypeOK
<1>3. Up(0) /\ min_lst[0] = reported[0]
  BY <1>1 DEF IInv, Root
<1>4. min_lst[0] \in Time /\ Safe(min_lst[0])
  BY <1>3, RootSafe DEF IInv
<1>5. \A q \in Partition : Safe(gst'[q])
  BY <1>1, <1>2, <1>4, UpdateGstSafe DEF IInv, Values
<1>6. Edges'
  BY <1>1, <1>2, EdgesFrame DEF IInv
<1>7. Nodes' /\ Root'
  BY <1>1, <1>2, <1>3 DEF IInv, Nodes, Root, Up
<1>8. Values'
  BY <1>1, <1>5 DEF IInv, Values, Safe
<1> QED  BY <1>6, <1>7, <1>8

\* A partition that is done with the round sends a GST to its children: their
\* edges go from waiting to coming.
LEMMA SendGstOk ==
    ASSUME IInv, NEW p \in Partition, NEW g \in Time, SendGst(p, g),
           Up(p), reported' = [reported EXCEPT ![p] = NoReport],
           stage' = [stage EXCEPT ![p] = "idle"],
           UNCHANGED <<min_lst, lst_received, start, lst_chan>>,
           NEW c \in Partition \ {0}, c # p
    PROVE  \E ph \in Phases : EdgeAt(c, ph)'
<1>1. PICK ph \in Phases : EdgeAt(c, ph)
  BY DEF IInv, Edges
<1>2. /\ Parent(c) \in Partition
      /\ c \in Children(p) <=> Parent(c) = p
  BY Tree
<1>3. /\ reported'[c] = reported[c] /\ stage'[c] = stage[c]
      /\ reported'[Parent(c)] = IF Parent(c) = p THEN NoReport
                                                 ELSE reported[Parent(c)]
      /\ gst_chan'[c] = IF Parent(c) = p THEN Append(gst_chan[c], g)
                                         ELSE gst_chan[c]
  BY <1>2 DEF SendGst, IInv, TypeOK
<1>4. CASE Parent(c) = p
  <2>1. ph = "waiting" /\ gst_chan[c] = <<>>
    BY <1>1, <1>4 DEF EdgeAt
  <2>2. gst_chan'[c] = <<g>>
    BY <1>3, <1>4, <2>1, OneMessage
  <2>3. EdgeAt(c, "coming")'
    BY <1>1, <1>3, <1>4, <2>1, <2>2 DEF EdgeAt, Up
  <2> QED  BY <2>3 DEF Phases
<1>5. CASE Parent(c) # p
  <2>1. ph = "counted" => min_lst[Parent(c)] <= reported[c]
    BY <1>1 DEF EdgeAt
  <2>2. EdgeAt(c, ph)'
    BY <1>1, <1>3, <1>5, <2>1, EdgeFrame
  <2> QED  BY <2>2
<1> QED  BY <1>4, <1>5

\* ... and what is under way is still safe.
LEMMA SendGstSafe ==
    ASSUME IInv, NEW p \in Partition, NEW g \in Time, SendGst(p, g), Safe(g),
           Up(p), UNCHANGED <<gst, root_gst, hints, known, peak>>
    PROVE  Values'
<1>1. \A x : Safe(x)' <=> Safe(x)
  BY DEF Safe
<1>2. ASSUME NEW c \in Partition, NEW x \in Time, gst_chan'[c] = <<x>>
      PROVE  Safe(x)
  <2>1. CASE c \in Children(p)
    <3>1. c # 0 /\ Parent(c) = p
      BY <2>1, Tree
    <3>2. PICK ph \in Phases : EdgeAt(c, ph)
      BY <3>1 DEF IInv, Edges
    <3>3. gst_chan[c] = <<>>
      BY <3>1, <3>2 DEF EdgeAt
    <3>4. gst_chan'[c] = <<g>>
      BY <2>1, <3>3, OneMessage DEF SendGst
    <3> QED  BY <1>2, <3>4, OneMessage
  <2>2. CASE c \notin Children(p)
    BY <1>2, <2>2 DEF SendGst, IInv, Values
  <2> QED  BY <2>1, <2>2
<1> QED  BY <1>1, <1>2 DEF IInv, Values

\* The root starts the way down.
LEMMA RootUnlockedOk ==
    ASSUME IInv, TypeOK', LstFromLeafRootUnlocked
    PROVE  (Edges /\ Nodes /\ Root /\ Values)'
<1> USE DEF state, chans, chains, history
<1>1. /\ stage[0] = "unlocking"
      /\ stage' = [stage EXCEPT ![0] = "idle"]
      /\ SendGst(0, gst[0])
      /\ reported' = [reported EXCEPT ![0] = NoReport]
      /\ UNCHANGED <<state, start, lst_chan, known, root_gst, hints, peak>>
  BY DEF LstFromLeafRootUnlocked
<1>2. /\ 0 \in Partition /\ gst[0] \in Time /\ 0 \notin Children(0)
      /\ stage \in [Partition -> {"idle", "locking", "unlocking"}]
      /\ reported \in [Partition -> Time \cup {NoReport}]
  BY Tree DEF IInv, TypeOK
<1>3. Up(0) /\ Safe(gst[0])
  BY <1>1, <1>2 DEF IInv, Root, Values
<1>4. Edges'
  BY <1>1, <1>2, <1>3, SendGstOk DEF Edges
<1>5. Nodes'
  BY <1>1, <1>2 DEF IInv, Nodes, Up
<1>6. Root'
  <2>1. stage'[0] = "idle" /\ reported'[0] = NoReport
    BY <1>1, <1>2
  <2>2. gst_chan'[0] = gst_chan[0]
    BY <1>1, <1>2 DEF SendGst
  <2> QED  BY <1>1, <2>1, <2>2 DEF IInv, Root, Up
<1>7. Values'
  BY <1>1, <1>2, <1>3, SendGstSafe
<1> QED  BY <1>4, <1>5, <1>6, <1>7

\* A GST arrives: the edge goes from coming to applying.
LEMMA GstFromRootOk ==
    ASSUME IInv, TypeOK', NEW p \in Partition, GstFromRoot(p)
    PROVE  (Edges /\ Nodes /\ Root /\ Values)'
<1> USE DEF state, chans, chains, history
<1>1. /\ gst_chan[p] # <<>>
      /\ root_gst' = [root_gst EXCEPT ![p] = Head(gst_chan[p])]
      /\ gst_chan' = [gst_chan EXCEPT ![p] = Tail(@)]
      /\ stage' = [stage EXCEPT ![p] = "locking"]
      /\ UNCHANGED <<state, start, lst_chan, known, lock, hints, history>>
  BY DEF GstFromRoot
<1>2. /\ 0 \in Partition /\ p # 0
      /\ stage \in [Partition -> {"idle", "locking", "unlocking"}]
      /\ gst_chan \in [Partition -> Seq(Time)]
      /\ root_gst \in [Partition -> Time]
  BY <1>1, Tree DEF IInv, TypeOK, Root
<1>3. PICK old \in Phases : EdgeAt(p, old)
  BY <1>2 DEF IInv, Edges
<1>4. old = "coming"
  BY <1>1, <1>3 DEF EdgeAt
<1>5. PICK g \in Time : gst_chan[p] = <<g>>
  BY <1>3, <1>4 DEF EdgeAt
<1>6. Safe(g) /\ Head(gst_chan[p]) = g /\ Tail(gst_chan[p]) = <<>>
  BY <1>5, OneMessage DEF IInv, Values
<1>7. \A c \in Partition :
        /\ gst_chan'[c] = IF c = p THEN <<>> ELSE gst_chan[c]
        /\ stage'[c] = IF c = p THEN "locking" ELSE stage[c]
        /\ root_gst'[c] = IF c = p THEN g ELSE root_gst[c]
  BY <1>1, <1>2, <1>6
<1>8. Edges'
  <2> SUFFICES ASSUME NEW c \in Partition \ {0}
               PROVE  \E ph \in Phases : EdgeAt(c, ph)'
    BY DEF Edges
  <2>1. CASE c = p
    <3>1. EdgeAt(p, "applying")'
      BY <1>1, <1>2, <1>3, <1>4, <1>7 DEF EdgeAt, Up
    <3> QED  BY <2>1, <3>1 DEF Phases
  <2>2. CASE c # p
    <3>1. PICK ph \in Phases : EdgeAt(c, ph)
      BY DEF IInv, Edges
    <3>2. ph = "counted" => min_lst[Parent(c)] <= reported[c]
      BY <3>1 DEF EdgeAt
    <3>3. EdgeAt(c, ph)'
      BY <1>1, <1>7, <2>2, <3>1, <3>2, EdgeFrame
    <3> QED  BY <3>3
  <2> QED  BY <2>1, <2>2
<1>9. Nodes' /\ Root'
  BY <1>1, <1>2, <1>7 DEF IInv, Nodes, Root, Up
<1>10. Values'
  <2>1. \A x : Safe(x)' <=> Safe(x)
    BY <1>1 DEF Safe
  <2>2. \A c \in Partition, x \in Time :
            gst_chan'[c] = <<x>> => c # p /\ gst_chan[c] = <<x>>
    BY <1>7, OneMessage
  <2> QED  BY <1>1, <1>6, <1>7, <2>1, <2>2 DEF IInv, Values
<1> QED  BY <1>8, <1>9, <1>10

\* A partition raises its GST.
LEMMA GstLockedOk ==
    ASSUME IInv, TypeOK', NEW p \in Partition, GstFromRootLocked(p)
    PROVE  (Edges /\ Nodes /\ Root /\ Values)'
<1> USE DEF state, chans, chains, history
<1>1. /\ p # 0 /\ stage[p] = "locking"
      /\ UpdateGst(p, root_gst[p])
      /\ stage' = [stage EXCEPT ![p] = "unlocking"]
      /\ UNCHANGED <<version_vector, min_lst, lst_received, chans, root_gst,
                     hints, history>>
  BY DEF GstFromRootLocked
<1>2. /\ 0 \in Partition /\ root_gst[p] \in Time /\ Safe(root_gst[p])
      /\ stage \in [Partition -> {"idle", "locking", "unlocking"}]
  BY Tree DEF IInv, TypeOK, Values
<1>3. \A q \in Partition : Safe(gst'[q])
  BY <1>1, <1>2, UpdateGstSafe DEF IInv, Values
<1>4. \A c \in Partition : stage'[c] = IF c = p THEN "unlocking" ELSE stage[c]
  BY <1>1, <1>2
<1>5. Edges'
  BY <1>1, <1>4, EdgesFrame DEF IInv
<1>6. Nodes' /\ Root'
  BY <1>1, <1>2, <1>4 DEF IInv, Nodes, Root, Up
<1>7. Values'
  BY <1>1, <1>3 DEF IInv, Values, Safe
<1> QED  BY <1>5, <1>6, <1>7

\* A partition is done with the round: its own edge goes from applying to
\* working, those of its children to coming.
LEMMA GstUnlockedOk ==
    ASSUME IInv, TypeOK', NEW p \in Partition, GstFromRootUnlocked(p)
    PROVE  (Edges /\ Nodes /\ Root /\ Values)'
<1> USE DEF state, chans, chains, history
<1>1. /\ p # 0 /\ stage[p] = "unlocking"
      /\ stage' = [stage EXCEPT ![p] = "idle"]
      /\ reported' = [reported EXCEPT ![p] = NoReport]
      /\ \/ IsLeaf(p) /\ start' = [start EXCEPT ![p] = @ + 1] /\ gst_chan' = gst_chan
         \/ ~IsLeaf(p) /\ SendGst(p, root_gst[p]) /\ start' = start
      /\ UNCHANGED <<state, lst_chan, known, root_gst, hints, peak>>
  BY DEF GstFromRootUnlocked
<1>2. /\ 0 \in Partition /\ root_gst[p] \in Time /\ Safe(root_gst[p])
      /\ stage \in [Partition -> {"idle", "locking", "unlocking"}]
      /\ reported \in [Partition -> Time \cup {NoReport}]
      /\ start \in [Partition -> Nat]
      /\ p \notin Children(p) /\ 0 \notin Children(p)
      /\ Parent(p) # p /\ Parent(p) \in Partition
  BY <1>1, Tree DEF IInv, TypeOK, Values
<1>3. PICK old \in Phases : EdgeAt(p, old)
  BY <1>1 DEF IInv, Edges
<1>4. old = "applying" /\ Up(p) /\ start[p] = 0 /\ gst_chan[p] = <<>>
  BY <1>1, <1>3 DEF EdgeAt
<1>5. \A c \in Partition :
        /\ stage'[c] = IF c = p THEN "idle" ELSE stage[c]
        /\ reported'[c] = IF c = p THEN NoReport ELSE reported[c]
        /\ c # p => start'[c] = start[c]
  BY <1>1, <1>2
<1>6. /\ start'[p] = IF IsLeaf(p) THEN 1 ELSE 0
      /\ gst_chan'[p] = <<>>
      /\ gst_chan'[0] = gst_chan[0]
  BY <1>1, <1>2, <1>4 DEF SendGst
<1>7. EdgeAt(p, "working")'
  BY <1>1, <1>2, <1>3, <1>4, <1>5, <1>6 DEF EdgeAt, Up
<1>8. ASSUME NEW c \in Partition \ {0}, c # p
      PROVE  \E ph \in Phases : EdgeAt(c, ph)'
  <2>1. CASE IsLeaf(p)
    <3>1. PICK ph \in Phases : EdgeAt(c, ph)
      BY DEF IInv, Edges
    <3>2. Parent(c) # p /\ Parent(c) \in Partition
      BY <2>1, Tree
    <3>3. ph = "counted" => min_lst[Parent(c)] <= reported[c]
      BY <3>1 DEF EdgeAt
    <3>4. EdgeAt(c, ph)'
      BY <1>1, <1>5, <1>8, <2>1, <3>1, <3>2, <3>3, EdgeFrame
    <3> QED  BY <3>4
  <2>2. CASE ~IsLeaf(p)
    BY <1>1, <1>2, <1>4, <1>8, <2>2, SendGstOk
  <2> QED  BY <2>1, <2>2
<1>9. Edges'
  BY <1>7, <1>8 DEF Edges, Phases
<1>10. Nodes'
  BY <1>1, <1>5 DEF IInv, Nodes, Up
<1>11. Root'
  BY <1>1, <1>2, <1>5, <1>6 DEF IInv, Root, Up
<1>12. Values'
  <2>1. CASE IsLeaf(p)
    BY <1>1, <2>1 DEF IInv, Values, Safe
  <2>2. CASE ~IsLeaf(p)
    BY <1>1, <1>2, <1>4, <2>2, SendGstSafe
  <2> QED  BY <2>1, <2>2
<1> QED  BY <1>9, <1>10, <1>11, <1>12

-----------------------------------------------------------------------------
(***************************************************************************)
(* The theorems                                                            *)
(***************************************************************************)
LEMMA InitOk ==
    ASSUME NumPartitions > 1, Init
    PROVE  IInv
<1>1. TypeOK
  BY TypeInit
<1>2. /\ 0 \in Partition /\ ~IsLeaf(0)
      /\ \A c \in Partition \ {0} : Parent(c) \in Partition
      /\ \A p \in Partition : NumChildren(p) \in Nat
  BY Tree, TreeAssumption DEF IsLeaf, FirstChild
<1>3. \A p \in Partition : MinReplicaVersion(version_vector[p]) = 0
  <2> SUFFICES ASSUME NEW p \in Partition
               PROVE  MinReplicaVersion(version_vector[p]) = 0
    OBVIOUS
  <2>1. version_vector[p] = [r \in Replica |-> 0]
    BY DEF Init
  <2>2. 0 \in Replica
    BY GstAssumption DEF Replica
  <2>3. {version_vector[p][r] : r \in Replica} = {0}
    BY <2>1, <2>2
  <2> QED  BY <2>1, <2>2, <2>3 DEF MinReplicaVersion
<1>4. \A g \in Time : <<>> # <<g>>
  BY OneMessage
<1>5. ASSUME NEW c \in Partition \ {0} PROVE EdgeAt(c, "working")
  BY <1>2 DEF Init, EdgeAt, Up
<1>6. Edges
  BY <1>5 DEF Edges, Phases
<1>7. Nodes
  BY <1>3 DEF Init, Nodes, Up
<1>8. Root
  BY <1>2 DEF Init, Root, Up
<1>9. Values
  <2>1. Safe(0)
    BY DEF Init, Safe
  <2>2. /\ known = {}
        /\ \A p \in Partition :
            gst[p] = 0 /\ root_gst[p] = 0 /\ hints[p] = {} /\ gst_chan[p] = <<>>
    BY DEF Init
  <2> QED  BY <1>4, <2>1, <2>2 DEF Values
<1> QED  BY <1>1, <1>6, <1>7, <1>8, <1>9 DEF IInv

LEMMA NextOk == IInv /\ [Next]_vars => IInv'
<1> SUFFICES ASSUME IInv, [Next]_vars PROVE IInv'
  OBVIOUS
<1>1. TypeOK'
  BY TypeStep DEF IInv
<1>2. CASE UNCHANGED vars
  <2> USE DEF vars, state, chans, chains, history
  <2>1. Edges'
    BY <1>2, EdgesFrame DEF IInv
  <2>2. Nodes' /\ Root'
    BY <1>2 DEF IInv, Nodes, Root, Up
  <2>3. Values'
    BY <1>2 DEF IInv, Values, Safe
  <2> QED  BY <1>1, <2>1, <2>2, <2>3 DEF IInv
<1>3. ASSUME NEW p \in Partition, Round(p)
      PROVE  (Edges /\ Nodes /\ Root /\ Values)'
  <2>1. ~StartGstComputationAlone(p)
    BY DEF StartGstComputationAlone, IInv, Root
  <2>2. CASE StartGstComputation(p)
    BY <1>1, <2>2, StartOk
  <2>3. CASE p # 0 /\ ProcessLstFromLeaf(p)
    BY <1>1, <2>3, LstOk
  <2>4. CASE p # 0 /\ ProcessLastLstFromLeaf(p)
    BY <1>1, <2>4, LastLstOk
  <2>5. CASE LstFromLeafRootLocked
    BY <1>1, <2>5, RootLockedOk
  <2>6. CASE LstFromLeafRootUnlocked
    BY <1>1, <2>6, RootUnlockedOk
  <2>7. CASE GstFromRoot(p)
    BY <1>1, <2>7, GstFromRootOk
  <2>8. CASE GstFromRootLocked(p)
    BY <1>1, <2>8, GstLockedOk
  <2>9. CASE GstFromRootUnlocked(p)
    BY <1>1, <2>9, GstUnlockedOk
  <2> QED
    BY <1>3, <2>1, <2>2, <2>3, <2>4, <2>5, <2>6, <2>7, <2>8, <2>9 DEF Round
<1>4. ASSUME NEW p \in Partition, SetVersion(p)
      PROVE  (Edges /\ Nodes /\ Root /\ Values)'
  BY <1>1, <1>4, SetVersionOk
<1>5. ASSUME NEW p \in Partition,
             \/ HandOutGst(p)
             \/ Hint(p)
             \/ \E d \in Time : RotxRequestWaits(p, d)
      PROVE  (Edges /\ Nodes /\ Root /\ Values)'
  BY <1>1, <1>5, HintsOk
<1>6. CASE Next
  BY <1>1, <1>3, <1>4, <1>5, <1>6 DEF Next, IInv
<1> QED  BY <1>2, <1>6

\* The inductive invariant holds in every reachable state.
THEOREM Invariance ==
    ASSUME NumPartitions > 1
    PROVE  Spec => []IInv
<1>1. Init => IInv
  BY InitOk
<1>2. IInv /\ [Next]_vars => IInv'
  BY NextOk
<1> QED  BY <1>1, <1>2, PTL DEF Spec

\* In a data centre of more than one partition no GST is ever above what
\* every partition has received from every replica, whatever the version
\* vectors do and however GST values travel.  (With one partition gst.c:174
\* takes another path, for which this is false.)
THEOREM GstIsSafe ==
    ASSUME NumPartitions > 1
    PROVE  Spec => []GstSafe
<1>1. IInv => GstSafe
  BY DEF IInv, Values, Safe, GstSafe
<1> QED  BY <1>1, Invariance, PTL

\* A round is over everywhere below a partition before the next one reaches
\* it: the assertion of gst.c:43 never fails.
THEOREM RoundsAreDisjoint ==
    ASSUME NumPartitions > 1
    PROVE  Spec => []RoundsDoNotOverlap
<1>1. ASSUME IInv PROVE RoundsDoNotOverlap
  <2>1. \A c \in Partition : \A g \in Time \cup {NoReport} :
            Len(<<g>>) = 1 /\ Len(<<>>) = 0
    BY OneMessage
  <2>2. ASSUME NEW p \in Partition, p # 0
        PROVE  /\ Len(lst_chan[p]) + Len(gst_chan[p]) + start[p]
                     + (IF stage[p] = "idle" THEN 0 ELSE 1) <= 1
               /\ ChildIndex(p) \in lst_received[Parent(p)] =>
                    /\ Len(lst_chan[p]) + Len(gst_chan[p]) + start[p] = 0
                    /\ stage[p] = "idle"
    <3>1. PICK ph \in Phases : EdgeAt(p, ph)
      BY <1>1, <2>2 DEF IInv, Edges
    <3>2. reported[p] \in Time \cup {NoReport}
      BY <1>1 DEF IInv, TypeOK
    <3>3. Len(lst_chan[p]) = IF ph = "sent" THEN 1 ELSE 0
      BY <2>1, <3>1, <3>2 DEF EdgeAt
    <3>4. Len(gst_chan[p]) = IF ph = "coming" THEN 1 ELSE 0
      BY <2>1, <3>1 DEF EdgeAt
    <3> QED  BY <3>1, <3>3, <3>4 DEF EdgeAt
  <2>3. /\ Len(lst_chan[0]) + Len(gst_chan[0]) + start[0]
             + (IF stage[0] = "idle" THEN 0 ELSE 1) <= 1
        /\ stage[0] = "locking" => min_lst[0] = reported[0]
    BY <1>1, OneMessage DEF IInv, Root
  <2> QED  BY <2>2, <2>3 DEF RoundsDoNotOverlap
<1> QED  BY <1>1, Invariance, PTL

\* gr_update_gst lets go every transaction that need not wait any longer.
LEMMA UpdateGstWakes ==
    ASSUME TypeOK, NoRotxLeftBehind, NEW p \in Partition, NEW g \in Time,
           UpdateGst(p, g)
    PROVE  NoRotxLeftBehind'
<1> SUFFICES ASSUME NEW q \in Partition, NEW d \in rotx'[q]
             PROVE  d >= gst'[q]
  BY DEF NoRotxLeftBehind
<1>1. CASE q # p
  BY <1>1 DEF UpdateGst, TypeOK, NoRotxLeftBehind
<1>2. CASE q = p
  <2>1. /\ gst'[p] = Max2(gst[p], g)
        /\ rotx'[p] = IF gst[p] < g THEN {x \in rotx[p] : x >= g} ELSE rotx[p]
    BY DEF UpdateGst, TypeOK
  <2>2. d \in rotx[p] /\ (gst[p] < g => d >= g)
    BY <1>2, <2>1
  <2>3. d >= gst[p]
    BY <2>2 DEF NoRotxLeftBehind
  <2> QED  BY <1>2, <2>1, <2>2, <2>3 DEF Max2
<1> QED  BY <1>1, <1>2

\* No transaction is left waiting behind the GST (rotx.c:95-109): a GST that
\* rises anywhere wakes the transactions of its partition in the same step.
THEOREM NoRotxIsLeftBehind == Spec => []NoRotxLeftBehind
<1>1. Init => NoRotxLeftBehind
  BY DEF Init, NoRotxLeftBehind
<1>2. TypeOK /\ NoRotxLeftBehind /\ [Next]_vars => NoRotxLeftBehind'
  <2> SUFFICES ASSUME TypeOK, NoRotxLeftBehind, [Next]_vars
               PROVE  NoRotxLeftBehind'
    OBVIOUS
  <2> USE DEF state, chans, chains, history
  <2>1. CASE UNCHANGED <<gst, rotx>>
    BY <2>1 DEF NoRotxLeftBehind
  <2>2. ASSUME NEW p \in Partition, NEW g \in Time, UpdateGst(p, g)
        PROVE  NoRotxLeftBehind'
    BY <2>2, UpdateGstWakes
  <2>3. ASSUME NEW p \in Partition, StartGstComputationAlone(p)
        PROVE  NoRotxLeftBehind'
    <3>1. version_vector[p][0] \in Time
      BY GstAssumption DEF TypeOK, Replica
    <3> QED  BY <2>2, <2>3, <3>1 DEF StartGstComputationAlone
  <2>4. CASE LstFromLeafRootLocked
    <3>1. 0 \in Partition /\ min_lst[0] \in Time
      BY Tree DEF TypeOK
    <3> QED  BY <2>2, <2>4, <3>1 DEF LstFromLeafRootLocked
  <2>5. ASSUME NEW p \in Partition, GstFromRootLocked(p)
        PROVE  NoRotxLeftBehind'
    <3>1. root_gst[p] \in Time
      BY DEF TypeOK
    <3> QED  BY <2>2, <2>5, <3>1 DEF GstFromRootLocked
  <2>6. ASSUME NEW p \in Partition, NEW g \in known, HintLocked(p, g)
        PROVE  NoRotxLeftBehind'
    <3>1. g \in Time
      BY DEF TypeOK
    <3> QED  BY <2>2, <2>6, <3>1 DEF HintLocked
  <2>7. ASSUME NEW p \in Partition, NEW d \in Time, RotxRequestWaits(p, d)
        PROVE  NoRotxLeftBehind'
    <3>1. gst' = gst /\ gst[p] < d /\ gst[p] \in Time
      BY <2>7 DEF RotxRequestWaits, TypeOK
    <3>2. d >= gst[p]
      BY <3>1, GstAssumption DEF Time
    <3>3. \A q \in Partition : \A x \in rotx'[q] : x \in rotx[q] \/ (q = p /\ x = d)
      BY <2>7 DEF RotxRequestWaits, TypeOK
    <3> QED  BY <3>1, <3>2, <3>3 DEF NoRotxLeftBehind
  <2>8. CASE \E p \in Partition :
                \/ StartGstComputation(p)
                \/ ProcessLstFromLeaf(p)
                \/ ProcessLastLstFromLeaf(p)
                \/ LstFromLeafRootUnlocked
                \/ GstFromRoot(p)
                \/ GstFromRootUnlocked(p)
                \/ SetVersion(p)
                \/ HandOutGst(p)
                \/ HintUnlocked(p)
                \/ \E g \in known : NeedUpdate(p, g)
    BY <2>1, <2>8
       DEF StartGstComputation, ProcessLstFromLeaf, ProcessLastLstFromLeaf,
           LstFromLeafRootUnlocked, GstFromRoot, GstFromRootUnlocked,
           SetVersion, HandOutGst, HintUnlocked, NeedUpdate
  <2>9. CASE UNCHANGED vars
    BY <2>1, <2>9 DEF vars
  <2> QED
    BY <2>3, <2>4, <2>5, <2>6, <2>7, <2>8, <2>9 DEF Next, Round, Hint
<1> QED  BY <1>1, <1>2, TypeCorrect, PTL DEF Spec

-----------------------------------------------------------------------------
(***************************************************************************)
(* The rounds implement the abstract stable time                           *)
(***************************************************************************)

\* A handler that calls gr_update_gst takes an abstract step or none, if the
\* result is safe.
LEMMA UpdateGstStep ==
    ASSUME TypeOK, GstSafe', NEW p \in Partition, NEW g \in Time,
           UpdateGst(p, g), UNCHANGED peak
    PROVE  [Stable!Next]_<<peak, gst>>
<1>1. gst[p] \in Time /\ g \in Nat /\ gst[p] \in Nat
  BY DEF TypeOK, Time
<1>2. gst' = [gst EXCEPT ![p] = Max2(gst[p], g)]
  BY DEF UpdateGst
<1>3. CASE gst[p] < g
  <2>1. gst' = [gst EXCEPT ![p] = g] /\ gst'[p] = g
    BY <1>2, <1>3 DEF Max2, TypeOK
  <2>2. \A q \in Partition : g <= peak[q]
    BY <2>1 DEF GstSafe
  <2>3. Stable!Raise(p, g)
    BY <1>1, <1>3, <2>1, <2>2 DEF Stable!Raise, TypeOK
  <2> QED  BY <2>3 DEF Stable!Next, TypeOK
<1>4. CASE ~(gst[p] < g)
  <2>1. gst' = gst
    BY <1>1, <1>2, <1>4 DEF Max2, TypeOK
  <2> QED  BY <2>1
<1> QED  BY <1>3, <1>4

\* A step of a round, of a hint or of a version vector is an abstract step or
\* a stutter.
LEMMA StableStep ==
    ASSUME NumPartitions > 1, IInv, TypeOK', GstSafe', [Next]_vars
    PROVE  [Stable!Next]_<<peak, gst>>
<1> USE DEF state, chans, chains, history
<1>1. TypeOK
  BY DEF IInv
<1>2. CASE UNCHANGED vars
  BY <1>2 DEF vars
<1>3. ASSUME NEW p \in Partition, SetVersion(p)
      PROVE  [Stable!Next]_<<peak, gst>>
  <2>1. version_vector' \in [Partition -> [Replica -> Time]]
    BY DEF TypeOK
  <2>2. MinReplicaVersion(version_vector'[p]) \in Time
    BY <2>1, MinReplicaVersionType
  <2> DEFINE t == Max2(peak[p], MinReplicaVersion(version_vector'[p]))
  <2>3. t \in Time /\ peak[p] \in Time
    BY <1>1, <2>2, Min2Max2 DEF TypeOK
  <2>4. peak' = [peak EXCEPT ![p] = t] /\ UNCHANGED gst
    BY <1>3 DEF SetVersion
  <2>5. t >= peak[p]
    BY <2>2, <2>3 DEF Max2, Time
  <2> HIDE DEF t
  <2>6. CASE t = peak[p]
    <3>1. peak' = peak
      BY <1>1, <2>4, <2>6 DEF TypeOK
    <3> QED  BY <2>4, <3>1
  <2>7. CASE t > peak[p]
    <3>1. Stable!Reach(p, t)
      BY <2>4, <2>7 DEF Stable!Reach
    <3> QED  BY <1>1, <2>3, <3>1 DEF Stable!Next, TypeOK
  <2> QED  BY <2>3, <2>5, <2>6, <2>7 DEF Time
<1>4. ASSUME NEW p \in Partition, Round(p)
      PROVE  [Stable!Next]_<<peak, gst>>
  <2>1. CASE StartGstComputation(p) \/ GstFromRoot(p) \/ GstFromRootUnlocked(p)
    BY <2>1 DEF StartGstComputation, GstFromRoot, GstFromRootUnlocked
  <2>2. ~StartGstComputationAlone(p)
    <3>1. p = 0 => start[p] = 0
      BY DEF IInv, Root
    <3> QED  BY <3>1 DEF StartGstComputationAlone
  <2>3. CASE p # 0 /\ (ProcessLstFromLeaf(p) \/ ProcessLastLstFromLeaf(p))
    BY <2>3 DEF ProcessLstFromLeaf, ProcessLastLstFromLeaf
  <2>4. CASE p = 0 /\ LstFromLeafRootLocked
    <3>1. min_lst[0] \in Time /\ UpdateGst(0, min_lst[0]) /\ UNCHANGED peak
      BY <1>1, <2>4 DEF LstFromLeafRootLocked, TypeOK
    <3> QED  BY <1>1, <2>4, <3>1, UpdateGstStep
  <2>5. CASE p = 0 /\ LstFromLeafRootUnlocked
    BY <2>5 DEF LstFromLeafRootUnlocked
  <2>6. CASE GstFromRootLocked(p)
    <3>1. root_gst[p] \in Time /\ UpdateGst(p, root_gst[p]) /\ UNCHANGED peak
      BY <1>1, <2>6 DEF GstFromRootLocked, TypeOK
    <3> QED  BY <1>1, <3>1, UpdateGstStep
  <2> QED  BY <1>4, <2>1, <2>2, <2>3, <2>4, <2>5, <2>6 DEF Round
<1>5. ASSUME NEW p \in Partition, Hint(p)
      PROVE  [Stable!Next]_<<peak, gst>>
  <2>1. CASE HintUnlocked(p) \/ \E g \in known : NeedUpdate(p, g)
    BY <2>1 DEF HintUnlocked, NeedUpdate
  <2>2. ASSUME NEW g \in known, HintLocked(p, g)
        PROVE  [Stable!Next]_<<peak, gst>>
    <3>1. g \in Time /\ UpdateGst(p, g) /\ UNCHANGED peak
      BY <1>1, <2>2 DEF HintLocked, TypeOK
    <3> QED  BY <1>1, <3>1, UpdateGstStep
  <2> QED  BY <1>5, <2>1, <2>2 DEF Hint
<1>6. ASSUME NEW p \in Partition,
             HandOutGst(p) \/ \E d \in Time : RotxRequestWaits(p, d)
      PROVE  [Stable!Next]_<<peak, gst>>
  BY <1>6 DEF HandOutGst, RotxRequestWaits
<1>7. CASE Next
  BY <1>3, <1>4, <1>5, <1>6, <1>7 DEF Next
<1> QED  BY <1>2, <1>7

\* In a data centre of more than one partition the rounds and the hints
\* implement the abstract stable time that sessions rely on: whatever the
\* tree, the GST of a partition only rises, in steps of its own, and never
\* above what every partition has reached (gst.c:28-150 and 192-208).
THEOREM RoundsImplementStableTime ==
    ASSUME NumPartitions > 1
    PROVE  Spec => ImplementsStableTime
<1>1. Init => Stable!Init
  BY DEF Init, Stable!Init
<1>2. IInv => TypeOK /\ GstSafe
  BY DEF IInv, Values, Safe, GstSafe
<1>3. IInv /\ TypeOK' /\ GstSafe' /\ [Next]_vars => [Stable!Next]_<<peak, gst>>
  BY StableStep
<1> QED  BY <1>1, <1>2, <1>3, Invariance, PTL DEF Spec, ImplementsStableTime, Stable!Spec
=============================================================================
