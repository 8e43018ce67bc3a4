------------------------------- MODULE GrvGst -------------------------------
(***************************************************************************)
(* The GST vector of the vector protocol in one data centre                *)
(* (src/src/server/protocols/grv/gst.c).  The rounds are those of gr with  *)
(* a vector in place of a number, one entry per replica, with two          *)
(* differences that matter here: a partition passes the vector on to its   *)
(* children before it has raised its own, so that the next round may reach *)
(* it before it has finished with the last one; and a server that forwards *)
(* a get raises its vector at once, without the lock, besides the chain it *)
(* starts for it.  No transaction waits for a GST.                         *)
(*                                                                         *)
(* Taking lock_gsv, holding it and giving it up are separate steps (module *)
(* Cpu).                                                                   *)
(***************************************************************************)
EXTENDS Integers, Sequences, FiniteSets

CONSTANTS
    Configs,       \* the configurations that are considered
    Fanout,        \* config->tree_fanout
    NumReplicas,   \* cluster->num_replicas
    MaxTime        \* bound: timestamps are at most this

Replica == 0 .. NumReplicas - 1

\* The number of partitions, and the replicas that send anything: the entries
\* of the others stay 0.
Config == [num_partitions : Nat \ {0}, sending : SUBSET Replica]

ASSUME GrvGstAssumption ==
    /\ Configs \subseteq Config
    /\ Fanout \in Nat \ {0}
    /\ NumReplicas \in Nat \ {0}
    /\ MaxTime \in Nat

Time    == 0 .. MaxTime
Vector  == [Replica -> Time]
Slot    == 0 .. Fanout - 1

VARIABLES
    config,          \* state->config, which never changes
    version_vector,  \* state->version_vector
    gst_vector,      \* state->gst_vector
    min_lst_vector,  \* state->min_lst_vector
    lst_received,    \* the slots set in state->lst_received
    lock,            \* who holds lock_gsv: free, root, gst or hint
    root_waits,      \* the root's chain of the round waits for lock_gsv
    gst_waits,       \* GRV_GST_FROM_ROOT messages that wait for lock_gsv
    start,           \* GRV_START_GST_COMPUTATION events scheduled
    lst_chan,        \* GRV_LST_FROM_LEAF messages from p to its parent
    gst_chan,        \* GRV_GST_FROM_ROOT messages from p's parent to p
    known,           \* the maximum of all vectors handed out in responses
    \* history variable
    peak             \* the highest value each entry ever had

INSTANCE PartitionTree WITH NumPartitions <- config.num_partitions

state == <<config, version_vector, gst_vector, min_lst_vector, lst_received>>
chans == <<start, lst_chan, gst_chan, known>>
locks == <<lock, root_waits, gst_waits>>
vars  == <<state, chans, locks, peak>>

Leq(v, w)      == \A r \in Replica : v[r] <= w[r]
MaxVector(v, w) == [r \in Replica |-> IF v[r] < w[r] THEN w[r] ELSE v[r]]
MinVector(v, w) == [r \in Replica |-> IF v[r] < w[r] THEN v[r] ELSE w[r]]
Zero           == [r \in Replica |-> 0]

Init ==
    /\ config \in Configs
    /\ version_vector = [p \in Partition |-> Zero]
    /\ gst_vector = [p \in Partition |-> Zero]
    /\ min_lst_vector = [p \in Partition |-> Zero]
    /\ lst_received = [p \in Partition |-> {}]
    /\ lock = [p \in Partition |-> "free"]
    /\ root_waits = FALSE
    /\ gst_waits = [p \in Partition |-> {}]
    /\ start = [p \in Partition |-> IF IsLeaf(p) THEN 1 ELSE 0]
    /\ lst_chan = [p \in Partition |-> <<>>]
    /\ gst_chan = [p \in Partition |-> <<>>]
    /\ known = Zero
    /\ peak = [p \in Partition |-> Zero]

-----------------------------------------------------------------------------
\* Faulty: the vector is replaced when some entry is higher.
UpdateGstVectorReplace(p, v) ==
    gst_vector' = [gst_vector EXCEPT ![p] = IF Leq(v, @) THEN @ ELSE v]

\* Faulty: one too many.
UpdateGstVectorBeyond(p, v) ==
    gst_vector' = [gst_vector EXCEPT ![p] = [r \in Replica |-> MaxVector(@, v)[r] + 1]]

\* grv_update_gst_vector
UpdateGstVector(p, v) ==
    gst_vector' = [gst_vector EXCEPT ![p] = MaxVector(@, v)]

\* grv_gst_vector_need_update
NeedUpdate(p, v) == ~Leq(v, gst_vector[p])

\* A put, a clock tick, a heartbeat or a replica update sets one entry, as in
\* GrGst to any value at all.
SetVersion(p) ==
    /\ \E r \in config.sending, t \in Time :
        version_vector' = [version_vector EXCEPT ![p][r] = t]
    /\ peak' = [peak EXCEPT ![p] = MaxVector(@, version_vector'[p])]
    /\ UNCHANGED <<config, gst_vector, min_lst_vector, lst_received,
                   chans, locks>>

\* Faulty: a leaf schedules the next round itself, as a lone root does.
StartAndReschedule(p) ==
    /\ start[p] > 0
    /\ p # 0
    /\ lst_chan' = [lst_chan EXCEPT ![p] = Append(@, version_vector[p])]
    /\ UNCHANGED <<state, start, gst_chan, known, locks, peak>>

\* grv_process_start_gst_computation in a tree: a leaf reports.
StartGstComputation(p) ==
    /\ start[p] > 0
    /\ p # 0
    /\ lst_chan' = [lst_chan EXCEPT ![p] = Append(@, version_vector[p])]
    /\ start' = [start EXCEPT ![p] = @ - 1]
    /\ UNCHANGED <<state, gst_chan, known, locks, peak>>

\* The same when partition 0 is the only one: no lock, and again later.
StartGstComputationAlone(p) ==
    /\ start[p] > 0
    /\ p = 0
    /\ UpdateGstVector(p, version_vector[p])
    /\ UNCHANGED <<config, version_vector, min_lst_vector,
                   lst_received, chans, locks, peak>>

\* grv_process_lst_from_leaf at the parent of c, when other children are still
\* to report.  The second guard is the assertion of gst.c:33.
ProcessLstFromLeaf(c) ==
    LET p == Parent(c)
    IN  /\ lst_chan[c] # <<>>
        /\ ChildIndex(c) \notin lst_received[p]
        /\ Cardinality(lst_received[p]) # NumChildren(p) - 1
        /\ min_lst_vector' = [min_lst_vector EXCEPT ![p] =
                IF lst_received[p] = {} THEN Head(lst_chan[c])
                ELSE MinVector(@, Head(lst_chan[c]))]
        /\ lst_received' = [lst_received EXCEPT ![p] = @ \cup {ChildIndex(c)}]
        /\ lst_chan' = [lst_chan EXCEPT ![c] = Tail(@)]
        /\ UNCHANGED <<config, version_vector, gst_vector, start,
                       gst_chan, known, locks, peak>>

\* The same for the last child: the partition's own version vector counts
\* too, and the result goes up (grv_send_lst_to_parent) or, at the root,
\* waits for the lock.
ProcessLastLstFromLeaf(c) ==
    LET p     == Parent(c)
        lst   == Head(lst_chan[c])
        below == IF lst_received[p] = {} THEN lst
                 ELSE MinVector(min_lst_vector[p], lst)
        min   == MinVector(below, version_vector[p])
        taken == [lst_chan EXCEPT ![c] = Tail(@)]
    IN  /\ lst_chan[c] # <<>>
        /\ ChildIndex(c) \notin lst_received[p]
        /\ Cardinality(lst_received[p]) = NumChildren(p) - 1
        /\ min_lst_vector' = [min_lst_vector EXCEPT ![p] = min]
        /\ lst_received' = [lst_received EXCEPT ![p] = {}]
        /\ \/ /\ p = 0
              /\ root_waits' = TRUE
              /\ lst_chan' = taken
           \/ /\ p # 0
              /\ lst_chan' = [taken EXCEPT ![p] = Append(@, min)]
              /\ UNCHANGED root_waits
        /\ UNCHANGED <<config, version_vector, gst_vector, start,
                       gst_chan, known, lock, gst_waits, peak>>

\* grv_process_lst_from_leaf_root_locked
LstFromLeafRootLocked ==
    /\ root_waits
    /\ lock[0] = "free"
    /\ UpdateGstVector(0, min_lst_vector[0])
    /\ root_waits' = FALSE
    /\ lock' = [lock EXCEPT ![0] = "root"]
    /\ UNCHANGED <<config, version_vector, min_lst_vector,
                   lst_received, chans, gst_waits, peak>>

\* server_foreach_children_partition with grv_send_gst, on the channels chan
SendGst(chan, p, v) ==
    [c \in Partition |-> IF c \in Children(p) THEN Append(chan[c], v) ELSE chan[c]]

\* grv_process_lst_from_leaf_root_unlocked, with grv_send_gst_to_children: the
\* message carries state->gst_vector.
LstFromLeafRootUnlocked ==
    /\ lock[0] = "root"
    /\ lock' = [lock EXCEPT ![0] = "free"]
    /\ gst_chan' = SendGst(gst_chan, 0, gst_vector[0])
    /\ UNCHANGED <<state, start, lst_chan, known, root_waits, gst_waits, peak>>

\* grv_process_gst_from_root: on to the children, then wait for the lock.
\* Messages that wait are kept as a set: only their maximum matters, and a
\* leaf never has two.
GstFromRoot(p) ==
    LET v == Head(gst_chan[p])
    IN  /\ gst_chan[p] # <<>>
        /\ gst_chan' = SendGst([gst_chan EXCEPT ![p] = Tail(@)], p, v)
        /\ gst_waits' = [gst_waits EXCEPT ![p] = @ \cup {v}]
        /\ UNCHANGED <<state, start, lst_chan, known, lock, root_waits, peak>>

\* grv_process_gst_from_root_locked
GstFromRootLocked(p, v) ==
    /\ v \in gst_waits[p]
    /\ lock[p] = "free"
    /\ UpdateGstVector(p, v)
    /\ gst_waits' = [gst_waits EXCEPT ![p] = @ \ {v}]
    /\ lock' = [lock EXCEPT ![p] = "gst"]
    /\ UNCHANGED <<config, version_vector, min_lst_vector,
                   lst_received, chans, root_waits, peak>>

\* Faulty: a leaf does not schedule the next round.
GstFromRootUnlockedOnce(p) ==
    /\ lock[p] = "gst"
    /\ lock' = [lock EXCEPT ![p] = "free"]
    /\ UNCHANGED <<state, chans, root_waits, gst_waits, peak>>

\* grv_process_gst_from_root_unlocked: a leaf schedules the next round.
GstFromRootUnlocked(p) ==
    /\ lock[p] = "gst"
    /\ lock' = [lock EXCEPT ![p] = "free"]
    /\ start' = [start EXCEPT ![p] = IF IsLeaf(p) THEN @ + 1 ELSE @]
    /\ UNCHANGED <<state, lst_chan, gst_chan, known, root_waits, gst_waits, peak>>

\* A get response or a slice request leaves with state->gst_vector.
HandOutGst(p) ==
    /\ known' = MaxVector(known, gst_vector[p])
    /\ UNCHANGED <<state, start, lst_chan, gst_chan, locks, peak>>

\* grv_process_{get_request,rotx_request,slice_request,
\* forwarded_get_request}_locked.  A client joins the vectors it is given, so
\* what a request presents is at most their maximum.  A vector that is no
\* longer needed when its chain gets the lock changes nothing.
HintLocked(p, v) ==
    /\ Leq(v, known)
    /\ NeedUpdate(p, v)
    /\ lock[p] = "free"
    /\ UpdateGstVector(p, v)
    /\ lock' = [lock EXCEPT ![p] = "hint"]
    /\ UNCHANGED <<config, version_vector, min_lst_vector,
                   lst_received, chans, root_waits, gst_waits, peak>>

\* ... and their _UNLOCKED event
HintUnlocked(p) ==
    /\ lock[p] = "hint"
    /\ lock' = [lock EXCEPT ![p] = "free"]
    /\ UNCHANGED <<state, chans, root_waits, gst_waits, peak>>

\* grv_process_get_request of a key that is elsewhere: the vector is raised at
\* once, whoever holds the lock (getput.c:73-77).
ForwardGet(p, v) ==
    /\ Leq(v, known)
    /\ NeedUpdate(p, v)
    /\ UpdateGstVector(p, v)
    /\ UNCHANGED <<config, version_vector, min_lst_vector,
                   lst_received, chans, locks, peak>>

-----------------------------------------------------------------------------
\* An event or a message of a round is processed.
Round(p) ==
    \/ StartGstComputation(p)
    \/ StartGstComputationAlone(p)
    \/ p # 0 /\ (ProcessLstFromLeaf(p) \/ ProcessLastLstFromLeaf(p))
    \/ GstFromRoot(p)

\* A chain gets the lock or gives it up.
Chain(p) ==
    \/ p = 0 /\ (LstFromLeafRootLocked \/ LstFromLeafRootUnlocked)
    \/ \E v \in gst_waits[p] : GstFromRootLocked(p, v)
    \/ GstFromRootUnlocked(p)
    \/ HintUnlocked(p)

Next ==
    \E p \in Partition :
        \/ Round(p)
        \/ Chain(p)
        \/ SetVersion(p)
        \/ HandOutGst(p)
        \/ \E v \in Vector : HintLocked(p, v) \/ ForwardGet(p, v)

Spec == Init /\ [][Next]_vars

\* Every scheduled event and every message is processed, and a chain that
\* waits for the lock gets it (module Cpu).
Fairness ==
    \A p \in UNION {0 .. c.num_partitions - 1 : c \in Configs} :
        /\ WF_vars(p \in Partition /\ Round(p))
        /\ WF_vars(p \in Partition /\ Chain(p))

FairSpec == Spec /\ Fairness

-----------------------------------------------------------------------------
(***************************************************************************)
(* Properties                                                              *)
(***************************************************************************)
\* Every variable has the type its C declaration and use give it.
TypeOK ==
    /\ config \in Configs
    /\ version_vector \in [Partition -> Vector]
    /\ gst_vector \in [Partition -> Vector]
    /\ min_lst_vector \in [Partition -> Vector]
    /\ lst_received \in [Partition -> SUBSET Slot]
    /\ lock \in [Partition -> {"free", "root", "gst", "hint"}]
    /\ root_waits \in BOOLEAN
    /\ gst_waits \in [Partition -> SUBSET Vector]
    /\ start \in [Partition -> Nat]
    /\ lst_chan \in [Partition -> Seq(Vector)]
    /\ gst_chan \in [Partition -> Seq(Vector)]
    /\ known \in Vector
    /\ peak \in [Partition -> Vector]

\* What partition p has under way for the current round
InRound(p) ==
    start[p] + Len(lst_chan[p]) + Len(gst_chan[p]) + Cardinality(gst_waits[p])
        + (IF lock[p] = "gst" THEN 1 ELSE 0)
        + (IF ChildIndex(p) \in lst_received[Parent(p)] THEN 1 ELSE 0)

\* Although a partition lets the next round begin below it before it is done
\* with the last one, rounds do not mix: a child reports once per round (the
\* assertion of gst.c:33), a leaf is never in two rounds, and the root's
\* minimum is not touched between its computation and its use.
RoundsDoNotMix ==
    /\ \A p \in Partition \ {0} :
        /\ Len(lst_chan[p]) <= 1
        /\ lst_chan[p] # <<>> => ChildIndex(p) \notin lst_received[Parent(p)]
        /\ IsLeaf(p) => InRound(p) <= 1
    /\ root_waits \/ lock[0] = "root" =>
        /\ lst_received[0] = {}
        /\ \A c \in Children(0) : lst_chan[c] = <<>>

\* If every version vector reaches time k in an entry and stays there, every
\* GST vector reaches k in that entry: the rounds never stop.
GstVectorAdvances ==
    \A r \in Replica, k \in 1 .. MaxTime :
        <>[](\A p \in Partition : version_vector[p][r] >= k)
            => <>[](\A p \in Partition : gst_vector[p][r] >= k)

\* Entry r of all vectors f
Entry(f, r) == [p \in Partition |-> f[p][r]]

Stable(r) == INSTANCE StableTime WITH
    gst  <- Entry(gst_vector, r),
    peak <- Entry(peak, r)

\* Each entry of the vectors implements the abstract stable time: it only
\* rises, and never above what every partition has received of that replica,
\* with the unlocked writes of forwarded gets as well (gst.c:29-243,
\* getput.c:63-80).  It is the conjunction of Stable(r)!Spec for all r, in a
\* form that TLC can check.
ImplementsStableTimes ==
    /\ \A r \in Replica : Stable(r)!Init
    /\ [][\A r \in Replica :
            \/ Stable(r)!Next
            \/ UNCHANGED <<Entry(gst_vector, r), Entry(peak, r)>>]_vars
=============================================================================
