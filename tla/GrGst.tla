------------------------------- MODULE GrGst -------------------------------
(***************************************************************************)
(* The global stable time of GentleRain in one data centre                 *)
(* (src/src/server/protocols/gr/gst.c).  Rounds run up and down the tree   *)
(* of partitions: the leaves report the minimum of their version vectors,  *)
(* an inner partition reports the minimum of its children's reports and of *)
(* its own version vector, the root raises its GST to that minimum and     *)
(* sends it down, and a leaf that gets it schedules the next round.        *)
(* Meanwhile the version vectors move (puts, clock ticks, heartbeats and   *)
(* replica updates), and GST values travel sideways in client requests,    *)
(* slice requests and slice responses.                                     *)
(*                                                                         *)
(* A handler that needs state->lock is a chain of three events: the one    *)
(* that asks for the lock, _LOCKED, and _UNLOCKED, which runs as the lock  *)
(* is released (module Cpu).  Timestamps are naturals.                     *)
(***************************************************************************)
EXTENDS PartitionTree, Sequences, FiniteSets

CONSTANTS
    NumReplicas,   \* cluster->num_replicas
    MaxTime,       \* bound: timestamps are at most this
    RotxHome       \* the partitions where clients start transactions

ASSUME GstAssumption ==
    /\ NumReplicas \in Nat \ {0}
    /\ MaxTime \in Nat
    /\ RotxHome \subseteq Partition

Replica == 0 .. NumReplicas - 1
Time    == 0 .. MaxTime
Slot    == 0 .. Fanout - 1

VARIABLES
    version_vector,  \* state->version_vector
    gst,             \* state->gst
    min_lst,         \* state->min_lst
    lst_received,    \* the slots set in state->lst_received
    lock,            \* who holds state->lock: free, round or hint
    stage,           \* the round's lock chain: idle, locking or unlocking
    root_gst,        \* the GR_GST_FROM_ROOT message that chain carries
    start,           \* GR_START_GST_COMPUTATION events scheduled
    lst_chan,        \* GR_LST_FROM_LEAF messages from p to its parent
    gst_chan,        \* GR_GST_FROM_ROOT messages from p's parent to p
    known,           \* GST values handed out in responses and requests
    hints,           \* GST values whose chain is waiting for state->lock
    rotx,            \* dependency times of transactions with waiting_gst
    \* history variables
    peak,            \* the highest minimum p's version vector ever had
    reported         \* the LST p sent in the current round, or NoReport

state    == <<version_vector, gst, min_lst, lst_received, rotx>>
chans    == <<start, lst_chan, gst_chan, known>>
chains   == <<lock, stage, root_gst, hints>>
history  == <<peak, reported>>
vars     == <<state, chans, chains, history>>

NoReport == -1

Max2(a, b) == IF a < b THEN b ELSE a
Min2(a, b) == IF a < b THEN a ELSE b

\* min_replica_version of the version vector v
MinReplicaVersion(v) ==
    CHOOSE m \in {v[r] : r \in Replica} : \A r \in Replica : m <= v[r]

Init ==
    /\ version_vector = [p \in Partition |-> [r \in Replica |-> 0]]
    /\ gst = [p \in Partition |-> 0]
    /\ min_lst = [p \in Partition |-> 0]
    /\ lst_received = [p \in Partition |-> {}]
    /\ rotx = [p \in Partition |-> {}]
    /\ start = [p \in Partition |-> IF IsLeaf(p) THEN 1 ELSE 0]
    /\ lst_chan = [p \in Partition |-> <<>>]
    /\ gst_chan = [p \in Partition |-> <<>>]
    /\ known = {}
    /\ lock = [p \in Partition |-> "free"]
    /\ stage = [p \in Partition |-> "idle"]
    /\ root_gst = [p \in Partition |-> 0]
    /\ hints = [p \in Partition |-> {}]
    /\ peak = [p \in Partition |-> 0]
    /\ reported = [p \in Partition |-> NoReport]

-----------------------------------------------------------------------------
\* Faulty: one too many.
UpdateGstBeyond(p, g) ==
    /\ gst' = [gst EXCEPT ![p] = Max2(@, g + 1)]
    /\ UNCHANGED rotx

\* Faulty: the waiting transactions are not looked at.
UpdateGstSilently(p, g) ==
    /\ gst' = [gst EXCEPT ![p] = Max2(@, g)]
    /\ UNCHANGED rotx

\* gr_update_gst, with the transactions gr_rotx_on_gst_updated lets go.
UpdateGst(p, g) ==
    /\ gst' = [gst EXCEPT ![p] = Max2(@, g)]
    /\ rotx' = [rotx EXCEPT ![p] = IF gst[p] < g THEN {d \in @ : d >= g} ELSE @]

\* A put, a clock tick, a heartbeat or a replica update sets one entry.  The
\* value is arbitrary: nothing here relies on the entries being monotonic.
SetVersion(p) ==
    /\ \E r \in Replica, t \in Time :
        version_vector' = [version_vector EXCEPT ![p][r] = t]
    /\ peak' = [peak EXCEPT
                    ![p] = Max2(@, MinReplicaVersion(version_vector'[p]))]
    /\ UNCHANGED <<gst, min_lst, lst_received, rotx, chans, chains, reported>>

\* Faulty: the leaf schedules the next round at once, as partition 0 does
\* when it is alone.
StartAndReschedule(p) ==
    /\ start[p] > 0
    /\ p # 0
    /\ LET lst == MinReplicaVersion(version_vector[p])
       IN  /\ lst_chan' = [lst_chan EXCEPT ![p] = Append(@, lst)]
           /\ reported' = [reported EXCEPT ![p] = lst]
    /\ UNCHANGED <<state, start, gst_chan, known, chains, peak>>

\* gr_process_start_gst_computation in a tree: a leaf reports.
StartGstComputation(p) ==
    /\ start[p] > 0
    /\ p # 0
    /\ LET lst == MinReplicaVersion(version_vector[p])
       IN  /\ lst_chan' = [lst_chan EXCEPT ![p] = Append(@, lst)]
           /\ reported' = [reported EXCEPT ![p] = lst]
    /\ start' = [start EXCEPT ![p] = @ - 1]
    /\ UNCHANGED <<state, gst_chan, known, chains, peak>>

\* The same when partition 0 is the only one: it raises its own GST, without
\* the lock and from entry 0 alone, and schedules itself again.
StartGstComputationAlone(p) ==
    /\ start[p] > 0
    /\ p = 0
    /\ UpdateGst(p, version_vector[p][0])
    /\ UNCHANGED <<version_vector, min_lst, lst_received, chans, chains,
                   history>>

\* gr_process_lst_from_leaf at the parent of c, when other children are still
\* to report.  The second guard is the assertion of gst.c:43.
ProcessLstFromLeaf(c) ==
    LET p   == Parent(c)
        lst == Head(lst_chan[c])
    IN  /\ lst_chan[c] # <<>>
        /\ ChildIndex(c) \notin lst_received[p]
        /\ Cardinality(lst_received[p]) # NumChildren(p) - 1
        /\ min_lst' = [min_lst EXCEPT
                ![p] = IF lst_received[p] = {} THEN lst ELSE Min2(lst, @)]
        /\ lst_received' = [lst_received EXCEPT ![p] = @ \cup {ChildIndex(c)}]
        /\ lst_chan' = [lst_chan EXCEPT ![c] = Tail(@)]
        /\ UNCHANGED <<version_vector, gst, rotx, start, gst_chan, known,
                       chains, history>>

\* Faulty: an inner partition reports for its children only.
ProcessLastLstChildrenOnly(c) ==
    LET p   == Parent(c)
        lst == Head(lst_chan[c])
        min == IF lst_received[p] = {} THEN lst ELSE Min2(lst, min_lst[p])
        taken == [lst_chan EXCEPT ![c] = Tail(@)]
    IN  /\ lst_chan[c] # <<>>
        /\ ChildIndex(c) \notin lst_received[p]
        /\ Cardinality(lst_received[p]) = NumChildren(p) - 1
        /\ min_lst' = [min_lst EXCEPT ![p] = min]
        /\ lst_received' = [lst_received EXCEPT ![p] = {}]
        /\ reported' = [reported EXCEPT ![p] = min]
        /\ IF p = 0
           THEN /\ stage' = [stage EXCEPT ![p] = "locking"]
                /\ lst_chan' = taken
           ELSE /\ lst_chan' = [taken EXCEPT ![p] = Append(@, min)]
                /\ UNCHANGED stage
        /\ UNCHANGED <<version_vector, gst, rotx, start, gst_chan, known, lock,
                       root_gst, hints, peak>>

\* The same for the last child: the slots are cleared, the partition's own
\* version vector counts too, and the result goes up or, at the root, into
\* the chain that raises the GST.
ProcessLastLstFromLeaf(c) ==
    LET p   == Parent(c)
        lst == Head(lst_chan[c])
        children == IF lst_received[p] = {} THEN lst ELSE Min2(lst, min_lst[p])
        min == Min2(children, MinReplicaVersion(version_vector[p]))
        taken == [lst_chan EXCEPT ![c] = Tail(@)]
    IN  /\ lst_chan[c] # <<>>
        /\ ChildIndex(c) \notin lst_received[p]
        /\ Cardinality(lst_received[p]) = NumChildren(p) - 1
        /\ min_lst' = [min_lst EXCEPT ![p] = min]
        /\ lst_received' = [lst_received EXCEPT ![p] = {}]
        /\ reported' = [reported EXCEPT ![p] = min]
        /\ \/ /\ p = 0
              /\ stage' = [stage EXCEPT ![p] = "locking"]
              /\ lst_chan' = taken
           \/ /\ p # 0
              /\ lst_chan' = [taken EXCEPT ![p] = Append(@, min)]
              /\ UNCHANGED stage
        /\ UNCHANGED <<version_vector, gst, rotx, start, gst_chan, known, lock,
                       root_gst, hints, peak>>

\* gr_process_lst_from_leaf_root_locked
LstFromLeafRootLocked ==
    /\ stage[0] = "locking"
    /\ lock[0] = "free"
    /\ UpdateGst(0, min_lst[0])
    /\ lock' = [lock EXCEPT ![0] = "round"]
    /\ stage' = [stage EXCEPT ![0] = "unlocking"]
    /\ UNCHANGED <<version_vector, min_lst, lst_received, chans, root_gst,
                   hints, history>>

\* server_foreach_children_partition with gr_send_gst.
SendGst(p, g) ==
    gst_chan' = [c \in Partition |->
        IF c \in Children(p) THEN Append(gst_chan[c], g) ELSE gst_chan[c]]

\* gr_process_lst_from_leaf_root_unlocked: the message carries state->gst.
LstFromLeafRootUnlocked ==
    /\ stage[0] = "unlocking"
    /\ lock' = [lock EXCEPT ![0] = "free"]
    /\ stage' = [stage EXCEPT ![0] = "idle"]
    /\ SendGst(0, gst[0])
    /\ reported' = [reported EXCEPT ![0] = NoReport]
    /\ UNCHANGED <<state, start, lst_chan, known, root_gst, hints, peak>>

\* gr_process_gst_from_root
GstFromRoot(p) ==
    /\ gst_chan[p] # <<>>
    /\ stage[p] = "idle"
    /\ root_gst' = [root_gst EXCEPT ![p] = Head(gst_chan[p])]
    /\ gst_chan' = [gst_chan EXCEPT ![p] = Tail(@)]
    /\ stage' = [stage EXCEPT ![p] = "locking"]
    /\ UNCHANGED <<state, start, lst_chan, known, lock, hints, history>>

\* gr_process_gst_from_root_locked
GstFromRootLocked(p) ==
    /\ p # 0
    /\ stage[p] = "locking"
    /\ lock[p] = "free"
    /\ UpdateGst(p, root_gst[p])
    /\ lock' = [lock EXCEPT ![p] = "round"]
    /\ stage' = [stage EXCEPT ![p] = "unlocking"]
    /\ UNCHANGED <<version_vector, min_lst, lst_received, chans, root_gst,
                   hints, history>>

\* Faulty: a leaf does not schedule the next round.
GstFromRootUnlockedOnce(p) ==
    /\ p # 0
    /\ stage[p] = "unlocking"
    /\ lock' = [lock EXCEPT ![p] = "free"]
    /\ stage' = [stage EXCEPT ![p] = "idle"]
    /\ reported' = [reported EXCEPT ![p] = NoReport]
    /\ SendGst(p, root_gst[p])
    /\ UNCHANGED <<state, start, lst_chan, known, root_gst, hints, peak>>

\* gr_process_gst_from_root_unlocked: a leaf schedules the next round, an
\* inner partition passes the message it got to its children.
GstFromRootUnlocked(p) ==
    /\ p # 0
    /\ stage[p] = "unlocking"
    /\ lock' = [lock EXCEPT ![p] = "free"]
    /\ stage' = [stage EXCEPT ![p] = "idle"]
    /\ reported' = [reported EXCEPT ![p] = NoReport]
    /\ \/ /\ IsLeaf(p)
          /\ start' = [start EXCEPT ![p] = @ + 1]
          /\ UNCHANGED gst_chan
       \/ /\ ~IsLeaf(p)
          /\ SendGst(p, root_gst[p])
          /\ UNCHANGED start
    /\ UNCHANGED <<state, lst_chan, known, root_gst, hints, peak>>

\* A get response, a slice request or a slice response leaves with
\* state->gst; whoever learns the value may present it to any partition of
\* the data centre later, any number of times.
HandOutGst(p) ==
    /\ known' = known \cup {gst[p]}
    /\ UNCHANGED <<state, start, lst_chan, gst_chan, chains, history>>

\* A get request, a forwarded one, a slice request or a slice response
\* arrives with a GST above the local one (gr_gst_need_update).  A snapshot
\* request takes the lock in any case; with a GST that is not above the local
\* one its chain changes nothing here, like a hint that comes too late.
NeedUpdate(p, g) ==
    /\ g \in known
    /\ gst[p] < g
    /\ hints' = [hints EXCEPT ![p] = @ \cup {g}]
    /\ UNCHANGED <<state, chans, lock, stage, root_gst, history>>

\* gr_process_{get_request,forward_get_request,slice_request,slice_response,
\* get_snapshot_request}_locked
HintLocked(p, g) ==
    /\ g \in hints[p]
    /\ lock[p] = "free"
    /\ UpdateGst(p, g)
    /\ lock' = [lock EXCEPT ![p] = "hint"]
    /\ hints' = [hints EXCEPT ![p] = @ \ {g}]
    /\ UNCHANGED <<version_vector, min_lst, lst_received, chans, stage,
                   root_gst, history>>

HintUnlocked(p) ==
    /\ lock[p] = "hint"
    /\ lock' = [lock EXCEPT ![p] = "free"]
    /\ UNCHANGED <<state, chans, stage, root_gst, hints, history>>

\* gr_process_rotx_request of a transaction that depends on time d > gst.
\* One that need not wait goes on at once and changes nothing here.
RotxRequestWaits(p, d) ==
    /\ gst[p] < d
    /\ rotx' = [rotx EXCEPT ![p] = @ \cup {d}]
    /\ UNCHANGED <<version_vector, gst, min_lst, lst_received, chans, chains,
                   history>>

-----------------------------------------------------------------------------
\* The steps of the rounds that partition p takes, for its child's messages
\* those of its parent.
Round(p) ==
    \/ StartGstComputation(p)
    \/ StartGstComputationAlone(p)
    \/ p # 0 /\ (ProcessLstFromLeaf(p) \/ ProcessLastLstFromLeaf(p))
    \/ p = 0 /\ (LstFromLeafRootLocked \/ LstFromLeafRootUnlocked)
    \/ GstFromRoot(p)
    \/ GstFromRootLocked(p)
    \/ GstFromRootUnlocked(p)

Hint(p) == HintUnlocked(p) \/ \E g \in known : NeedUpdate(p, g) \/ HintLocked(p, g)

Next ==
    \E p \in Partition :
        \/ Round(p)
        \/ SetVersion(p)
        \/ HandOutGst(p)
        \/ Hint(p)
        \/ p \in RotxHome /\ \E d \in Time : RotxRequestWaits(p, d)

Spec == Init /\ [][Next]_vars
\* Every scheduled event and every message is processed, and a chain that
\* waits for a lock gets it (module Cpu).  Clients and version vectors are
\* under no obligation.
Fairness == \A p \in Partition : WF_vars(Round(p)) /\ WF_vars(HintUnlocked(p))

FairSpec == Spec /\ Fairness

-----------------------------------------------------------------------------
(***************************************************************************)
(* Properties                                                              *)
(***************************************************************************)

\* Every variable has the type its C declaration and use give it.
TypeOK ==
    /\ version_vector \in [Partition -> [Replica -> Time]]
    /\ gst \in [Partition -> Time]
    /\ min_lst \in [Partition -> Time]
    /\ lst_received \in [Partition -> SUBSET Slot]
    /\ rotx \in [Partition -> SUBSET Time]
    /\ start \in [Partition -> Nat]
    /\ lst_chan \in [Partition -> Seq(Time)]
    /\ gst_chan \in [Partition -> Seq(Time)]
    /\ known \in SUBSET Time
    /\ lock \in [Partition -> {"free", "round", "hint"}]
    /\ stage \in [Partition -> {"idle", "locking", "unlocking"}]
    /\ root_gst \in [Partition -> Time]
    /\ hints \in [Partition -> SUBSET Time]
    /\ peak \in [Partition -> Time]
    /\ reported \in [Partition -> Time \cup {NoReport}]

\* The promise of the GST: no partition's GST is ever above the minimum any
\* partition's version vector has reached, so whatever is visible at time GST
\* has been received from every replica by every partition (gst.c:28-70 and
\* every path a GST value takes).  It holds whatever the version vectors do.
GstSafe == \A p, q \in Partition : gst[p] <= peak[q]

\* Rounds do not overlap: a child reports at most once in a round (the
\* assertion of gst.c:43), no message or event of a round is still on its way
\* when the next one of its kind is produced, and the minimum the root is
\* about to apply is the one it computed.
RoundsDoNotOverlap ==
    /\ \A p \in Partition :
        /\ Len(lst_chan[p]) + Len(gst_chan[p]) + start[p]
             + (IF stage[p] = "idle" THEN 0 ELSE 1) <= 1
        /\ p # 0 /\ ChildIndex(p) \in lst_received[Parent(p)] =>
                /\ Len(lst_chan[p]) + Len(gst_chan[p]) + start[p] = 0
                /\ stage[p] = "idle"
    /\ stage[0] = "locking" => min_lst[0] = reported[0]

\* No wake-up of a transaction is lost: none is left waiting once the GST is
\* above the time it depends on (rotx.c:66-71 and 95-109).
NoRotxLeftBehind == \A p \in Partition : \A d \in rotx[p] : d >= gst[p]

\* If every version vector reaches time k and stays there, every partition's
\* GST reaches k, and no transaction that depends on an earlier time is kept
\* waiting: the rounds never stop (gst.c:132-136 and 154-189).
GstAdvances ==
    \A k \in 1 .. MaxTime :
        <>[](\A p \in Partition : MinReplicaVersion(version_vector[p]) >= k)
            => <>[](\A p \in Partition : gst[p] >= k /\ \A d \in rotx[p] : d >= k)

Stable == INSTANCE StableTime

\* The rounds and hints implement the abstract stable time: a step raises the
\* GST of one partition at most, and never above what every partition has
\* reached (gst.c:28-150 and 192-208).
ImplementsStableTime == Stable!Spec
=============================================================================
