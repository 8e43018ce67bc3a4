--------------------------- MODULE GrReplication ---------------------------
(***************************************************************************)
(* Replication of one partition of GentleRain across the data centres:     *)
(* puts, clock ticks, heartbeats and replica updates                       *)
(* (src/src/server/protocols/gr: getput.c, gr.c, heartbeat.c,              *)
(* replication.c, store.c).                                                *)
(*                                                                         *)
(* A put and a clock tick run under state->lock, one at a time per server: *)
(* main[r] is that chain between its _LOCKED and its _UNLOCKED event.      *)
(* Updates and heartbeats from replica s run under replica_locks[s]:       *)
(* work[r][s] is the chain of the update at the head of the queue for s,   *)
(* beats[r][s] are the heartbeats that wait for that lock, rlock[r][s] is  *)
(* its holder.  A server with one core runs one chain at a time, from its  *)
(* first event to its last; with more cores chains interleave (module      *)
(* Cpu).                                                                   *)
(*                                                                         *)
(* clock[r] is the server's clock at its last main event.  Each main event *)
(* picks its own, later for an event that starts a critical section: no    *)
(* two of them fall on one instant.  Clocks of different servers are       *)
(* unrelated, which covers every clock skew.                               *)
(***************************************************************************)
EXTENDS Integers, Sequences, FiniteSets

CONSTANTS
    NumReplicas,   \* cluster->num_replicas
    Key,           \* the keys of this partition
    Settings,      \* the parameter files that are considered
    Interval,      \* clock_interval
    MaxTime        \* bound: no simulation ends later

Replica == 0 .. NumReplicas - 1
Time    == 0 .. MaxTime

\* What a parameter file fixes: the protocol, whether cores_per_server is 1,
\* the replicas whose clients put a key, and when the simulation ends.
Setting == [protocol : {"gr", "grv"}, single_core : BOOLEAN,
            writers : [Key -> SUBSET Replica], end : Time]

ASSUME ReplicationAssumption ==
    /\ NumReplicas \in Nat \ {0}
    /\ Settings \subseteq Setting
    /\ Interval \in Nat \ {0}
    /\ MaxTime \in Nat

VARIABLES
    setting,         \* the parameters of this simulation, which never change
    clock,           \* state->clock of the last main event
    next_tick,       \* when the pending GR_CLOCK_TICK is due
    version_vector,  \* state->version_vector
    store,           \* the version chain of each key, newest first
    update_queue,    \* state->replica_update_queues
    ticking,         \* a GR_CLOCK_TICK chain waits for state->lock
    main,            \* the chain that holds state->lock
    work,            \* the chain of the update at the head of a queue
    beats,           \* heartbeat times that wait for replica_locks[s]
    rlock,           \* who holds replica_locks[s]: free, update, heartbeat
    chan             \* chan[s][r]: messages from s to r, in order

state == <<clock, next_tick, ticking, version_vector, store, update_queue,
           main, work, beats, rlock, chan>>
vars  == <<setting, state>>

-----------------------------------------------------------------------------
(***************************************************************************)
(* Data                                                                    *)
(***************************************************************************)
\* One version of a value: its update time and source replica.
Item == [ut : Time, sr : Replica]

\* gr_replica_update_t: the version and the one it replaced at its source.
Update == [key : Key, item : Item, previous : Item]

NoItem == [ut |-> 0, sr |-> 0]   \* what a read of an absent key returns

\* gr_get_value_at with gr_always_visible
Latest(chain) == IF chain = <<>> THEN NoItem ELSE Head(chain)

\* Faulty: an older version is put on top.
PutValueAlways(chain, item) == <<item>> \o chain

\* gr_put_value: an older version is dropped.
PutValue(chain, item) ==
    IF chain # <<>> /\ Head(chain).ut > item.ut THEN chain
    ELSE <<item>> \o chain

Older(a, b) == a.ut < b.ut \/ (a.ut = b.ut /\ a.sr < b.sr)

UpdateMsg(u)  == [type |-> "update", update |-> u]
HeartbeatMsg(t) == [type |-> "heartbeat", time |-> t]

Idle == [stage |-> "idle"]

Init ==
    /\ setting \in Settings
    /\ clock = [r \in Replica |-> 0]
    /\ next_tick = [r \in Replica |-> Interval]
    /\ version_vector = [r \in Replica |-> [s \in Replica |-> 0]]
    /\ store = [r \in Replica |-> [k \in Key |-> <<>>]]
    /\ update_queue = [r \in Replica |-> [s \in Replica |-> <<>>]]
    /\ ticking = [r \in Replica |-> FALSE]
    /\ main = [r \in Replica |-> Idle]
    /\ work = [r \in Replica |-> [s \in Replica |-> Idle]]
    /\ beats = [r \in Replica |-> [s \in Replica |-> {}]]
    /\ rlock = [r \in Replica |-> [s \in Replica |-> "free"]]
    /\ chan = [s \in Replica |-> [r \in Replica |-> <<>>]]

\* No chain is between two of its events at r.
NoChain(r) ==
    /\ main[r] = Idle
    /\ ~ticking[r]
    /\ \A s \in Replica :
        /\ work[r][s].stage = "idle"
        /\ beats[r][s] = {}
        /\ rlock[r][s] = "free"

\* A core of r can start another chain.
CoreFor(r) == setting.single_core => NoChain(r)

\* The clocks of this simulation
Clock == 0 .. setting.end

\* foreach_replica with server_send: to every other replica
SendToReplicas(r, msg) ==
    chan' = [chan EXCEPT ![r] = [s \in Replica |->
                IF s = r THEN @[s] ELSE Append(@[s], msg)]]

-----------------------------------------------------------------------------
(***************************************************************************)
(* Puts and clock ticks: the chains under state->lock                      *)
(***************************************************************************)

\* gr_process_put_request_locked
PutRequestLocked(r, k, c) ==
    /\ r \in setting.writers[k]
    /\ main[r] = Idle
    /\ CoreFor(r)
    /\ c > clock[r]
    /\ clock' = [clock EXCEPT ![r] = c]
    /\ version_vector' = [version_vector EXCEPT ![r][r] = c]
    /\ LET item  == [ut |-> c, sr |-> r]
           chain == store[r][k]
           new   == PutValue(chain, item)
       IN  /\ store' = [store EXCEPT ![r][k] = new]
           /\ main' = [main EXCEPT ![r] =
                [stage |-> "put", discarded |-> new = chain,
                 update |-> [key |-> k, item |-> item,
                             previous |-> Latest(chain)]]]
    /\ UNCHANGED <<next_tick, ticking, update_queue, work, beats, rlock, chan>>

\* gr_process_put_request_unlocked, with gr_replicate_value
PutRequestUnlocked(r) ==
    /\ main[r].stage = "put"
    /\ main' = [main EXCEPT ![r] = Idle]
    /\ \/ /\ main[r].discarded
          /\ UNCHANGED chan
       \/ /\ ~main[r].discarded
          /\ SendToReplicas(r, UpdateMsg(main[r].update))
    /\ UNCHANGED <<clock, next_tick, ticking, version_vector, store, update_queue, work,
                   beats, rlock>>

\* gr_process_clock_tick: take the lock, or, when a put has set the clock
\* entry less than an interval ago, send an empty heartbeat.
ClockTick(r, c) ==
    /\ ~ticking[r]
    /\ CoreFor(r)
    /\ c >= clock[r]
    /\ c >= next_tick[r]
    /\ clock' = [clock EXCEPT ![r] = c]
    /\ \/ /\ c >= version_vector[r][r] + Interval
          /\ ticking' = [ticking EXCEPT ![r] = TRUE]
          /\ UNCHANGED <<next_tick, chan>>
       \/ /\ c < version_vector[r][r] + Interval
          /\ next_tick' = [next_tick EXCEPT ![r] = c + Interval]
          /\ SendToReplicas(r, HeartbeatMsg(0))
          /\ UNCHANGED ticking
    /\ UNCHANGED <<version_vector, store, update_queue, main, work, beats,
                   rlock>>

\* gr_process_clock_tick_locked; the check is made again, since puts may have
\* held the lock meanwhile.
ClockTickLocked(r, c) ==
    /\ ticking[r]
    /\ main[r] = Idle
    /\ c >= clock[r]
    /\ clock' = [clock EXCEPT ![r] = c]
    /\ ticking' = [ticking EXCEPT ![r] = FALSE]
    /\ LET send_time == c >= version_vector[r][r] + Interval
       IN  /\ version_vector' = [version_vector EXCEPT
                    ![r][r] = IF send_time THEN c ELSE @]
           /\ main' = [main EXCEPT ![r] =
                    [stage |-> "tick", send_time |-> send_time]]
    /\ UNCHANGED <<next_tick, store, update_queue, work, beats, rlock, chan>>

\* Faulty: the heartbeat promises one instant too many.
ClockTickUnlockedAhead(r, c) ==
    /\ main[r].stage = "tick"
    /\ c >= clock[r]
    /\ clock' = [clock EXCEPT ![r] = c]
    /\ SendToReplicas(r, HeartbeatMsg(IF main[r].send_time THEN c + 1 ELSE 0))
    /\ main' = [main EXCEPT ![r] = Idle]
    /\ next_tick' = [next_tick EXCEPT ![r] = c + Interval]
    /\ UNCHANGED <<ticking, version_vector, store, update_queue, work, beats,
                   rlock>>

\* gr_process_clock_tick_unlocked: the heartbeat carries the clock of now.
ClockTickUnlocked(r, c) ==
    /\ main[r].stage = "tick"
    /\ c >= clock[r]
    /\ clock' = [clock EXCEPT ![r] = c]
    /\ SendToReplicas(r, HeartbeatMsg(IF main[r].send_time THEN c ELSE 0))
    /\ main' = [main EXCEPT ![r] = Idle]
    /\ next_tick' = [next_tick EXCEPT ![r] = c + Interval]
    /\ UNCHANGED <<ticking, version_vector, store, update_queue, work, beats, rlock>>

-----------------------------------------------------------------------------
(***************************************************************************)
(* Heartbeats: chains under replica_locks[s]                               *)
(***************************************************************************)
Arrives(r, s, type) == chan[s][r] # <<>> /\ Head(chan[s][r]).type = type

\* gr_process_heartbeat
ProcessHeartbeat(r, s) ==
    /\ Arrives(r, s, "heartbeat")
    /\ CoreFor(r)
    /\ LET t == Head(chan[s][r]).time
       IN  beats' = [beats EXCEPT ![r][s] =
                IF version_vector[r][s] < t THEN @ \cup {t} ELSE @]
    /\ chan' = [chan EXCEPT ![s][r] = Tail(@)]
    /\ UNCHANGED <<clock, next_tick, ticking, version_vector, store, update_queue, main,
                   work, rlock>>

\* gr_process_heartbeat_locked
HeartbeatLocked(r, s, t) ==
    /\ t \in beats[r][s]
    /\ rlock[r][s] = "free"
    /\ rlock' = [rlock EXCEPT ![r][s] = "heartbeat"]
    /\ beats' = [beats EXCEPT ![r][s] = @ \ {t}]
    /\ version_vector' = [version_vector EXCEPT
            ![r][s] = IF @ < t THEN t ELSE @]
    /\ UNCHANGED <<clock, next_tick, ticking, store, update_queue, main, work, chan>>

\* CPU_LOCK_UNLOCK with CPU_NO_EVENT
HeartbeatUnlocked(r, s) ==
    /\ rlock[r][s] = "heartbeat"
    /\ rlock' = [rlock EXCEPT ![r][s] = "free"]
    /\ UNCHANGED <<clock, next_tick, ticking, version_vector, store, update_queue, main,
                   work, beats, chan>>

-----------------------------------------------------------------------------
(***************************************************************************)
(* Replica updates: queued per source, one chain at a time per source      *)
(***************************************************************************)
Conflicts(r, u) == u.previous # Latest(store[r][u.key])
Ignored(r, u)   == Conflicts(r, u) /\ Older(u.item, Latest(store[r][u.key]))

\* gr_process_replica_update_work on the head of q, going on to the next
\* updates as long as they are ignored: the queue that is left.
Remaining(r, q) ==
    IF \A i \in 1 .. Len(q) : Ignored(r, q[i]) THEN <<>>
    ELSE LET first == CHOOSE i \in 1 .. Len(q) :
                /\ ~Ignored(r, q[i])
                /\ \A j \in 1 .. i - 1 : Ignored(r, q[j])
         IN  SubSeq(q, first, Len(q))

\* ... and the chain it starts.  A conflicting update that is not older is
\* neither applied nor dequeued, and no chain is left to do it.
Chain(r, q) ==
    IF q # <<>> /\ ~Conflicts(r, Head(q))
    THEN [stage |-> "locking", update |-> Head(q)]
    ELSE Idle

Work(r, s, q) ==
    LET left == Remaining(r, q)
    IN  /\ update_queue' = [update_queue EXCEPT ![r][s] = left]
        /\ work' = [work EXCEPT ![r][s] = Chain(r, left)]

\* Faulty: every update is worked on as it arrives.
ProcessReplicaUpdateAtOnce(r, s) ==
    /\ Arrives(r, s, "update")
    /\ CoreFor(r)
    /\ chan' = [chan EXCEPT ![s][r] = Tail(@)]
    /\ LET u == Head(chan[s][r]).update
       IN  /\ update_queue' = [update_queue EXCEPT ![r][s] = Append(@, u)]
           /\ work' = [work EXCEPT ![r][s] =
                            [stage |-> "locking", update |-> u]]
    /\ UNCHANGED <<clock, next_tick, ticking, version_vector, store, main,
                   beats, rlock>>

\* gr_process_replica_update
ProcessReplicaUpdate(r, s) ==
    /\ Arrives(r, s, "update")
    /\ CoreFor(r)
    /\ chan' = [chan EXCEPT ![s][r] = Tail(@)]
    /\ LET q == update_queue[r][s]
           u == Head(chan[s][r]).update
       IN  \/ /\ q = <<>>
              /\ Work(r, s, <<u>>)
           \/ /\ q # <<>>
              /\ update_queue' = [update_queue EXCEPT ![r][s] = Append(q, u)]
              /\ UNCHANGED work
    /\ UNCHANGED <<clock, next_tick, ticking, version_vector, store, main, beats, rlock>>

\* Faulty: the version vector moves, the value is not stored.
ReplicaUpdateLockedNoPut(r, s) ==
    /\ work[r][s].stage = "locking"
    /\ rlock[r][s] = "free"
    /\ LET u == work[r][s].update
       IN  version_vector' = [version_vector EXCEPT ![r][u.item.sr] = u.item.ut]
    /\ rlock' = [rlock EXCEPT ![r][s] = "update"]
    /\ work' = [work EXCEPT ![r][s].stage = "unlocking"]
    /\ UNCHANGED <<clock, next_tick, ticking, store, update_queue, main, beats,
                   chan>>

\* gr_process_replica_update_locked
ReplicaUpdateLocked(r, s) ==
    /\ work[r][s].stage = "locking"
    /\ rlock[r][s] = "free"
    /\ LET u == work[r][s].update
       IN  /\ store' = [store EXCEPT ![r][u.key] = PutValue(@, u.item)]
           /\ version_vector' = [version_vector EXCEPT
                    ![r][u.item.sr] = u.item.ut]
    /\ rlock' = [rlock EXCEPT ![r][s] = "update"]
    /\ work' = [work EXCEPT ![r][s].stage = "unlocking"]
    /\ UNCHANGED <<clock, next_tick, ticking, update_queue, main, beats, chan>>

\* Faulty: the next update of the queue is not started.
ReplicaUpdateUnlockedOne(r, s) ==
    /\ work[r][s].stage = "unlocking"
    /\ rlock' = [rlock EXCEPT ![r][s] = "free"]
    /\ update_queue' = [update_queue EXCEPT ![r][s] = Tail(@)]
    /\ work' = [work EXCEPT ![r][s] = Idle]
    /\ UNCHANGED <<clock, next_tick, ticking, version_vector, store, main,
                   beats, chan>>

\* gr_process_replica_update_unlocked
ReplicaUpdateUnlocked(r, s) ==
    /\ work[r][s].stage = "unlocking"
    /\ rlock' = [rlock EXCEPT ![r][s] = "free"]
    /\ Work(r, s, Tail(update_queue[r][s]))
    /\ UNCHANGED <<clock, next_tick, ticking, version_vector, store, main, beats, chan>>

-----------------------------------------------------------------------------
Main(r) ==
    \/ PutRequestUnlocked(r)
    \/ \E c \in Clock : ClockTick(r, c) \/ ClockTickLocked(r, c)
                       \/ ClockTickUnlocked(r, c)

Receive(r, s) ==
    \/ ProcessHeartbeat(r, s)
    \/ \E t \in Time : HeartbeatLocked(r, s, t)
    \/ HeartbeatUnlocked(r, s)
    \/ ProcessReplicaUpdate(r, s)
    \/ ReplicaUpdateLocked(r, s)
    \/ ReplicaUpdateUnlocked(r, s)

\* Everything sent has been processed and no chain is open.
Quiet ==
    /\ \A r \in Replica : NoChain(r)
    /\ \A r, s \in Replica : chan[s][r] = <<>>

\* The model's clocks may stop only when nothing is left to do.
Stopped == Quiet /\ UNCHANGED vars

Next ==
    \/ /\ UNCHANGED setting
       /\ \E r \in Replica :
            \/ Main(r)
            \/ \E k \in Key, c \in Clock : PutRequestLocked(r, k, c)
            \/ \E s \in Replica : Receive(r, s)
    \/ Stopped

Spec == Init /\ [][Next]_vars

\* An event that the simulator holds: the next one of a chain or a message.
\* Puts come from clients, and ticks only while the model's clocks go on.
Pending(r) ==
    \/ PutRequestUnlocked(r)
    \/ \E c \in Clock : ClockTickLocked(r, c) \/ ClockTickUnlocked(r, c)
    \/ \E s \in Replica : Receive(r, s)

\* The simulator does not stop while an event is pending.
Fairness == WF_state(\E r \in Replica : Pending(r))

FairSpec == Spec /\ Fairness
-----------------------------------------------------------------------------
(***************************************************************************)
(* Properties                                                              *)
(***************************************************************************)
Members(seq) == {seq[i] : i \in DOMAIN seq}

\* Every variable has the type its C declaration and use give it.
TypeOK ==
    /\ clock \in [Replica -> Time]
    /\ next_tick \in [Replica -> Nat]
    /\ ticking \in [Replica -> BOOLEAN]
    /\ version_vector \in [Replica -> [Replica -> Time]]
    /\ \A r \in Replica :
        /\ \A k \in Key : Members(store[r][k]) \subseteq Item
        /\ main[r].stage \in {"idle", "put", "tick"}
        /\ \A s \in Replica :
            /\ Members(update_queue[r][s]) \subseteq Update
            /\ work[r][s].stage \in {"idle", "locking", "unlocking"}
            /\ beats[r][s] \subseteq Time
            /\ rlock[r][s] \in {"free", "update", "heartbeat"}
            /\ \A m \in Members(chan[s][r]) : m.type \in {"update", "heartbeat"}

\* Only one replica puts a key.
ConflictFree == \A k \in Key : Cardinality(setting.writers[k]) <= 1

\* Every update is applied or ignored: in gr when none conflict.
Lossless == setting.protocol = "grv" \/ ConflictFree

\* What an entry of a version vector promises, and what the GST is built on:
\* when r's entry for s is t, r has every version of s up to t, or a newer one
\* of the same key (gr/heartbeat.c:16-33, gr/replication.c:55-71, and their
\* counterparts in grv).  It needs one core per server: with more a heartbeat
\* overtakes the updates that wait in the queue.
VersionVectorCovers ==
    setting.single_core /\ Lossless =>
        \A r, s \in Replica, k \in Key :
            \A item \in Members(store[s][k]) :
                item.sr = s /\ item.ut <= version_vector[r][s] =>
                    \E other \in Members(store[r][k]) : ~Older(other, item)

\* With one core no entry of a version vector ever goes back, and with any
\* number of cores a server's own entry does not, although a clock tick acts
\* on a check that it made before it had the lock.
VersionVectorMonotonic ==
    [][\A r, s \in Replica :
        setting.single_core \/ r = s =>
            version_vector'[r][s] >= version_vector[r][s]]_vars

\* The versions of a key are chained newest first, which is what a read at a
\* snapshot time walks (store.c:56-113), and none is there twice.
ChainsSorted ==
    \A r \in Replica, k \in Key :
        \A i, j \in DOMAIN store[r][k] :
            i < j => /\ store[r][k][j].ut <= store[r][k][i].ut
                     /\ store[r][k][j] # store[r][k][i]

\* The update that a chain applied is the one it takes off the queue (the
\* assertions of gr/replication.c:78-82 and grv/replication.c:80-84), and the
\* lock it releases is its own.
DequeuesWhatItApplied ==
    \A r, s \in Replica :
        /\ work[r][s].stage # "idle" =>
            /\ update_queue[r][s] # <<>>
            /\ Head(update_queue[r][s]) = work[r][s].update
        /\ (work[r][s].stage = "unlocking") <=> (rlock[r][s] = "update")

\* A queue that is not empty has a chain that works on its head, so that an
\* update is applied or ignored and never just left there
\* (gr/replication.c:14-53, grv/replication.c:16-56).
QueueIsServed ==
    \A r, s \in Replica :
        update_queue[r][s] # <<>> => work[r][s].stage # "idle"

\* gr serves its queues as long as updates do not conflict, grv in any case.
QueuesAreServed == Lossless => QueueIsServed

\* No two versions anywhere have the same time.
NoTies ==
    \A r, s \in Replica, k \in Key :
        \A a \in Members(store[r][k]), b \in Members(store[s][k]) :
            a.ut = b.ut => a = b

\* When nothing is in flight the replicas agree on the latest version of
\* every key: in gr without conflicts, in grv also with them unless two
\* clocks gave the very same time (replication.c:36-52, store.c:93-99).
Convergence ==
    Quiet /\ (ConflictFree \/ (setting.protocol = "grv" /\ NoTies)) =>
        \A r, s \in Replica, k \in Key :
            Latest(store[r][k]) = Latest(store[s][k])

\* Every update that arrives is eventually taken off its queue: a queue is
\* empty again and again.
UpdatesAreProcessed ==
    \A r, s \in Replica : []<>(Lossless => update_queue[r][s] = <<>>)
=============================================================================
