--------------------------- MODULE GrvReplication ---------------------------
(***************************************************************************)
(* Replication of one partition under the vector protocol                  *)
(* (src/src/server/protocols/grv: getput.c, grv.c, heartbeat.c,            *)
(* replication.c).  State, messages and most handlers are those of module  *)
(* GrReplication.  What differs: one lock, lock_vv, guards the version     *)
(* vector and the store for puts, ticks, heartbeats and updates alike; a   *)
(* tick does not repeat its check under the lock; a heartbeat always takes *)
(* the lock; and an update that conflicts and is not older is applied.     *)
(***************************************************************************)
EXTENDS GrReplication

\* No chain that updates or heartbeats started holds lock_vv.
ReplicasFree(r) == \A s \in Replica : rlock[r][s] = "free"

\* No chain holds lock_vv.
VvFree(r) == main[r] = Idle /\ ReplicasFree(r)

\* grv_process_put_request_locked
GrvPutRequestLocked(r, k, c) == ReplicasFree(r) /\ PutRequestLocked(r, k, c)

\* grv_process_put_request_unlocked, with grv_replicate_value
GrvPutRequestUnlocked(r) == PutRequestUnlocked(r)

\* grv_process_clock_tick
GrvClockTick(r, c) == ClockTick(r, c)

\* Faulty: the time at which the tick was scheduled instead of the clock.
GrvClockTickLockedLate(r, c) ==
    /\ ticking[r]
    /\ VvFree(r)
    /\ c >= clock[r]
    /\ clock' = [clock EXCEPT ![r] = c]
    /\ ticking' = [ticking EXCEPT ![r] = FALSE]
    /\ version_vector' = [version_vector EXCEPT ![r][r] = next_tick[r]]
    /\ main' = [main EXCEPT ![r] = [stage |-> "tick", send_time |-> TRUE]]
    /\ UNCHANGED <<next_tick, store, update_queue, work, beats, rlock, chan>>

\* grv_process_clock_tick_locked: the check is not made again.
GrvClockTickLocked(r, c) ==
    /\ ticking[r]
    /\ VvFree(r)
    /\ c >= clock[r]
    /\ clock' = [clock EXCEPT ![r] = c]
    /\ ticking' = [ticking EXCEPT ![r] = FALSE]
    /\ version_vector' = [version_vector EXCEPT ![r][r] = c]
    /\ main' = [main EXCEPT ![r] = [stage |-> "tick", send_time |-> TRUE]]
    /\ UNCHANGED <<next_tick, store, update_queue, work, beats, rlock, chan>>

\* grv_process_clock_tick_unlocked, with grv_send_heartbeat
GrvClockTickUnlocked(r, c) == ClockTickUnlocked(r, c)

\* grv_process_heartbeat: the lock is taken in any case.
GrvProcessHeartbeat(r, s) ==
    /\ Arrives(r, s, "heartbeat")
    /\ CoreFor(r)
    /\ beats' = [beats EXCEPT ![r][s] = @ \cup {Head(chan[s][r]).time}]
    /\ chan' = [chan EXCEPT ![s][r] = Tail(@)]
    /\ UNCHANGED <<clock, next_tick, ticking, version_vector, store,
                   update_queue, main, work, rlock>>

\* grv_process_heartbeat_locked
GrvHeartbeatLocked(r, s, t) == VvFree(r) /\ HeartbeatLocked(r, s, t)

\* Faulty: a conflicting update that is not older starts no chain.
GrvWorkStuck(r, s, q) == Work(r, s, q)

\* grv_process_replica_update_work on the head of q, going on to the next
\* updates as long as they are ignored.
GrvWork(r, s, q) ==
    LET left == Remaining(r, q)
    IN  /\ update_queue' = [update_queue EXCEPT ![r][s] = left]
        /\ work' = [work EXCEPT ![r][s] =
                IF left = <<>> THEN Idle
                ELSE [stage |-> "locking", update |-> Head(left)]]

\* grv_process_replica_update
GrvProcessReplicaUpdate(r, s) ==
    /\ Arrives(r, s, "update")
    /\ CoreFor(r)
    /\ chan' = [chan EXCEPT ![s][r] = Tail(@)]
    /\ LET q == update_queue[r][s]
           u == Head(chan[s][r]).update
       IN  \/ /\ q = <<>>
              /\ GrvWork(r, s, <<u>>)
           \/ /\ q # <<>>
              /\ update_queue' = [update_queue EXCEPT ![r][s] = Append(q, u)]
              /\ UNCHANGED work
    /\ UNCHANGED <<clock, next_tick, ticking, version_vector, store, main,
                   beats, rlock>>

\* grv_process_replica_update_vv_locked
GrvReplicaUpdateVvLocked(r, s) == VvFree(r) /\ ReplicaUpdateLocked(r, s)

\* grv_process_replica_update_vv_unlocked
GrvReplicaUpdateVvUnlocked(r, s) ==
    /\ work[r][s].stage = "unlocking"
    /\ rlock' = [rlock EXCEPT ![r][s] = "free"]
    /\ GrvWork(r, s, Tail(update_queue[r][s]))
    /\ UNCHANGED <<clock, next_tick, ticking, version_vector, store, main,
                   beats, chan>>

-----------------------------------------------------------------------------
GrvMain(r) ==
    \/ GrvPutRequestUnlocked(r)
    \/ \E c \in Clock : GrvClockTick(r, c) \/ GrvClockTickLocked(r, c)
                       \/ GrvClockTickUnlocked(r, c)

GrvReceive(r, s) ==
    \/ GrvProcessHeartbeat(r, s)
    \/ \E t \in Time : GrvHeartbeatLocked(r, s, t)
    \/ HeartbeatUnlocked(r, s)
    \/ GrvProcessReplicaUpdate(r, s)
    \/ GrvReplicaUpdateVvLocked(r, s)
    \/ GrvReplicaUpdateVvUnlocked(r, s)

GrvNext ==
    \/ /\ UNCHANGED setting
       /\ \E r \in Replica :
            \/ GrvMain(r)
            \/ \E k \in Key, c \in Clock : GrvPutRequestLocked(r, k, c)
            \/ \E s \in Replica : GrvReceive(r, s)
    \/ Stopped

\* An event that the simulator holds.
GrvPending(r) ==
    \/ GrvPutRequestUnlocked(r)
    \/ \E c \in Clock : GrvClockTickLocked(r, c) \/ GrvClockTickUnlocked(r, c)
    \/ \E s \in Replica : GrvReceive(r, s)

-----------------------------------------------------------------------------
(***************************************************************************)
(* Either protocol, as the setting says                                    *)
(***************************************************************************)
ProtocolNext ==
    \/ setting.protocol = "gr" /\ Next
    \/ setting.protocol = "grv" /\ GrvNext

ProtocolSpec == Init /\ [][ProtocolNext]_vars

\* The simulator does not stop while an event is pending.
ProtocolFairness ==
    WF_state(\E r \in Replica :
                \/ setting.protocol = "gr" /\ Pending(r)
                \/ setting.protocol = "grv" /\ GrvPending(r))

FairProtocolSpec == ProtocolSpec /\ ProtocolFairness
=============================================================================
