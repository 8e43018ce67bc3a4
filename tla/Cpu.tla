-------------------------------- MODULE Cpu --------------------------------
(***************************************************************************)
(* The simulated multi-core CPU of one server (src/src/cpu): cores, the    *)
(* run queue, and the mutexes of lock.c.                                   *)
(*                                                                         *)
(* A task is one chain of handlers: the event that arrives from outside,   *)
(* and the continuations it schedules through cpu_lock_lock and            *)
(* cpu_lock_unlock.  A task holds its core from the start of a handler     *)
(* until the event that ends it (CPU_FREE_CORE, CPU_LOCK_LOCK,             *)
(* CPU_LOCK_UNLOCK) is processed.  Every action is the processing of one   *)
(* simulator event, so handlers run inside the action that starts them.    *)
(* What a handler computes is left out; what it does to the CPU is kept:   *)
(* it ends, or it asks for a lock, or, holding one, it releases it with or *)
(* without a continuation.                                                 *)
(*                                                                         *)
(* stage of a task:                                                        *)
(*   idle       its event has not arrived                                  *)
(*   queued     its event is in the run queue                              *)
(*   locking    on a core, its CPU_LOCK_LOCK is scheduled                  *)
(*   blocked    off core, its CPU_LOCK_LOCK item is in the lock's queue    *)
(*   woken      off core, its CPU_LOCK_LOCK item is in the run queue       *)
(*   unlocking  on a core, inside the lock, its CPU_LOCK_UNLOCK scheduled  *)
(*   freeing    on a core, its CPU_FREE_CORE is scheduled                  *)
(*   done       the chain is over                                          *)
(***************************************************************************)
EXTENDS Integers, Sequences, FiniteSets

CONSTANTS
    Tasks,        \* the chains of handlers
    Locks,        \* the mutexes made by cpu_lock_new
    NoLock,       \* what a task that never asked for a lock wants
    Cores,        \* state->cores (cores_per_server)
    MaxSections,  \* bound: critical sections in one chain
    Ties          \* may another event fall on the instant of a CPU_EVENT?

ASSUME CpuAssumption ==
    /\ IsFiniteSet(Tasks)
    /\ NoLock \notin Locks
    /\ Cores \in Nat \ {0}
    /\ MaxSections \in Nat
    /\ Ties \in BOOLEAN

VARIABLES
    stage,        \* where each task is, see above
    wants,        \* the lock_id of the task's last lock message
    sections,     \* how many locks the task has asked for
    queue,        \* state->queue, the run queue
    busy_cores,   \* state->busy_cores
    locked,       \* lock->locked
    lock_queue,   \* lock->queue
    cpu_events    \* CPU_EVENTs scheduled with delay 0 and not yet processed

vars == <<stage, wants, sections, queue, busy_cores, locked, lock_queue,
          cpu_events>>

Stages == {"idle", "queued", "locking", "blocked", "woken", "unlocking",
           "freeing", "done"}

cpu_busy == busy_cores >= Cores

Init ==
    /\ stage = [t \in Tasks |-> "idle"]
    /\ wants = [t \in Tasks |-> NoLock]
    /\ sections = [t \in Tasks |-> 0]
    /\ queue = <<>>
    /\ busy_cores = 0
    /\ locked = [l \in Locks |-> FALSE]
    /\ lock_queue = [l \in Locks |-> <<>>]
    /\ cpu_events = 0

-----------------------------------------------------------------------------
(***************************************************************************)
(* The pieces of an event.  Each takes the values the variables have when  *)
(* the piece starts and fixes their values at the end of the event.        *)
(***************************************************************************)

\* The server's handler of an ordinary or an _UNLOCKED event: it ends, and
\* CPU_FREE_CORE is scheduled, or it calls cpu_lock_lock.
RunHandler(t, st) ==
    \/ /\ stage' = [st EXCEPT ![t] = "freeing"]
       /\ UNCHANGED <<wants, sections>>
    \/ /\ sections[t] < MaxSections
       /\ sections' = [sections EXCEPT ![t] = @ + 1]
       /\ \E l \in Locks : wants' = [wants EXCEPT ![t] = l]
       /\ stage' = [st EXCEPT ![t] = "locking"]

\* Faulty: the lock is not tested.
OnLockLockUntested(t, st, busy, lk, lq, events) ==
    /\ stage' = [st EXCEPT ![t] = "unlocking"]
    /\ locked' = [lk EXCEPT ![wants[t]] = TRUE]
    /\ busy_cores' = busy
    /\ lock_queue' = lq
    /\ cpu_events' = events
    /\ UNCHANGED <<wants, sections>>

\* Faulty: the core of a blocked task is not offered to the run queue.
OnLockLockSilent(t, st, busy, lk, lq, events) ==
    LET l == wants[t]
    IN  /\ stage' = [st EXCEPT ![t] = IF lk[l] THEN "blocked" ELSE "unlocking"]
        /\ locked' = [lk EXCEPT ![l] = TRUE]
        /\ busy_cores' = IF lk[l] THEN busy - 1 ELSE busy
        /\ lock_queue' = IF lk[l] THEN [lq EXCEPT ![l] = Append(@, t)] ELSE lq
        /\ cpu_events' = events
        /\ UNCHANGED <<wants, sections>>

\* on_lock_lock of task t, which is on a core.  A free lock is taken and the
\* _LOCKED handler runs at once, ending in cpu_lock_unlock; otherwise the
\* message waits in the lock's queue and the core is offered to the run queue.
OnLockLock(t, st, busy, lk, lq, events) ==
    LET l == wants[t]
    IN  \/ /\ lk[l]
           /\ stage' = [st EXCEPT ![t] = "blocked"]
           /\ lock_queue' = [lq EXCEPT ![l] = Append(@, t)]
           /\ busy_cores' = busy - 1
           /\ cpu_events' = events + 1
           /\ locked' = lk
           /\ UNCHANGED <<wants, sections>>
        \/ /\ ~lk[l]
           /\ stage' = [st EXCEPT ![t] = "unlocking"]
           /\ locked' = [lk EXCEPT ![l] = TRUE]
           /\ busy_cores' = busy
           /\ lock_queue' = lq
           /\ cpu_events' = events
           /\ UNCHANGED <<wants, sections>>

\* Faulty: a core is not taken for a lock message.
CpuProcessCoreless(t, st, busy, lk, lq, events) ==
    \/ /\ st[t] = "queued"
       /\ RunHandler(t, st)
       /\ busy_cores' = busy + 1
       /\ locked' = lk
       /\ lock_queue' = lq
       /\ cpu_events' = events
    \/ /\ st[t] = "woken"
       /\ OnLockLock(t, st, busy, lk, lq, events)

\* cpu_process of a run queue item of task t: a core is taken.
CpuProcess(t, st, busy, lk, lq, events) ==
    \/ /\ st[t] = "queued"
       /\ RunHandler(t, st)
       /\ busy_cores' = busy + 1
       /\ locked' = lk
       /\ lock_queue' = lq
       /\ cpu_events' = events
    \/ /\ st[t] = "woken"
       /\ OnLockLock(t, st, busy + 1, lk, lq, events)

\* Faulty: the item is left in the run queue.
CpuPeekQueue(st, q, busy, lk, lq, events) ==
    /\ queue' = q
    /\ \/ q # <<>> /\ CpuProcess(Head(q), st, busy, lk, lq, events)
       \/ /\ q = <<>>
          /\ stage' = st
          /\ busy_cores' = busy
          /\ locked' = lk
          /\ lock_queue' = lq
          /\ cpu_events' = events
          /\ UNCHANGED <<wants, sections>>

\* cpu_process_next_in_queue
CpuProcessNextInQueue(st, q, busy, lk, lq, events) ==
    \/ /\ q # <<>>
       /\ queue' = Tail(q)
       /\ CpuProcess(Head(q), st, busy, lk, lq, events)
    \/ /\ q = <<>>
       /\ stage' = st
       /\ queue' = q
       /\ busy_cores' = busy
       /\ locked' = lk
       /\ lock_queue' = lq
       /\ cpu_events' = events
       /\ UNCHANGED <<wants, sections>>

-----------------------------------------------------------------------------
(***************************************************************************)
(* The events.  A CPU_EVENT is scheduled for the current instant, so unless*)
(* events tie it is processed before any other.                            *)
(***************************************************************************)
MayProceed == Ties \/ cpu_events = 0

\* cpu_process_event, default case: an event of the server arrives.
Arrive(t) ==
    /\ MayProceed
    /\ stage[t] = "idle"
    /\ LET st == [stage EXCEPT ![t] = "queued"]
       IN  \/ /\ cpu_busy
              /\ queue' = Append(queue, t)
              /\ stage' = st
              /\ UNCHANGED <<wants, sections, busy_cores, locked, lock_queue,
                             cpu_events>>
           \/ /\ ~cpu_busy
              /\ CpuProcess(t, st, busy_cores, locked, lock_queue, cpu_events)
              /\ UNCHANGED queue

\* Faulty: the core is freed twice.
FreeCoreTwice(t) ==
    /\ MayProceed
    /\ stage[t] = "freeing"
    /\ CpuProcessNextInQueue([stage EXCEPT ![t] = "done"], queue,
                             busy_cores - 2, locked, lock_queue, cpu_events)

\* CPU_FREE_CORE
FreeCore(t) ==
    /\ MayProceed
    /\ stage[t] = "freeing"
    /\ CpuProcessNextInQueue([stage EXCEPT ![t] = "done"], queue,
                             busy_cores - 1, locked, lock_queue, cpu_events)

\* CPU_EVENT; the guard on the cores is the assertion of cpu.c:38.
CpuEvent ==
    /\ cpu_events > 0
    /\ ~cpu_busy
    /\ CpuProcessNextInQueue(stage, queue, busy_cores, locked, lock_queue,
                             cpu_events - 1)

\* CPU_LOCK_LOCK
LockLock(t) ==
    /\ MayProceed
    /\ stage[t] = "locking"
    /\ OnLockLock(t, stage, busy_cores, locked, lock_queue, cpu_events)
    /\ UNCHANGED queue

\* Faulty: the waiters are forgotten.
LockUnlockForgetful(t) ==
    /\ MayProceed
    /\ stage[t] = "unlocking"
    /\ LET lk == [locked EXCEPT ![wants[t]] = FALSE]
       IN  \/ /\ RunHandler(t, stage)
              /\ locked' = lk
              /\ UNCHANGED <<queue, lock_queue, busy_cores, cpu_events>>
           \/ CpuProcessNextInQueue([stage EXCEPT ![t] = "done"], queue,
                                    busy_cores - 1, lk, lock_queue, cpu_events)

\* CPU_LOCK_UNLOCK: the lock is freed, its oldest waiter goes to the front of
\* the run queue, and the core goes on with the _UNLOCKED event or, when the
\* continuation is CPU_NO_EVENT, with the run queue.
LockUnlock(t) ==
    /\ MayProceed
    /\ stage[t] = "unlocking"
    /\ LET l  == wants[t]
           w  == lock_queue[l]
           lk == [locked EXCEPT ![l] = FALSE]
           st == IF w = <<>> THEN stage ELSE [stage EXCEPT ![Head(w)] = "woken"]
           lq == IF w = <<>> THEN lock_queue
                             ELSE [lock_queue EXCEPT ![l] = Tail(w)]
           q  == IF w = <<>> THEN queue ELSE <<Head(w)>> \o queue
       IN  \/ /\ RunHandler(t, st)
              /\ queue' = q
              /\ locked' = lk
              /\ lock_queue' = lq
              /\ UNCHANGED <<busy_cores, cpu_events>>
           \/ CpuProcessNextInQueue([st EXCEPT ![t] = "done"], q,
                                    busy_cores - 1, lk, lq, cpu_events)

\* Every chain is over: the simulation has no event left for this server.
Finished ==
    /\ \A t \in Tasks : stage[t] = "done"
    /\ cpu_events = 0
    /\ UNCHANGED vars

Step(t) == FreeCore(t) \/ LockLock(t) \/ LockUnlock(t)

Next ==
    \/ \E t \in Tasks : Arrive(t) \/ Step(t)
    \/ CpuEvent
    \/ Finished

Spec == Init /\ [][Next]_vars

\* The simulator processes every scheduled event; arrivals are up to others.
Fairness == WF_vars(CpuEvent) /\ \A t \in Tasks : WF_vars(Step(t))

FairSpec == Spec /\ Fairness

-----------------------------------------------------------------------------
(***************************************************************************)
(* Properties                                                              *)
(***************************************************************************)

\* Every variable has the type its C declaration and use give it.
TypeOK ==
    /\ stage \in [Tasks -> Stages]
    /\ wants \in [Tasks -> Locks \cup {NoLock}]
    /\ sections \in [Tasks -> 0..MaxSections]
    /\ queue \in Seq(Tasks)
    /\ busy_cores \in Nat
    /\ locked \in [Locks -> BOOLEAN]
    /\ lock_queue \in [Locks -> Seq(Tasks)]
    /\ cpu_events \in Nat

OnCore(t)    == stage[t] \in {"locking", "unlocking", "freeing"}
InRunQueue(t) == stage[t] \in {"queued", "woken"}
Holds(t, l)  == stage[t] = "unlocking" /\ wants[t] = l

\* A lock is marked locked exactly while one task runs between its _LOCKED
\* handler and the processing of its CPU_LOCK_UNLOCK, and never two at once
\* (lock.c:43-80, the assertions at 62 and 73), although a freed lock is not
\* handed to its waiter and others may take it first.
MutualExclusion ==
    \A l \in Locks :
        /\ locked[l] <=> \E t \in Tasks : Holds(t, l)
        /\ \A t, u \in Tasks : Holds(t, l) /\ Holds(u, l) => t = u

\* No event is lost or duplicated on its way through the run queue and the
\* lock queues: a waiting task is in exactly the one list it should be in,
\* once (list.c, lock.c:49-51 and 75-78).
EveryEventOnce ==
    /\ \A t \in Tasks :
        Cardinality({i \in DOMAIN queue : queue[i] = t})
            = IF InRunQueue(t) THEN 1 ELSE 0
    /\ \A l \in Locks, t \in Tasks :
        Cardinality({i \in DOMAIN lock_queue[l] : lock_queue[l][i] = t})
            = IF stage[t] = "blocked" /\ wants[t] = l THEN 1 ELSE 0

\* busy_cores counts the tasks on a core, and there are never more of them
\* than cores: the assertions of state.c:11 and state.c:17 hold.
CoreAccounting ==
    /\ busy_cores = Cardinality({t \in Tasks : OnCore(t)})
    /\ busy_cores <= Cores

\* While a task waits for a lock, the lock is held or some earlier waiter of
\* the same lock is on its way back through the run queue; and a non-empty
\* run queue has a core or a CPU_EVENT that will look at it.
NoLostWakeup ==
    /\ \A l \in Locks : lock_queue[l] # <<>> =>
        locked[l] \/ \E t \in Tasks : stage[t] = "woken" /\ wants[t] = l
    /\ queue # <<>> => busy_cores > 0 \/ cpu_events > 0

\* An arrived event waits in the run queue only while every core is busy or
\* about to be offered by a CPU_EVENT.  (A woken lock waiter may wait with a
\* core idle: on_lock_unlock queues it and goes on with its own task.)
WorkConserving ==
    (\E t \in Tasks : stage[t] = "queued") => Cores - busy_cores <= cpu_events

\* The assertion of cpu.c:38: a CPU_EVENT finds a free core.
CpuEventFindsCore == cpu_events > 0 => ~cpu_busy

\* Every event that arrives is eventually processed to the end of its chain,
\* however the lock queues and the run queue interleave.
EveryTaskCompletes ==
    \A t \in Tasks : stage[t] # "idle" ~> stage[t] = "done"
=============================================================================
