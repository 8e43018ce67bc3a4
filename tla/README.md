# CC-Sim in TLA+

CC-Sim is a discrete-event simulator of geo-replicated key-value stores.  It
runs on ROOT-Sim: every server and every client is a logical process that
handles one event at a time and schedules others.  The simulator implements the
protocol GentleRain (`gr`) and a vector variant (`grv`) on top of a model of a
multi-core CPU with locks, and a model of the network.

What makes it hard is that a "handler" is not atomic.  Whenever a handler needs
a lock it ends, and goes on in a `_LOCKED` and then an `_UNLOCKED` event; in
between, other handlers of the same server run on other cores, and messages
arrive.  State read before the lock is used after it, and the order in which
two chains of events get a lock is not the order in which they started.

## Inventory

| Component | State | Operations | What is hard, what must hold |
|---|---|---|---|
| CPU (`cpu/`) | run queue, busy cores, locks and their queues | events arrive, cores are freed, locks are asked for and released | locks exclude; cores are counted; no event is lost, duplicated or left waiting |
| Reader-writer lock (`cpu/rwlock.c`) | reader count, writer flag, one queue | read/write lock and unlock | unused by the protocols of this commit; readers and writers exclude each other, nobody waits for ever |
| Partition tree (`server/server.c`) | none | parent, children, slot, number of children | a tree that is not full; every child has its own slot |
| `gr` global stable time (`gst.c`) | GST, minimum and slots of the round | reports up, GST down, GST values in client and slice messages | no GST above what every partition has received; rounds do not overlap and never stop |
| `gr` replication (`replication.c`, `heartbeat.c`, `getput.c`, `gr.c`, `store.c`) | version vector, update queues, version chains | put, clock tick, heartbeat, replica update | an entry of the version vector is a promise; queues are served; replicas converge |
| `gr` gets, snapshots, slices, transactions (`getput.c`, `snapshot.c`, `slice.c`, `rotx.c`) | states of open requests | get, read-only transaction | a transaction sees one causal snapshot; a client sees its own writes; every request is answered |
| `grv` (`server/protocols/grv`) | the same with vectors, `lock_gsv` and `lock_vv` | the same; a transaction asks every partition for its slice directly | the vector is passed on before it is applied and written without the lock by forwarded gets; each entry must still be safe, and a slice must not be shown before what it depends on |
| Clients (`client/`) | dependency time, known GST, the open request | send, receive | one request at a time; the session's order is kept |
| Workloads (`client/workloads`, `client/key_distribution.c`, `cluster.c`) | phase and partition counters | next request, next key | one tick or one request at a time; keys on the partition they were chosen for; partitions in turn; the mix of requests the comments promise |
| Network (`network.c`) | per destination the last reception time | send | messages between two processes stay in order |
| Containers (`queue.c`, `ptr_array.c`, `store.c`, `cpu/list.c`) | lists and arrays | put, get, iterate | sequential |
| Statistics, output, parameters, start-up | counters, files | | nothing reads them back |

Components meet at three places: the CPU calls the server's handlers and the
handlers call `cpu_lock_lock` and `cpu_lock_unlock`; servers and clients send
messages through the network, in order for each pair of processes; and the
handlers of one server share its version vector, its GST and its store under
`lock` and `replica_locks` (`lock_vv` and `lock_gsv` in `grv`).

## Modules

| Module | Models | Extends |
|---|---|---|
| `Cpu` | `cpu/*.c` without the reader-writer lock and the statistics | |
| `PartitionTree` | the tree arithmetic of `server/server.c` | |
| `GrGst` | `gr/gst.c`, and what every other handler does to the GST | `PartitionTree` |
| `StableTime` | abstract: what a stable time promises, whatever computes it | |
| `GrReplication` | puts, ticks, heartbeats and updates of `gr` for one partition in all data centres | |
| `GrSession` | gets, puts and read-only transactions of `gr` clients in one data centre | |
| `GrvGst` | `grv/gst.c`, and what every other handler does to the GST vector | instances of `PartitionTree` and `StableTime` |
| `GrvReplication` | the same as `GrReplication` for `grv`, and the choice between the two | `GrReplication` |
| `GrvSession` | gets, puts and read-only transactions of `grv` clients in one data centre | |
| `Workload` | one client, its workload and its choice of keys | |
| `MCCpu`, `MCGrGst`, `MCGrReplication`, `MCGrSession`, `MCGrvGst`, `MCGrvSession`, `MCWorkload` | constants for TLC | the module they are named after (`MCGrReplication`: `GrvReplication`) |
| `CpuProofs`, `PartitionTreeProofs`, `GrGstProofs`, `GrvGstProofs`, `GrSessionProofs`, `GrvSessionProofs`, `ReplicationProofs`, `WorkloadProofs` | proofs | the module they are named after (`ReplicationProofs`: `GrvReplication`) |

Definitions whose comment starts with "Faulty:" are wrong versions of the
definition that follows them: with one of them in its place, the property it is
listed with in `PROJECT.json` fails.  They show that the property watches that
code; nothing else uses them.

### Cpu

One action for each event that `cpu_process_event` distinguishes.  A *task* is
a chain of handlers; `stage` says which event of the chain is scheduled or in
which list its item is.  What a handler computes is left out.  What it does to
the CPU is kept: it ends, it asks for a lock, or it releases the one it holds
with or without a continuation.  Durations are left out too: scheduled events
are processed in any order, except a `CPU_EVENT`, which is scheduled for the
current instant and so comes first unless another event falls on the same
instant (`Ties`).

`on_lock_unlock` does not hand the lock to the waiter it wakes: the waiter goes
to the front of the run queue, its core may be taken by the continuation of the
chain that released the lock, and another chain may take the lock first.  That
is why `MutualExclusion`, `NoLostWakeup` and `EveryTaskCompletes` are not
obvious.

### PartitionTree and GrGst

The partitions of one data centre, each with its version vector, GST, minimum
and slots.  Messages travel in one channel per tree edge and direction.  The
chain that raises the GST in a round is explicit (`stage`, `lock`): asking for
the lock, `_LOCKED` and `_UNLOCKED` are separate actions.  The GST values that
gets, forwarded gets, slice requests, slice responses and snapshot requests
carry are *hints*: a value handed out by any partition may be presented to any
other, any number of times, at any later moment, and takes the same lock.
Version vectors change arbitrarily: neither the GST's safety nor its rounds
may depend on their being monotonic, because in `gr` with several cores they
are not (see "Seen on the way").

The history variables are `peak`, the highest minimum a partition's version
vector ever had, and `reported`, what it sent up in the current round.

`StableTime` is what the rest of the protocol relies on: a partition's stable
time only rises, one partition in one step, and never above what every
partition has reached.  `GrGst` implements it with `gst` and `peak` as they are
(`ImplementsStableTime`, model-checked and proved), `GrvGst` once for each entry
of the vector (`ImplementsStableTimes`, likewise).  The `GstUpdate` actions of the two
session modules are its `Raise`.

### GrReplication

One partition, one server for each data centre.  `main` is the chain under
`state->lock` (puts and clock ticks), `work` the chain of the update at the head
of a queue, `beats` the heartbeats that wait for `replica_locks[s]`.  Each main
event picks its clock; clocks of different servers are unrelated, which covers
every skew.  The parameters of a simulation are one variable, `setting`, that
never changes: the protocol, whether a server has one core (then it runs one
chain at a time), which replicas put which key, and when the simulation ends.
One run so covers all of them.  A put that arrives before its dependency time
schedules itself for later (`getput.c:175-181`) and is then one of the puts that
may come at any time.

`gr_garbage_collect` has no caller at this commit and is not modelled.

`GrvReplication` reuses the state, the messages and most handlers.  What `grv`
does differently is written out: one lock for puts, ticks, heartbeats and
updates; a tick that does not repeat its check under the lock; a heartbeat that
always takes the lock; and a conflicting update that is not older is applied.

### GrSession

The clients of one data centre and the handlers that serve them.  A client has
one request in flight, the next of its script (`Scripts`), and changes its dependency
time and GST only when the response arrives, so a request needs no message of its own: `req[c]` says at
which server it is and how far its chain of events got, `slice[c][k]` the same
for each slice of a transaction, and `reply[c]` holds what has come back.
`get`, `put`, snapshot and slice chains take `state->lock` where the code does
and read the store where the code does: a slice, and a get that need not raise
the GST, without the lock.

Replication and rounds appear as what the other modules show of them.
Versions of the other data centre are applied in the order of their times, and a
GST rises to anything up to the minimum of all version vectors (`GstSafe`).  How
far a heartbeat may raise an entry depends on the cores of a server, and
`single_core`, a variable that never changes, says which case it is:

* with one core a server runs one chain of events at a time (`CoreFor`), so that a
  heartbeat is processed behind the updates that arrived before it, and an entry covers
  only what is stored (`VersionVectorCovers`);
* with several, which is the default, updates queue (`replication.c:14-26`) while a
  heartbeat asks for the lock at once (`heartbeat.c:16-33`): the entry may pass
  versions that are not in the store, and so may GSTs and snapshot times.  `other`
  is the highest the entry has been, as an update that is applied later sets it back.

The properties are stated for both.  `CoveredKeys` are the keys of which a server
has every version up to its GST: all of them with one core, those written in
this data centre with several.  What is left with several cores is what a client was
itself shown or has put, on every key, and everything on the local keys; what is lost
is listed under "Seen on the way".

Four things are simplified.  A server's clock is kept only as the entry of the
version vector a put or a tick wrote last, and every put and tick picks a later
one.  A heartbeat goes as far as it can (with one core: as the next update allows),
since an earlier one only restricts the GST.  Partitions without a key or a
client are left out: they could only hold the GST back.  What a forwarded get
does to the GST of the server that forwards it is one of the rises `GstUpdate`
allows.  Keys have writers in one data centre only; conflicts are the subject of
`GrReplication`.  A version of the other data centre may depend on every earlier put
there, and on every earlier version put here (`RemoteVersion`).

Each version carries, as history, the newest version of every key it depends
on.  `past[c]` is what client `c` depends on in full.  `seen[c]` leaves out what
a local version that `c` got depends on, and what anything depends on outside
`CoveredKeys`.  With one core that is exactly the difference between what gets
guarantee (`GetsSeeOwnPast`) and causal consistency (`GetsAreCausal`, violated).
Transactions are causal with respect to all of `past` on the covered keys
(`RotxIsCausal`): they wait until the GST has passed the client's dependency time.

### GrvGst

The rounds of `GrGst` with vectors.  Two things differ.  A partition sends the
vector to its children first and asks for the lock after, so a leaf below may
report for the next round while its parent has not applied the last; the
messages that wait for the lock are `gst_waits`.  And a server that forwards a
get writes its vector at once, whoever holds the lock (`ForwardGet`).  Hints and
version vectors are as general as in `GrGst`.  The number of partitions is part
of a variable, `config`, so that one run covers several trees.

### GrvSession

As `GrSession`, with vectors and with the server's clock as a variable of its
own, because slices read it.  A transaction goes straight from the server that
gets it to the partitions of its keys, and there is one slice for each
partition.  Several other data centres put keys (`Log`, with a dependency vector
for each put); their updates arrive in the order of their times.  A heartbeat of
`grv` asks for `lock_vv` at once (`heartbeat.c:10-22`) while updates queue
(`replication.c:16-29`), so that `single_core`, `CoveredKeys` and `seen` mean what they do in
`GrSession`.  The entry of the own data centre is left out of the GST vectors: no
handler here reads it.  Dependency vectors have it: an update that depends on a put here
brings that put's time (`put.dep[Here]`), which a slice compares with the clock of its
server (`slice.c:14-24` and 58) and a get does not (`store.c:30`).

`Log` is any history in which a put is later than its dependency vector, as a put
here is.  What such a put depends on is derived from it: every put that was
visible to its client, which is one that its dependency vector covers together
with what that one depends on, and the versions put here that its entry for this data
centre covers (`RemoteVersion`).  As in `GrSession` each key is
written in one data centre only (see "Seen on the way" for what happens otherwise).

`seen[c]` has what `c` has read or written, and what the versions of other data
centres it *got* depend on; `past[c]` has what all the versions it was shown depend on.  A
transaction of `grv` returns no vector to the client (`client/protocols/grv.c`), so what its
values depend on is not in `seen`.

### Workload

One client.  `ticks` counts its scheduled `CLIENT_TICK` events, `request` is what
is at the servers.  The three workloads are three ways to answer a tick.
`unsigned int` and `gr_key` keep a width, so that the whole range of keys
(`num_keys` = `UINT_MAX`), negative random numbers and keys that wrap around are
there.  `Zipf` is ROOT-Sim's and may return anything from 1 to its limit.
`reads`, `gets` and `puts` are history.

## Runs

| Run | Instance | Shows |
|---|---|---|
| `cpu` | 4 tasks, 2 locks, 2 cores, 2 critical sections, fairness | exclusion, accounting, no lost or duplicated event, no lost wake-up, no idle core beside a waiting event, every chain ends |
| `gst_tree` | 4 partitions, fan-out 2, 1 replica, fairness | GST safety and rounds, with an inner partition; rounds never stop; `StableTime` is implemented |
| `gst_alone` | 1 partition, 1 replica, fairness | the path without a round, and the transactions that wait for it |
| `repl` | 2 replicas, 2 keys; both protocols, 1 core and several, with one writer for each key and with two, fairness | version vectors are promises and (1 core) monotonic, chains of versions stay sorted, queues and chains stay consistent and are emptied, convergence |
| `repl_stuck` | 2 replicas writing 1 key | *violation*: a newer conflicting update blocks its queue |
| `session` | 2 clients tied to partition 3 of 4, keys 0 and 3 written elsewhere, 4 and 7 here; six sessions; 1 core and several | gets see the session's past and versions are newer than their dependencies; with 1 core transactions read one causal and stable snapshot, with several that much of it on the local keys |
| `session_causal` | the same with 1 local key, 1 core and one session of gets and a put | *violation*: gets are not causal |
| `grv_gst` | 4 partitions with one busy replica; 2 and 1 with two; fan-out 2, fairness | rounds do not mix although the vector is passed on early, they never stop, and each entry implements `StableTime` |
| `grv_session` | 2 clients tied to partition 1 of 2, a chain of three puts of two other data centres that also depend on a put here, 1 local key; five sessions; 1 core and several | gets see the session's past, transactions see its remote past, nothing is shown before its dependencies are stored (several cores: covered by the version vectors), versions are newer than their dependencies |
| `grv_rotx` | the same with 1 core, one transaction and no dependency on a put here | *violation*: a transaction's values are not one causal snapshot |
| `workload` | 16 configurations, `UintMax` = 15, fairness | one tick or request at a time, keys on their partitions, partitions in turn, every partition written again and again |
| `workload_puts` | `rotx_put_rr` | *violation*: not `num_put` puts in a loop |

Bounds.  `Tasks` = 4 on 2 cores with 2 locks is the smallest instance in which a
lock has two waiters while the other lock is held and the run queue is not
empty; `MaxSections` = 2 lets a chain come back for a lock another chain waits
for.  Four partitions with fan-out 2 are the smallest tree with an inner
partition that has a child of its own and with a node that is not full.
`MaxTime` = 1 tells a stale GST from a fresh one; safety for more times,
partitions and replicas is proved, and so is that no transaction is left behind
in a tree, which needs three times to show.  In replication, `MaxTime` = 3 with
`Interval` = 2 lets two puts and a tick at one server interleave.  The alone run
has `MaxTime` = 3 so that a transaction can wait for a time the GST jumps over.
`gst_tree` has one replica, so the minimum over the entries of a version vector
is covered by the proofs of `GstIsSafe`, which are for any number of replicas.
`gst_alone` does not state `GstSafe`: a lone partition takes `version_vector[0]` for
the minimum (`gst.c:174`), which with one replica it is and with two is not (see "Seen on
the way").
Replicas that conflict on several cores have by far the most states and end at
time 2 in `repl`: two puts at each of two replicas.

`grv_gst` has the same tree, with one entry that moves, and a smaller one with
two, because entries of one vector can only mix where two of them move.  In
`grv_session` a put of one data centre depends on a put of another, which in turn
replaces an earlier one: the shortest chain in which a vector's entries rise in
the wrong order for somebody.  The last two of the three also depend on what is put here at
time 1.  Client 0 makes two requests, and in two of the sessions client 1 puts
beside it.  The entry of the second data centre never
reaches the GST, so its put is visible only by its dependencies, as `grv`
intends.  `UintMax` = 15 leaves room for a range of keys below `INT_MAX` and for
the whole range; the numbers of keys are below, above and not a multiple of the
number of partitions.

In `session`, keys 0 and 4 are at the root and keys 3 and 7 two hops below, where the
clients are tied, so the GST of the two servers differs while a round's result
travels.  Two keys of the other data centre at different servers make the GST
that a client carries matter, and two local keys make its dependency time matter: a
put may follow one at a server whose clock is ahead.  Keys 0 and 3 are put one after
the other, so that a transaction on both reads two values of which one depends on the
other; the transaction on keys 0 and 7 reads one of each data centre while the other
client puts key 7.

What the clients ask is one of a few scripts, `Scripts`, each the shortest in which one
request can spoil another: a put and a transaction beside a put of the same key; a
local version got from a client that has got a remote one, and then a transaction; a
transaction and then a get of one of its keys; two gets against the order of the
dependencies; puts on two servers; a get, a put and a transaction of one client.  That
the same holds of any sessions is proved.  `MaxTime` = 2 orders two versions (3 in
`session_causal`, whose counterexample needs a version on top of two, of which key 3 is
put first).  `session_causal` and `grv_rotx` have one core: what they show has nothing to
do with heartbeats that overtake updates.

`CHECK_DEADLOCK` is off only for the session runs: their clocks stop at
`MaxTime` (`LastTick`), and a request that waits for a later clock or GST stays where it is.
In the others `Finished` and `Stopped` are the states in which a system with a
bounded number of arrivals, or a bounded clock, may rest.

Fairness.  The simulator processes every event that is scheduled, so every step
that continues a chain or receives a message is weakly fair.  Arrivals, puts,
the movement of version vectors and the requests of clients are under no
obligation.  `GrReplication` and `GrvReplication` need no more than that the
simulator does not stop while an event is pending: one fairness condition for
all servers together.  `GrGst` and `GrvGst` have one for each partition, since
events keep being scheduled: the simulator handles events in the order of
time, so none is passed over for ever.  `Workload` assumes besides that the
servers answer.  In `GrGst`, `GrvGst` and the replication modules weak fairness of the `_LOCKED` events
says that a chain that waits for a lock gets it, which `EveryTaskCompletes`
shows of the CPU.

### What the violations show

* `repl_stuck`: `replication.c:40-52` has no branch for a conflicting update that
  is newer.  `grv` has one.
* `session_causal`: a put request carries the client's dependency time and not its
  GST, and a local version is visible at once.  A client gets `y` of the other
  data centre from a server whose GST covers it and puts `x` at a server the GST
  message has not reached.  Another client gets `x` there and then `z`, which `y`
  depends on and which that server has received but does not show yet.  With one core
  per server this cannot happen within one session, nor in transactions (`session`);
  with several, the default, it can, as soon as a heartbeat overtakes an update (see
  "Seen on the way").
* `grv_rotx`: `slice.c:57-58` takes the snapshot vector from the server that
  serves the slice.  The vector and the time that the transaction sends along
  are only lower bounds, so one slice may be read before a round ends and
  another, at a server that is ahead, after it.
* `workload_puts`: `rotx_put_rr.c:74` tests `<` where the loop is over at `>=`.
  With `num_put` = 1 the client only puts after its first loop; with more it puts
  once in a loop.

### Seen on the way

These are not runs of the project; each can be had back with the change named.

* `Cpu` with `Ties` = TRUE violates `CpuEventFindsCore`: if the timing parameters
  are constants, an ordinary event may fall on the instant of a `CPU_EVENT` and
  take the core that was just given up, and the assertion of `cpu.c:38` fails.
  The proofs of `CpuProofs` hold with ties.
* `GrGst` with one partition and two replicas violates `GstSafe`: `gr/gst.c:174`
  uses `version_vector[0]` in place of the minimum.
* `VersionVectorCovers` without its condition on `single_core` is violated: an
  update is queued, and its chain has to ask for the lock, while a heartbeat
  that arrives after it asks for the lock at once.  The default is four cores.
* What follows from that for the sessions.  With `CoveredKeys` = `Key` for several
  cores too, `GrSession` violates `SnapshotIsStable` (a counterexample of 12 states),
  `GetsSeeOwnPast` (13) and `RotxIsCausal` (15), and `GrvSession` violates
  `GetsSeeOwnPast` (13) and `RotxSeesRemotePast` (15): a heartbeat passes an update that
  queues, a GST covers it, and what depends on it is shown while it is missing.
* `RotxSeesRemotePast` without `put.dep[Here] <= req[c].time` is violated with one core too
  (14 states).  A client gets a version that depends on a put of this data centre, a get
  being shown whatever that entry says (`grv/store.c:30`), and then misses it in a
  transaction at a server whose clock is behind (`grv/slice.c:14-24` and 58).
* `GrvSession` without the second part of `LogAssumption` violates `GetsSeeOwnPast`:
  with a newer version of a key from a third data centre in the chain, that
  is not visible yet, `grv_put_value` (`grv/store.c:93-99`) drops an older one, and
  a client that has read something that depends on the older one then finds neither.
* Under the zipfian distribution a key chosen for a partition is usually on
  another one: `cluster.c:98` picks from a block of keys, `cluster.c:42` takes the
  remainder.
* `rotx_put_rr.c:88` fails the assertion of `random_uint` with one partition, and
  `put_partition` has no relation to the partitions of the last transaction, in
  spite of the comment at `rotx_put_rr.c:11-12`.
* `lock_called`, which `cpu_add_time` and `server_send` assert to be unset, is never
  set.

## Proofs

All proofs hold for every value of the constants that the named assumptions
allow: `CpuAssumption`, `TreeAssumption`, `GstAssumption`, `ReplicationAssumption`,
`SessionAssumption` (one in each session module), `LogAssumption`,
`GrvGstAssumption`, `WorkloadAssumption`.

**CpuProofs.**  `TypeCorrect`, `LocksExclude`, `CoresCounted`, `EventsOnce`,
`WakeupsAreNotLost`, `CoresAreUsed`.  The
properties are not inductive one by one: that a lock is free when its holder
releases it needs to know that the holder is the only one, that a task taken
from a queue is in the right stage needs the correspondence of stages and
queues, and `busy_cores` is a cardinality of a set of stages.  An event is made
of pieces (free a core, take an item, run a handler, take a lock) and the
invariant holds between the pieces, so it is stated over explicit values, `Ok`;
there is one lemma for each piece, and an event's proof is a chain of those.  The
last two theorems need more, `Served`, on top of the invariant: a piece that lets
a core go without offering it leaves a `CPU_EVENT` behind, and a lock that is freed
leaves a woken task behind, until the item that was woken finds the lock taken.

**PartitionTreeProofs.**  `ChildrenHaveParent`, `ParentBefore`, `Slots` (the slots
of a partition's children are distinct, and below the number of children) and
`RootReachesAll`.  Division and remainder are used through one lemma, `Quotient`.

**GrGstProofs.**  `TypeCorrect`, `GstIsSafe` and `RoundsAreDisjoint` for more than
one partition (with one, `gst.c:174` breaks it), `NoRotxIsLeftBehind` for any number.
`GstSafe` alone is not inductive: the minimum the root applies was computed in
an earlier event, from reports that were sent earlier still.  The invariant
gives each edge of the tree one of six phases of the round (`EdgeAt`), from which
the non-overlap follows; the reports decrease towards the root and lie below
the peaks of those who sent them, so that, by `RootReachesAll`, what the root has
when the last child has reported is below the peak of every partition; and
every GST value anywhere, applied or on its way, is safe (`Values`).
`RoundsImplementStableTime` is the refinement of `StableTime`: from the same
invariant, an action that applies a GST applies a safe one at one partition, and
every other action leaves `gst` alone and raises one `peak` at most.

**GrvGstProofs.**  `TypeCorrect`, `RoundsStayApart` (`RoundsDoNotMix`) and
`EntriesImplementStableTime`, for every set of configurations, a partition that is
alone included.  The theorems about the tree are those of `PartitionTreeProofs`,
instantiated for the number of partitions of the configuration.  A partition
passes the vector on before it has applied it, so what it still has to do says nothing
about the round of an inner partition; the invariant says that there is a
function from partitions to phases, not a variable, that agrees with the
channels, the counted reports, the root's chain and what each leaf has to do
(`Rounds`).  In place of a history of reports, every report is bounded by the peaks of
the subtree it comes from (`Covers`, with `Below` as the least closed set): the
bound of a partition follows from those of its children when the last one
has reported, and at the root it is the bound of everything.

**ReplicationProofs.**  Both protocols at once (`ProtocolSpec`), for any number of
replicas and keys, any writers of each key, one core or several:
`TypeCorrect`, `ChainsAreSorted`, `ChainsDequeueTheirUpdate`, `QueuesServed`,
`VersionVectorIsCovered`, `ReplicasConverge` and, as a property of steps,
`VersionVectorGrows`.  None of the properties is inductive: an update that is
applied now was sent many steps ago, and what its time says about the entry
of the version vector depends on everything between.  The invariant `IInv`
looks at one link from a source to a replica as one line: what has arrived, the
queue with the chain that works on its head, the channel, and the put that has
not been sent yet.  Along that line the times grow, and end at the clock of
the source (`OrderOK`); each version in the source's store is on the line or the
replica has it or a newer one (`CoverOK`); with one core the version vector is not ahead
of anything on the line (`CoreOK`); the chain works on the head of its queue (`ChainOK`, `ServedOK`).  An action changes the line of
the links it touches only by moving its parts on, and there is one lemma for each
way of moving.  Convergence then follows when the line is empty.

**GrSessionProofs.**  `TypeCorrect`, `OwnPastIsSeen`, `TransactionsAreCausal`,
`SnapshotsAreStable` and `VersionsFollowDependencies`, for any partitions, clients,
keys and remote logs, with one core per server and with several.  Two facts carry the
invariant.  Every GST, applied, in a request or at a client, is at most every entry
of every version vector (`Safe`), so that nothing up to it is put any more; and every
version depends only on versions with smaller times.  What the entries mean for
the store depends on the cores, and that is where the invariant splits: with one
core everything up to an entry is stored, with several only what has been applied
(`Due`).  So `Late` and `IsSlice` speak of the covered keys, and `Known` says of what a
client counts on that it is stored already or, on a covered key, will be when its time is
safe.  `ClientOK` says for each stage of a request what is known of the time it carries
and of the values it has collected: the past of a client is covered by its dependency
time and its GST together, and on a covered key a slice that has been read is what the
chain still has at the snapshot's time.

**GrvSessionProofs.**  `OwnPastIsSeen`, `RemotePastIsSeen`, `DependenciesHaveArrived`
and `VersionsFollowDependencies`, for any partitions, clients, requests and
data centres, any log that `LogAssumption` allows and any clocks, with one core per server
and with several.  Every vector there is, of a server, a client or a transaction, is
safe: each entry is at most the entry of every version vector (`Safe`), and a chain
has all the puts that are due: with one core those that its server's version vector covers, with
several those applied (`ChainOK`).  Visibility is where `grv` differs: it depends on
the server's vector of the moment, local versions are visible at once, and the first
visible version need not be the newest.  So the invariant says of each thing a client's
reads count on that it is visible already at the server of its key, or, with one core, that
the client's vector covers it together with what it depends on (`SessionOK`); a read
raises the server's vector to the client's first, and chains are sorted, so the first visible
version is no older.  The second alternative is what a got version of another data centre
leaves behind (`Genuine`): its dependencies are covered by its dependency vector,
which the vector that comes with the response covers.  A slice asks for one thing
more, that the server's clock has reached the version's entry for this data centre, and
waits only for the snapshot time; hence the condition in `RotxSeesRemotePast` (`SeesRemote`).
`DependenciesHaveArrived` is about the version vectors; that what they cover is stored
is added for one core only, where it follows from `ChainOK`.  For puts, `past` is
bounded by the dependency vector, and the clock of the server has passed that before
a put is stored.

**WorkloadProofs.**  `KeyOnPartition`: for every number of partitions and of keys and
every width of `unsigned int`, the key `cluster_random_key_on_partition` returns is
on the partition, moved up, stopped or wrapped around; it rests on the
uniqueness of the remainder.  `OneThing` and `KeysInPlace` are `OneThingAtATime` and
`KeysAreWhereTheyShould` for every set of configurations.  Neither is inductive:
that a tick finds a workload it can go on with needs the shape of what the
workload keeps, partitions in range included.  The invariant `IInv` says which of
three situations a client is in (not started, between two requests, waiting) and
what its data is in each.  `WorkloadAssumption` is what the set-up asserts.
`TypeCorrect` and `PartitionsTakeTurns` (`ReadsInTurn`) need the history as well,
`HistoryOk`: the partitions read last are `(c + i) % n` for some `c`, and the partition
the workload would read next goes on with the same sequence (`TurnOk`), also
after a transaction with more keys than partitions; and what `get_put_rr` counts is the number of
gets since the last put, or the put has just been made (`CountOk`).

**Only model-checked.**  Everything about liveness (`EveryTaskCompletes`,
`GstAdvances`, `GstVectorAdvances`, `UpdatesAreProcessed`,
`EveryPartitionIsWritten`), which is beyond the prover, and the violations.  Every
other property of a passing run is a theorem.

## Plan

1. Lemmas that the two session proofs share (chains, versions in front, vectors)
   in one place, where the two models allow it.

## Not modelled

* The reader-writer lock (`cpu/rwlock.c`): no protocol of this commit creates one.
* The containers (`ptr_array.c`, `queue.c`, `store.c`, `cpu/list.c`): sequential; the
  other modules use them as the sequences and functions they implement.
* Times of the network and of the CPU: only the order they produce, and of the
  network that it keeps the order between two processes (`network.c:49-52`).
* Statistics and output files, parameters, start-up and the allocation of
  messages: sequential, and nothing of the simulation depends on their state.
* ROOT-Sim, which is not part of this repository; its promise, that every event
  is processed once and in the order of time, is assumed.
