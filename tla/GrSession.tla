----------------------------- MODULE GrSession -----------------------------
(***************************************************************************)
(* What a client of GentleRain sees: gets, puts and read-only transactions *)
(* in one data centre (src/src/server/protocols/gr: getput.c, rotx.c,      *)
(* snapshot.c, slice.c, store.c; src/src/client/protocols/gr.c).           *)
(*                                                                         *)
(* A client has one request in flight (the assertions of client.c:64 and   *)
(* 78) and its dependency time and GST change only when the response       *)
(* arrives, so the request carries the client's present dt[c] and cgst[c]. *)
(* req[c] is the request on its way: the server it is at and how far it    *)
(* got.  A transaction fans out into slices, one per key, each on its own. *)
(* "locked" is a chain that holds state->lock of its server.               *)
(*                                                                         *)
(* The rest of the system appears as the other modules show it to behave.  *)
(* The versions of the other data centre reach a partition in the order of *)
(* their timestamps; its entry of the version vector goes up with them and *)
(* with heartbeats (GrReplication).  A round, or a get that is forwarded,  *)
(* may raise a GST up to the minimum of all version vectors (GrGst).  Each *)
(* key has writers in one data centre only; what conflicting writers do is *)
(* the subject of GrReplication.                                           *)
(*                                                                         *)
(* With one core per server a server runs one chain of events at a time,   *)
(* and a heartbeat that arrives behind an update is processed behind it.   *)
(* With several (cores_per_server is 4 unless told otherwise) it overtakes *)
(* the updates that still queue, so that an entry, a GST and a snapshot    *)
(* time may cover versions that are not in the store yet.  single_core     *)
(* says which; the properties say what is left of each with several cores. *)
(***************************************************************************)
EXTENDS Integers, Sequences, FiniteSets

CONSTANTS
    Client,          \* the clients of this data centre
    Home,            \* Home[c]: the partition client c is tied to
    NumPartitions,   \* cluster->num_partitions
    LocalKeys,       \* the keys written in this data centre
    RemoteKeys,      \* the keys written in the other one
    Scripts,         \* what the clients may ask for: script[c] is a sequence
    RemoteLogs,      \* what may be put there: the key of each time, or NoKey
    SingleCore,      \* the settings to look at: whether cores_per_server is 1
    MaxTime          \* bound: clocks stop here

NoKey == -1
Key   == LocalKeys \cup RemoteKeys
Time  == 0 .. MaxTime

\* partition_for_key
PartitionFor(k) == k % NumPartitions

\* The partitions where something happens.  The others hold none of the keys
\* and could only keep the GST lower.
Partition == {PartitionFor(k) : k \in Key} \cup {Home[c] : c \in Client}

Request ==
    [op : {"get"}, keys : {{k} : k \in Key}] \cup
    [op : {"put"}, keys : {{k} : k \in LocalKeys}] \cup
    [op : {"rotx"}, keys : SUBSET Key]

ASSUME SessionAssumption ==
    /\ NumPartitions \in Nat \ {0}
    /\ LocalKeys \subseteq Nat
    /\ RemoteKeys \subseteq Nat
    /\ LocalKeys \cap RemoteKeys = {}
    /\ Home \in [Client -> 0 .. NumPartitions - 1]
    /\ \A script \in Scripts : script \in [Client -> Seq(Request)]
    /\ MaxTime \in Nat
    /\ \A log \in RemoteLogs : log \in Seq(RemoteKeys \cup {NoKey})
    /\ SingleCore \subseteq BOOLEAN

VARIABLES
    \* the servers
    clock,      \* state->clock when a put or a tick last put it into the
                \* server's own entry of state->version_vector
    other,      \* the highest state->version_vector of the other data centre
                \* has been: an update sets it back when a heartbeat went by,
                \* but a round that read it before goes on with what it read
    applied,    \* the time of the last version from there that is stored
    gst,        \* state->gst
    store,      \* the version chain of each key, newest first
    \* the clients
    dt,         \* dependency_time
    cgst,       \* gst
    req,        \* the request in flight
    slice,      \* the slices of a transaction
    reply,      \* the values that have come back, by key
    left,       \* the requests that the client's workload still makes
    \* the other data centre
    remote,     \* remote[t]: the key put there at time t, or NoKey
    \* cores_per_server = 1
    single_core,
    \* history variables
    past,       \* past[c][k]: the newest version of k that c depends on
    seen        \* the part of it that gets see, see ClientResponse

servers == <<clock, other, applied, gst, store>>
fixed   == <<remote, single_core>>
session == <<dt, cgst, past, seen>>
vars    == <<servers, session, req, slice, reply, left, fixed>>

Max2(a, b) == IF a < b THEN b ELSE a

\* One version: its update time, whether it was put in this data centre, and
\* the time of the newest version of each key that it depends on.
NoDeps    == [k \in Key |-> 0]
NoVersion == [ut |-> 0, here |-> FALSE, deps |-> NoDeps]

MaxOf(S) == CHOOSE m \in S : \A x \in S : x <= m

\* The keys of which a server has every version up to its GST: with several
\* cores only those that are put here.
CoveredKeys == IF single_core THEN Key ELSE LocalKeys

\* In the other data centre every put may depend on all those before it, and
\* on what was put here before.
RemoteVersion(t) ==
    [ut |-> t, here |-> FALSE,
     deps |-> [k \in Key |->
        MaxOf({0} \cup {u \in DOMAIN remote : u < t /\ remote[u] = k}
              \cup {u \in {store[k][i].ut : i \in DOMAIN store[k]} : u < t})]]

\* gr_put_value: an older version is dropped.
PutValue(chain, v) ==
    IF chain # <<>> /\ Head(chain).ut > v.ut THEN chain ELSE <<v>> \o chain

\* gr_get_value_at: the first version of the chain that is visible
GetValueAt(chain, visible) ==
    IF visible = {} THEN NoVersion
    ELSE chain[CHOOSE i \in visible : \A j \in visible : i <= j]

\* gr_get_value, with gr_is_value_visible
GetValue(k, g) ==
    GetValueAt(store[k], {i \in DOMAIN store[k] : store[k][i].here \/ store[k][i].ut <= g})

\* Faulty: a slice reads what a get would.
GetSliceNow(k, time) == GetValue(k, gst[PartitionFor(k)])

\* What a slice reads: is_value_visible_snapshot
GetSlice(k, time) ==
    GetValueAt(store[k], {i \in DOMAIN store[k] : store[k][i].ut <= time})

Idle    == [op |-> "none", keys |-> {}, at |-> 0, stage |-> "idle", time |-> 0]
NoSlice == [stage |-> "none", value |-> NoVersion, gst |-> 0]

Init ==
    /\ clock = [p \in Partition |-> 0]
    /\ other = [p \in Partition |-> 0]
    /\ applied = [p \in Partition |-> 0]
    /\ gst = [p \in Partition |-> 0]
    /\ store = [k \in Key |-> <<>>]
    /\ dt = [c \in Client |-> 0]
    /\ cgst = [c \in Client |-> 0]
    /\ req = [c \in Client |-> Idle]
    /\ slice = [c \in Client |-> [k \in Key |-> NoSlice]]
    /\ reply = [c \in Client |-> <<>>]
    /\ left \in Scripts
    /\ remote \in RemoteLogs
    /\ single_core \in SingleCore
    /\ past = [c \in Client |-> NoDeps]
    /\ seen = [c \in Client |-> NoDeps]

-----------------------------------------------------------------------------
(***************************************************************************)
(* The rest of the system                                                  *)
(***************************************************************************)

\* No chain holds state->lock of p.
LockFree(p) ==
    \A c \in Client :
        /\ ~(req[c].stage = "locked" /\ req[c].at = p)
        /\ \A k \in Key :
            /\ ~(slice[c][k].stage = "locked" /\ PartitionFor(k) = p)
            /\ ~(slice[c][k].stage = "reply_locked" /\ req[c].at = p)

\* No chain of events at p has begun and not ended.
NoChain(p) ==
    \A c \in Client :
        /\ ~(req[c].stage \in {"locking", "locked"} /\ req[c].at = p)
        /\ \A k \in Key :
            /\ ~(slice[c][k].stage \in {"locking", "locked"} /\ PartitionFor(k) = p)
            /\ ~(slice[c][k].stage \in {"reply_locking", "reply_locked"} /\ req[c].at = p)

\* A core of p can start another chain.
CoreFor(p) == single_core => NoChain(p)

\* gr_process_clock_tick_locked
ClockTick(p, t) ==
    /\ t > clock[p]
    /\ LockFree(p)
    /\ CoreFor(p)
    /\ clock' = [clock EXCEPT ![p] = t]
    /\ UNCHANGED <<other, applied, gst, store, session, req, slice, reply, left, fixed>>

\* Every put of the other data centre at p with a time in from + 1 .. to
RemotePuts(p, from, to) ==
    {t \in DOMAIN remote : /\ from < t /\ t <= to
                           /\ remote[t] # NoKey
                           /\ PartitionFor(remote[t]) = p}

\* gr_process_heartbeat_locked.  With one core all updates up to t have been
\* applied; with several those that queue wait.  The heartbeat is the last one
\* before the next update, or the last of all; an earlier one would only let
\* the GST rise less.
Heartbeat(p, t) ==
    LET Waiting(u) == single_core /\ RemotePuts(p, applied[p], u) # {}
    IN  /\ t > other[p]
        /\ ~Waiting(t)
        /\ t = MaxTime \/ Waiting(t + 1)
        /\ CoreFor(p)
        /\ other' = [other EXCEPT ![p] = t]
        /\ UNCHANGED <<clock, applied, gst, store, session, req, slice, reply, left, fixed>>

\* gr_process_replica_update_locked, in the order of the update times
ReplicaUpdate(p, t) ==
    /\ RemotePuts(p, applied[p], t) = {t}
    /\ CoreFor(p)
    /\ store' = [store EXCEPT ![remote[t]] = PutValue(@, RemoteVersion(t))]
    /\ applied' = [applied EXCEPT ![p] = t]
    /\ other' = [other EXCEPT ![p] = Max2(@, t)]
    /\ UNCHANGED <<clock, gst, session, req, slice, reply, left, fixed>>

\* Faulty: one too many.
UpdateGstBeyond(p, g, reqs) ==
    /\ gst' = [gst EXCEPT ![p] = Max2(@, g + 1)]
    /\ req' = reqs

\* gr_rotx_on_gst_updated: the transactions of p that waited for the GST to
\* pass their dependency time ask for their snapshot.
Woken(p, g, reqs) ==
    [c \in Client |->
        IF reqs[c].stage = "waiting" /\ reqs[c].at = p /\ dt[c] < g
        THEN [reqs[c] EXCEPT !.stage = "snapshot"]
        ELSE reqs[c]]

\* gr_update_gst in a handler that leaves the requests as reqs
UpdateGst(p, g, reqs) ==
    /\ gst' = [gst EXCEPT ![p] = Max2(@, g)]
    /\ req' = IF gst[p] < g THEN Woken(p, g, reqs) ELSE reqs

NeedUpdate(p, g) == gst[p] < g

\* The end of a round (gr_process_gst_from_root_locked, or its counterpart at
\* the root), or a forwarded get (gr_process_forward_get_request_locked).
GstUpdate(p, g) ==
    /\ NeedUpdate(p, g)
    /\ \A q \in Partition : g <= clock[q] /\ g <= other[q]
    /\ LockFree(p)
    /\ CoreFor(p)
    /\ UpdateGst(p, g, req)
    /\ UNCHANGED <<clock, other, applied, store, session, slice, reply, left, fixed>>

Environment(p) ==
    \E t \in Time :
        ClockTick(p, t) \/ Heartbeat(p, t) \/ ReplicaUpdate(p, t) \/ GstUpdate(p, t)

-----------------------------------------------------------------------------
(***************************************************************************)
(* Requests                                                                *)
(***************************************************************************)
Stage(c, s) == [req EXCEPT ![c].stage = s]

At(c, op, s) == req[c].op = op /\ req[c].stage = s

TheKey(c) == CHOOSE k \in req[c].keys : TRUE

\* client_lpid_for_key of a client that is tied to a partition
ClientLpidFor(c) == Home[c]

\* gr_client_get_request, gr_client_put_request and gr_client_rotx_request
ClientRequest(c, r) ==
    /\ req[c] = Idle
    /\ req' = [req EXCEPT ![c] = [op |-> r.op, keys |-> r.keys, at |-> ClientLpidFor(c),
                                  stage |-> "sent", time |-> 0]]
    /\ left[c] # <<>> /\ r = Head(left[c])
    /\ left' = [left EXCEPT ![c] = Tail(@)]
    /\ UNCHANGED <<servers, session, slice, reply, fixed>>

\* The key is elsewhere: the request is forwarded (getput.c:98-110, 167-174).
ForwardRequest(c) ==
    /\ req[c].op \in {"get", "put"}
    /\ req[c].stage = "sent"
    /\ PartitionFor(TheKey(c)) # req[c].at
    /\ CoreFor(req[c].at)
    /\ req' = [req EXCEPT ![c].at = PartitionFor(TheKey(c))]
    /\ UNCHANGED <<servers, session, slice, reply, left, fixed>>

Arrived(c, op) == At(c, op, "sent") /\ PartitionFor(TheKey(c)) = req[c].at

\* The value and the GST that go back to the client, through the partition
\* that forwarded the request if one did.
Answer(c, v, g) ==
    reply' = [reply EXCEPT ![c] = [k \in {TheKey(c)} |-> [value |-> v, gst |-> g]]]

\* Faulty: the client's GST is ignored.
GetRequestNoUpdate(c) ==
    /\ Arrived(c, "get")
    /\ req' = Stage(c, "answered")
    /\ Answer(c, GetValue(TheKey(c), gst[req[c].at]), gst[req[c].at])
    /\ UNCHANGED <<servers, session, slice, left, fixed>>

\* gr_process_get_request at the server of the key: read at once, or wait for
\* the lock to raise the GST first.
GetRequest(c) ==
    LET p == req[c].at
    IN  /\ Arrived(c, "get")
        /\ CoreFor(p)
        /\ \/ /\ NeedUpdate(p, cgst[c])
              /\ req' = Stage(c, "locking")
              /\ UNCHANGED reply
           \/ /\ ~NeedUpdate(p, cgst[c])
              /\ req' = Stage(c, "answered")
              /\ Answer(c, GetValue(TheKey(c), gst[p]), gst[p])
        /\ UNCHANGED <<servers, session, slice, left, fixed>>

\* gr_process_get_request_locked
GetRequestLocked(c) ==
    /\ At(c, "get", "locking")
    /\ LockFree(req[c].at)
    /\ UpdateGst(req[c].at, cgst[c], Stage(c, "locked"))
    /\ UNCHANGED <<clock, other, applied, store, session, slice, reply, left, fixed>>

\* gr_process_get_request_unlocked
GetRequestUnlocked(c) ==
    /\ At(c, "get", "locked")
    /\ req' = Stage(c, "answered")
    /\ Answer(c, GetValue(TheKey(c), gst[req[c].at]), gst[req[c].at])
    /\ UNCHANGED <<servers, session, slice, left, fixed>>

\* Faulty: the put does not wait for the clock to pass its dependency time.
PutRequestEarly(c) ==
    /\ Arrived(c, "put")
    /\ req' = [req EXCEPT ![c].stage = "locking", ![c].time = clock[req[c].at]]
    /\ UNCHANGED <<servers, session, slice, reply, left, fixed>>

\* gr_process_put_request at the server of the key.  A request "from the
\* future" is scheduled again until the clock has caught up.  It goes on at
\* the earliest clock that lets it; a later one would only leave fewer times
\* to choose the version's from.
PutRequest(c) ==
    /\ Arrived(c, "put")
    /\ CoreFor(req[c].at)
    /\ req' = [req EXCEPT ![c].stage = "locking",
                          ![c].time = Max2(clock[req[c].at], dt[c])]
    /\ UNCHANGED <<servers, session, slice, reply, left, fixed>>

\* gr_process_put_request_locked: the version gets the clock of now.
PutRequestLocked(c, t) ==
    LET p == req[c].at
        v == [ut |-> t, here |-> TRUE, deps |-> past[c]]
    IN  /\ At(c, "put", "locking")
        /\ LockFree(p)
        /\ t > clock[p] /\ t > req[c].time
        /\ clock' = [clock EXCEPT ![p] = t]
        /\ store' = [store EXCEPT ![TheKey(c)] = PutValue(@, v)]
        /\ Answer(c, v, 0)
        /\ req' = Stage(c, "locked")
        /\ UNCHANGED <<other, applied, gst, session, slice, left, fixed>>

\* gr_process_put_request_unlocked: the response leaves.
PutRequestUnlocked(c) ==
    /\ At(c, "put", "locked")
    /\ req' = Stage(c, "answered")
    /\ UNCHANGED <<servers, session, slice, reply, left, fixed>>

-----------------------------------------------------------------------------
(***************************************************************************)
(* Read-only transactions                                                  *)
(***************************************************************************)

\* gr_process_rotx_request
RotxRequest(c) ==
    /\ At(c, "rotx", "sent")
    /\ CoreFor(req[c].at)
    /\ req' = Stage(c, IF dt[c] <= gst[req[c].at] THEN "snapshot" ELSE "waiting")
    /\ UNCHANGED <<servers, session, slice, reply, left, fixed>>

\* Faulty: the snapshot is taken at the clock.
SnapshotRequestAtClock(c) ==
    LET p == req[c].at
    IN  /\ At(c, "rotx", "snapshot")
        /\ LockFree(p)
        /\ UpdateGst(p, cgst[c],
                     [req EXCEPT ![c].stage = "locked",
                                 ![c].time = Max2(clock[p], gst[p])])
        /\ UNCHANGED <<clock, other, applied, store, session, slice, reply, left, fixed>>

\* gr_process_get_snapshot_request, which takes the lock in any case, and
\* gr_process_get_snapshot_request_locked
SnapshotRequestLocked(c) ==
    LET p == req[c].at
    IN  /\ At(c, "rotx", "snapshot")
        /\ LockFree(p)
        /\ CoreFor(p)
        /\ UpdateGst(p, cgst[c],
                     [req EXCEPT ![c].stage = "locked",
                                 ![c].time = Max2(gst[p], cgst[c])])
        /\ UNCHANGED <<clock, other, applied, store, session, slice, reply, left, fixed>>

\* gr_process_get_snapshot_request_unlocked: one slice request per key
SnapshotRequestUnlocked(c) ==
    /\ At(c, "rotx", "locked")
    /\ req' = Stage(c, "slicing")
    /\ slice' = [slice EXCEPT ![c] = [k \in Key |->
            IF k \in req[c].keys THEN [NoSlice EXCEPT !.stage = "sent"] ELSE NoSlice]]
    /\ UNCHANGED <<servers, session, reply, left, fixed>>

\* gr_process_slice_request_unlocked
SendSlice(c, k) ==
    slice' = [slice EXCEPT ![c][k] =
        [stage |-> "reply", value |-> GetSlice(k, req[c].time),
         gst |-> gst[PartitionFor(k)]]]

\* gr_process_slice_request
SliceRequest(c, k) ==
    /\ slice[c][k].stage = "sent"
    /\ CoreFor(PartitionFor(k))
    /\ \/ /\ NeedUpdate(PartitionFor(k), req[c].time)
          /\ slice' = [slice EXCEPT ![c][k].stage = "locking"]
       \/ /\ ~NeedUpdate(PartitionFor(k), req[c].time)
          /\ SendSlice(c, k)
    /\ UNCHANGED <<servers, session, req, reply, left, fixed>>

\* gr_process_slice_request_locked
SliceRequestLocked(c, k) ==
    /\ slice[c][k].stage = "locking"
    /\ LockFree(PartitionFor(k))
    /\ UpdateGst(PartitionFor(k), req[c].time, req)
    /\ slice' = [slice EXCEPT ![c][k].stage = "locked"]
    /\ UNCHANGED <<clock, other, applied, store, session, reply, left, fixed>>

SliceRequestUnlocked(c, k) ==
    /\ slice[c][k].stage = "locked"
    /\ SendSlice(c, k)
    /\ UNCHANGED <<servers, session, req, reply, left, fixed>>

\* gr_process_slice_response_unlocked; the last value completes the snapshot
\* (gr_send_snapshot_response, gr_process_rotx_snapshot_response).
TakeSlice(c, k) ==
    LET values == [j \in {k} \cup DOMAIN reply[c] |->
                    IF j = k THEN [value |-> slice[c][k].value, gst |-> slice[c][k].gst]
                    ELSE reply[c][j]]
    IN  /\ slice' = [slice EXCEPT ![c][k] = NoSlice]
        /\ reply' = [reply EXCEPT ![c] = values]
        /\ req' = IF DOMAIN values = req[c].keys THEN Stage(c, "answered") ELSE req

\* gr_process_slice_response
SliceResponse(c, k) ==
    /\ slice[c][k].stage = "reply"
    /\ CoreFor(req[c].at)
    /\ \/ /\ NeedUpdate(req[c].at, slice[c][k].gst)
          /\ slice' = [slice EXCEPT ![c][k].stage = "reply_locking"]
          /\ UNCHANGED <<req, reply>>
       \/ /\ ~NeedUpdate(req[c].at, slice[c][k].gst)
          /\ TakeSlice(c, k)
    /\ UNCHANGED <<servers, session, left, fixed>>

\* gr_process_slice_response_locked
SliceResponseLocked(c, k) ==
    /\ slice[c][k].stage = "reply_locking"
    /\ LockFree(req[c].at)
    /\ UpdateGst(req[c].at, slice[c][k].gst, req)
    /\ slice' = [slice EXCEPT ![c][k].stage = "reply_locked"]
    /\ UNCHANGED <<clock, other, applied, store, session, reply, left, fixed>>

SliceResponseUnlocked(c, k) ==
    /\ slice[c][k].stage = "reply_locked"
    /\ TakeSlice(c, k)
    /\ UNCHANGED <<servers, session, left, fixed>>

-----------------------------------------------------------------------------
(***************************************************************************)
(* Responses                                                               *)
(***************************************************************************)
Times(c)  == {reply[c][k].value.ut : k \in DOMAIN reply[c]}
Gsts(c)   == {reply[c][k].gst : k \in DOMAIN reply[c]}
Values(c) == {reply[c][k].value : k \in DOMAIN reply[c]}

\* d with the versions that came back, and with the dependencies of those in S
\* on the keys of K
Learn(c, d, S, K) ==
    [k \in Key |->
        MaxOf({d[k]} \cup {v.deps[k] : v \in {v \in S : k \in K}}
              \cup {reply[c][j].value.ut : j \in DOMAIN reply[c] \cap {k}})]

\* get_response, put_response and rotx_response, with update_times.  Gets see
\* what c itself has been shown or has put; and what the versions of the other
\* data centre and the snapshots that it was shown depend on, if that has been
\* stored.  The local versions that a get returns may depend on more.
ClientResponse(c) ==
    /\ req[c].stage = "answered"
    /\ dt' = [dt EXCEPT ![c] = MaxOf({@} \cup Times(c))]
    /\ cgst' = [cgst EXCEPT ![c] = MaxOf({@} \cup Gsts(c))]
    /\ past' = [past EXCEPT ![c] = Learn(c, @, Values(c), Key)]
    /\ seen' = [seen EXCEPT ![c] = Learn(c, @,
                    {v \in Values(c) : req[c].op = "rotx" \/ ~v.here}, CoveredKeys)]
    /\ req' = [req EXCEPT ![c] = Idle]
    /\ reply' = [reply EXCEPT ![c] = <<>>]
    /\ UNCHANGED <<servers, slice, left, fixed>>

-----------------------------------------------------------------------------
GetPut(c) ==
    \/ ForwardRequest(c)
    \/ GetRequest(c) \/ GetRequestLocked(c) \/ GetRequestUnlocked(c)
    \/ PutRequest(c) \/ (\E t \in Time : PutRequestLocked(c, t)) \/ PutRequestUnlocked(c)

Rotx(c) == RotxRequest(c) \/ SnapshotRequestLocked(c) \/ SnapshotRequestUnlocked(c)

Slice(c, k) ==
    \/ SliceRequest(c, k) \/ SliceRequestLocked(c, k) \/ SliceRequestUnlocked(c, k)
    \/ SliceResponse(c, k) \/ SliceResponseLocked(c, k) \/ SliceResponseUnlocked(c, k)

Next ==
    \/ \E p \in Partition : Environment(p)
    \/ \E c \in Client :
        \/ \E r \in Request : ClientRequest(c, r)
        \/ GetPut(c)
        \/ Rotx(c)
        \/ \E k \in Key : Slice(c, k)
        \/ ClientResponse(c)

Spec == Init /\ [][Next]_vars
-----------------------------------------------------------------------------
(***************************************************************************)
(* Properties                                                              *)
(***************************************************************************)
\* Every variable has the type its C declaration and use give it.
TypeOK ==
    /\ clock \in [Partition -> Time]
    /\ other \in [Partition -> Time]
    /\ applied \in [Partition -> Time]
    /\ gst \in [Partition -> Time]
    /\ dt \in [Client -> Time]
    /\ cgst \in [Client -> Time]
    /\ past \in [Client -> [Key -> Time]]
    /\ seen \in [Client -> [Key -> Time]]
    /\ \A k \in Key : \A i \in DOMAIN store[k] : store[k][i].ut \in Time
    /\ \A c \in Client :
        /\ req[c] # Idle => req[c].at \in Partition
        /\ req[c].time \in Time
        /\ DOMAIN reply[c] \subseteq req[c].keys

\* A client that gets a key sees at least the version it was last shown or put:
\* the GST it carries is raised wherever it asks next (getput.c:91-160,
\* client/protocols/gr.c:27-45).  It also sees what the versions of the other
\* data centre and the snapshots that it was shown depend on; on a key of the
\* other data centre only with one core per server: with several such a
\* dependency may still queue below the GST (replication.c:14-26).
GetsSeeOwnPast ==
    \A c \in Client :
        At(c, "get", "answered") =>
            \A k \in req[c].keys : reply[c][k].value.ut >= seen[c][k]

\* Causal consistency of gets: a client sees at least everything that what it
\* has read depends on.
GetsAreCausal ==
    \A c \in Client :
        At(c, "get", "answered") =>
            \A k \in req[c].keys : reply[c][k].value.ut >= past[c][k]

\* No value of a transaction is older than what the client itself was shown or
\* put before, and with one core per server the values are a causal snapshot:
\* none is older than what another one of them, or anything the client knows,
\* depends on (rotx.c:43-72, snapshot.c:74-84, slice.c:12-53).  With several
\* cores that is left of the keys of this data centre only, since a version of
\* the other one may be missing though the snapshot time covers it.
RotxIsCausal ==
    \A c \in Client :
        req[c].op = "rotx" =>
            \A k \in DOMAIN reply[c] :
                /\ reply[c][k].value.ut >= seen[c][k]
                /\ k \in CoveredKeys =>
                    /\ reply[c][k].value.ut >= past[c][k]
                    /\ \A j \in DOMAIN reply[c] :
                        reply[c][k].value.ut >= reply[c][j].value.deps[k]

\* A snapshot is stable: once its time is fixed, no put adds a version that it
\* should have contained and, with one core per server, no update from the
\* other data centre does, so it does not matter when each slice is read
\* (snapshot.c:74-84).  With several cores an update that waited while the GST
\* went by adds one to a key of the other data centre.
SnapshotIsStable ==
    \A c \in Client :
        At(c, "rotx", "slicing") =>
            \A k \in req[c].keys \cap CoveredKeys :
                /\ k \in DOMAIN reply[c] =>
                    reply[c][k].value = GetSlice(k, req[c].time)
                /\ slice[c][k].stage \in {"reply", "reply_locking", "reply_locked"} =>
                    slice[c][k].value = GetSlice(k, req[c].time)

\* A version is newer than everything it depends on, at whatever server and
\* however skewed its clock: what makes a time a causal cut
\* (getput.c:175-181 and 197-206).
PutsFollowTheirDependencies ==
    \A k \in Key : \A i \in DOMAIN store[k] :
        \A j \in Key : store[k][i].deps[j] < store[k][i].ut
=============================================================================
