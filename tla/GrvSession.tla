----------------------------- MODULE GrvSession -----------------------------
(***************************************************************************)
(* What a client of the vector protocol sees in one data centre: gets,     *)
(* puts and read-only transactions (src/src/server/protocols/grv:          *)
(* getput.c, rotx.c, slice.c, store.c; src/src/client/protocols/grv.c).    *)
(*                                                                         *)
(* As in GrSession a client has one request in flight, and req[c] is how   *)
(* far it got.  A transaction sends one slice request to each partition    *)
(* that has some of its keys; slice[c][p] is the one at p.  "locked" is a  *)
(* chain that holds lock_gsv, or for a put lock_vv, of its server.         *)
(*                                                                         *)
(* The rest of the system appears as the other modules show it to behave.  *)
(* Versions of another data centre reach a partition in the order of their *)
(* times; its entry of the version vector goes up with them and with       *)
(* heartbeats (GrvReplication).  A round may raise an entry of a GST       *)
(* vector up to the minimum of that entry over all partitions (GrvGst,     *)
(* StableTime).                                                            *)
(*                                                                         *)
(* With one core per server a server runs one chain of events at a time,   *)
(* and a heartbeat that arrives behind an update is processed behind it.   *)
(* With several (cores_per_server is 4 unless told otherwise) it overtakes *)
(* the updates that still queue, so that an entry and a GST vector may     *)
(* cover versions that are not in the store yet.  single_core says which;  *)
(* the properties say what is left of each with several cores.             *)
(*                                                                         *)
(* The GST vectors are modelled without the entry of this data centre.     *)
(* Neither gets nor slices here read it, and being at most the clock of    *)
(* every server here it never delays a put.                                *)
(***************************************************************************)
EXTENDS Integers, Sequences, FiniteSets

CONSTANTS
    Client,          \* the clients of this data centre
    Home,            \* Home[c]: the partition client c is tied to
    NumPartitions,   \* cluster->num_partitions
    Remote,          \* the other data centres
    LocalKeys,       \* the keys written in this data centre
    RemoteKeys,      \* the keys written in the others
    Scripts,         \* what the clients may ask for: script[c] is a sequence
    Log,             \* Log[s]: what data centre s puts, see Put
    SingleCore,      \* the settings to look at: whether cores_per_server is 1
    Heard,           \* bound: the last time of s that a heartbeat brings
    LastTick,        \* bound: the clocks here stop here
    MaxTime          \* bound: no time is later

Here == "here"
DC   == Remote \cup {Here}
Key  == LocalKeys \cup RemoteKeys
Time == 0 .. MaxTime

\* partition_for_key
PartitionFor(k) == k % NumPartitions

\* The partitions where something happens; the others could only keep the GST
\* lower.
Partition == {PartitionFor(k) : k \in Key} \cup {Home[c] : c \in Client}

\* A put of another data centre: its key, its time and its dependency vector.
Put == [key : RemoteKeys, ut : Time \ {0}, dep : [DC -> Time]]

Request ==
    [op : {"get"}, keys : {{k} : k \in Key}] \cup
    [op : {"put"}, keys : {{k} : k \in LocalKeys}] \cup
    [op : {"rotx"}, keys : SUBSET Key]

ASSUME SessionAssumption ==
    /\ NumPartitions \in Nat \ {0}
    /\ LocalKeys \subseteq Nat
    /\ RemoteKeys \subseteq Nat
    /\ LocalKeys \cap RemoteKeys = {}
    /\ Here \notin Remote
    /\ Home \in [Client -> 0 .. NumPartitions - 1]
    /\ \A script \in Scripts : script \in [Client -> Seq(Request)]
    /\ MaxTime \in Nat
    /\ LastTick \in Time
    /\ Log \in [Remote -> SUBSET Put]
    /\ Heard \in [Remote -> Time]
    /\ SingleCore \subseteq BOOLEAN

\* Elsewhere too a put is later than its dependency vector, as PutRequest makes
\* it here, and each key is written in one data centre only: of two versions
\* that conflict grv_put_value may drop the one that a client depends on.
ASSUME LogAssumption ==
    /\ \A s \in Remote, d \in DC : \A put \in Log[s] : put.dep[d] < put.ut
    /\ \A s, d \in Remote : \A put \in Log[s], q \in Log[d] :
        put.key = q.key => s = d

VARIABLES
    \* the servers
    clock,      \* state->clock
    other,      \* the highest that the entries of the others in
                \* state->version_vector have been: an update sets its entry
                \* back when a heartbeat went by, but a round that read it
                \* before goes on with what it read
    applied,    \* the time of the last version from each that is stored
    gst_vector, \* state->gst_vector, the entries of the others
    store,      \* the version chain of each key, newest first
    \* the clients
    dependency_vector,   \* as the client keeps it
    client_gst,          \* the client's gst_vector
    req,        \* the request in flight
    slice,      \* the slices of a transaction
    reply,      \* the values that have come back, by key
    left,       \* the requests that the client's workload still makes
    \* cores_per_server = 1
    single_core,
    \* history variables
    past,       \* past[c][k]: the newest version of k that c depends on
    seen        \* the part of it that gets see, see ClientResponse

servers == <<clock, other, applied, gst_vector, store>>
session == <<dependency_vector, client_gst, past, seen>>
vars    == <<servers, session, req, slice, reply, left, single_core>>

MaxOf(S) == CHOOSE m \in S : \A x \in S : x <= m

Leq(v, w)       == \A s \in Remote : v[s] <= w[s]
MaxVector(v, w) == [s \in DOMAIN v |-> MaxOf({v[s], w[s]})]
NoTimes         == [s \in Remote |-> 0]
NoDeps          == [k \in Key |-> 0]

\* One version: its update time, source replica and dependency vector, and
\* the time of the newest version of each key that it depends on.
NoVersion == [ut |-> 0, sr |-> Here, dep |-> [s \in DC |-> 0], deps |-> NoDeps]

\* The keys of which a server has every version that its GST vector covers:
\* with several cores only those that are put here.
CoveredKeys == IF single_core THEN Key ELSE LocalKeys

\* The version that a put of data centre s makes.  It may depend on every put
\* that was visible to its client: one that its dependency vector covers
\* together with what that one depends on, and the versions of here that its
\* entry for this data centre covers.  What another client there has only
\* just put is visible without that, and left out, as it is here: see seen.
RemoteVersion(s, put) ==
    [ut |-> put.ut, sr |-> s, dep |-> put.dep,
     deps |-> [k \in Key |->
        MaxOf({0} \cup {q.ut : q \in {q \in (UNION {Log[d] : d \in Remote}) :
                    /\ q.key = k
                    /\ \E d \in Remote : q \in Log[d] /\ q.ut <= put.dep[d]
                    /\ Leq(q.dep, put.dep)}}
              \cup {store[k][i].ut : i \in {i \in DOMAIN store[k] :
                    store[k][i].sr = Here /\ store[k][i].ut <= put.dep[Here]}})]]

\* grv_put_value: an older version is dropped.
PutValue(chain, v) ==
    IF chain # <<>> /\ Head(chain).ut > v.ut THEN chain ELSE <<v>> \o chain

\* grv_get_value_at: the first version of the chain that is visible
GetValueAt(chain, visible) ==
    IF visible = {} THEN NoVersion
    ELSE chain[CHOOSE i \in visible : \A j \in visible : i <= j]

\* Faulty: remote versions are visible as they arrive.
IsVisibleAlways(v, g) == TRUE

\* grv_is_value_visible: what is local is visible at once, and of the rest
\* what depends on nothing newer than the GST vector.
IsVisible(v, g) == v.sr = Here \/ Leq(v.dep, g)

\* grv_get_value at the server of k
GetValue(k) ==
    GetValueAt(store[k], {i \in DOMAIN store[k] :
                            IsVisible(store[k][i], gst_vector[PartitionFor(k)])})

\* is_value_visible_snapshot, with the snapshot vector that is g but for the
\* clock t of the server as the entry of this data centre
IsVisibleSnapshot(v, g, t) == Leq(v.dep, g) /\ v.dep[Here] <= t

\* What a slice reads at its server: the server's own vector and clock.
GetSlice(k) ==
    LET p == PartitionFor(k)
    IN  GetValueAt(store[k], {i \in DOMAIN store[k] :
            IsVisibleSnapshot(store[k][i], gst_vector[p], clock[p])})

Idle    == [op |-> "none", keys |-> {}, at |-> 0, stage |-> "idle", time |-> 0,
            gst |-> NoTimes]
NoSlice == [stage |-> "none", values |-> <<>>]

Init ==
    /\ clock = [p \in Partition |-> 0]
    /\ other = [p \in Partition |-> NoTimes]
    /\ applied = [p \in Partition |-> NoTimes]
    /\ gst_vector = [p \in Partition |-> NoTimes]
    /\ store = [k \in Key |-> <<>>]
    /\ dependency_vector = [c \in Client |-> [s \in DC |-> 0]]
    /\ client_gst = [c \in Client |-> NoTimes]
    /\ req = [c \in Client |-> Idle]
    /\ slice = [c \in Client |-> [p \in Partition |-> NoSlice]]
    /\ reply = [c \in Client |-> <<>>]
    /\ left \in Scripts
    /\ single_core \in SingleCore
    /\ past = [c \in Client |-> NoDeps]
    /\ seen = [c \in Client |-> NoDeps]

-----------------------------------------------------------------------------
(***************************************************************************)
(* The rest of the system                                                  *)
(***************************************************************************)

\* No chain holds lock_gsv of p.
GsvFree(p) ==
    \A c \in Client :
        /\ ~(req[c].op # "put" /\ req[c].stage = "locked" /\ req[c].at = p)
        /\ slice[c][p].stage # "locked"

\* No chain holds lock_vv of p.
VvFree(p) ==
    \A c \in Client :
        ~(req[c].op = "put" /\ req[c].stage = "locked" /\ req[c].at = p)

\* No chain of events at p has begun and not ended.
NoChain(p) ==
    \A c \in Client :
        /\ ~(req[c].stage \in {"locking", "locked"} /\ req[c].at = p)
        /\ slice[c][p].stage \notin {"locking", "locked"}

\* A core of p can start another chain.
CoreFor(p) == single_core => NoChain(p)

\* The clock of p goes on.
Advance(p, t) ==
    /\ t > clock[p]
    /\ clock' = [clock EXCEPT ![p] = t]
    /\ UNCHANGED <<other, applied, gst_vector, store, session, req, slice, reply, left, single_core>>

\* What s puts at p with a time in from + 1 .. to
Puts(s, p, from, to) ==
    {put \in Log[s] : from < put.ut /\ put.ut <= to /\ PartitionFor(put.key) = p}

\* grv_process_heartbeat and grv_process_heartbeat_locked.  With one core all
\* updates up to t have been applied; with several those that queue wait.  The
\* heartbeat is the last one before the next update, or the last of all; an
\* earlier one would only let the GST rise less.
Heartbeat(p, s, t) ==
    LET Waiting(u) == single_core /\ Puts(s, p, applied[p][s], u) # {}
    IN  /\ t > other[p][s]
        /\ ~Waiting(t)
        /\ t = Heard[s] \/ Waiting(t + 1)
        /\ VvFree(p)
        /\ CoreFor(p)
        /\ other' = [other EXCEPT ![p][s] = t]
        /\ UNCHANGED <<clock, applied, gst_vector, store, session, req, slice, reply, left,
                       single_core>>

\* grv_process_replica_update_vv_locked, in the order of the update times.
\* The entry of the put for this data centre is a time that a clock here had.
ReplicaUpdate(p, s, put) ==
    /\ Puts(s, p, applied[p][s], put.ut) = {put}
    /\ \E q \in Partition : put.dep[Here] <= clock[q]
    /\ VvFree(p)
    /\ CoreFor(p)
    /\ store' = [store EXCEPT ![put.key] = PutValue(@, RemoteVersion(s, put))]
    /\ applied' = [applied EXCEPT ![p][s] = put.ut]
    /\ other' = [other EXCEPT ![p][s] = MaxOf({@, put.ut})]
    /\ UNCHANGED <<clock, gst_vector, session, req, slice, reply, left, single_core>>

\* grv_gst_vector_need_update
NeedUpdate(p, g) == ~Leq(g, gst_vector[p])

\* grv_update_gst_vector
UpdateGstVector(p, g) ==
    gst_vector' = [gst_vector EXCEPT ![p] = MaxVector(@, g)]

\* The end of a round (grv_process_gst_from_root_locked, or its counterpart at
\* the root) raises an entry; StableTime!Raise.
GstUpdate(p, s, t) ==
    /\ t > gst_vector[p][s]
    /\ \A q \in Partition : t <= other[q][s]
    /\ GsvFree(p)
    /\ CoreFor(p)
    /\ gst_vector' = [gst_vector EXCEPT ![p][s] = t]
    /\ UNCHANGED <<clock, other, applied, store, session, req, slice, reply, left, single_core>>

Environment(p) ==
    \/ \E t \in 0 .. LastTick : Advance(p, t)
    \/ \E s \in Remote :
        \/ \E t \in 0 .. Heard[s] : Heartbeat(p, s, t) \/ GstUpdate(p, s, t)
        \/ \E put \in Log[s] : PartitionFor(put.key) = p /\ ReplicaUpdate(p, s, put)

-----------------------------------------------------------------------------
(***************************************************************************)
(* Gets and puts                                                           *)
(***************************************************************************)
Stage(c, s) == [req EXCEPT ![c].stage = s]

At(c, op, s) == req[c].op = op /\ req[c].stage = s

TheKey(c) == CHOOSE k \in req[c].keys : TRUE

\* grv_client_get_request, grv_client_put_request and grv_client_rotx_request
ClientRequest(c, r) ==
    /\ req[c] = Idle
    /\ req' = [req EXCEPT ![c] = [Idle EXCEPT !.op = r.op, !.keys = r.keys,
                                              !.at = Home[c], !.stage = "sent"]]
    /\ left[c] # <<>> /\ r = Head(left[c])
    /\ left' = [left EXCEPT ![c] = Tail(@)]
    /\ UNCHANGED <<servers, session, slice, reply, single_core>>

\* grv_process_get_request and grv_process_put_request of a key that is
\* elsewhere.  A get raises the vector of this server too, at once and whoever
\* holds lock_gsv; the chain that it starts for it as well
\* (GRV_FORWARDED_GET_REQUEST_LOCKED) finds it raised and changes nothing.
ForwardRequest(c) ==
    /\ req[c].op \in {"get", "put"}
    /\ req[c].stage = "sent"
    /\ PartitionFor(TheKey(c)) # req[c].at
    /\ CoreFor(req[c].at)
    /\ req' = [req EXCEPT ![c].at = PartitionFor(TheKey(c))]
    /\ \/ /\ req[c].op = "get"
          /\ UpdateGstVector(req[c].at, client_gst[c])
       \/ /\ req[c].op = "put"
          /\ UNCHANGED gst_vector
    /\ UNCHANGED <<clock, other, applied, store, session, slice, reply, left, single_core>>

Arrived(c, op) == At(c, op, "sent") /\ PartitionFor(TheKey(c)) = req[c].at

\* The value and the vector that go back to the client
Answer(c, v, g) ==
    reply' = [reply EXCEPT ![c] = [k \in {TheKey(c)} |-> [value |-> v, gst |-> g]]]

\* Faulty: the client's vector is ignored.
GetRequestNoUpdate(c) ==
    /\ Arrived(c, "get")
    /\ req' = Stage(c, "answered")
    /\ Answer(c, GetValue(TheKey(c)), gst_vector[req[c].at])
    /\ UNCHANGED <<servers, session, slice, left, single_core>>

\* grv_process_get_request at the server of the key: read at once, or wait for
\* the lock to raise the vector first.
GetRequest(c) ==
    LET p == req[c].at
    IN  /\ Arrived(c, "get")
        /\ CoreFor(p)
        /\ \/ /\ NeedUpdate(p, client_gst[c])
              /\ req' = Stage(c, "locking")
              /\ UNCHANGED reply
           \/ /\ ~NeedUpdate(p, client_gst[c])
              /\ req' = Stage(c, "answered")
              /\ Answer(c, GetValue(TheKey(c)), gst_vector[p])
        /\ UNCHANGED <<servers, session, slice, left, single_core>>

\* grv_process_get_request_locked
GetRequestLocked(c) ==
    /\ At(c, "get", "locking")
    /\ GsvFree(req[c].at)
    /\ UpdateGstVector(req[c].at, client_gst[c])
    /\ req' = Stage(c, "locked")
    /\ UNCHANGED <<clock, other, applied, store, session, slice, reply, left, single_core>>

\* grv_process_get_request_unlocked
GetRequestUnlocked(c) ==
    /\ At(c, "get", "locked")
    /\ req' = Stage(c, "answered")
    /\ Answer(c, GetValue(TheKey(c)), gst_vector[req[c].at])
    /\ UNCHANGED <<servers, session, slice, left, single_core>>

\* max_gst_and_dependency_vector: what a put of c depends on
PutVector(c) ==
    [s \in DC |-> IF s = Here THEN dependency_vector[c][s]
                  ELSE MaxOf({client_gst[c][s], dependency_vector[c][s]})]

\* Faulty: the put waits for its dependencies of this data centre only.
PutRequestLocalOnly(c) ==
    /\ Arrived(c, "put")
    /\ PutVector(c)[Here] <= clock[req[c].at]
    /\ req' = Stage(c, "locking")
    /\ UNCHANGED <<servers, session, slice, reply, left, single_core>>

\* grv_process_put_request at the server of the key, which schedules a request
\* "from the future" again until its clock has caught up
PutRequest(c) ==
    /\ Arrived(c, "put")
    /\ CoreFor(req[c].at)
    /\ \A s \in DC : PutVector(c)[s] <= clock[req[c].at]
    /\ req' = Stage(c, "locking")
    /\ UNCHANGED <<servers, session, slice, reply, left, single_core>>

\* grv_process_put_request_locked: the version gets the clock of now.
PutRequestLocked(c, t) ==
    LET p == req[c].at
        v == [ut |-> t, sr |-> Here, dep |-> PutVector(c), deps |-> past[c]]
    IN  /\ At(c, "put", "locking")
        /\ VvFree(p)
        /\ t > clock[p]
        /\ clock' = [clock EXCEPT ![p] = t]
        /\ store' = [store EXCEPT ![TheKey(c)] = PutValue(@, v)]
        /\ Answer(c, v, NoTimes)
        /\ req' = Stage(c, "locked")
        /\ UNCHANGED <<other, applied, gst_vector, session, slice, left, single_core>>

\* grv_process_put_request_unlocked: the response leaves.
PutRequestUnlocked(c) ==
    /\ At(c, "put", "locked")
    /\ req' = Stage(c, "answered")
    /\ UNCHANGED <<servers, session, slice, reply, left, single_core>>

-----------------------------------------------------------------------------
(***************************************************************************)
(* Read-only transactions                                                  *)
(***************************************************************************)

\* Faulty: the slices carry no vector.
SendSlicesNoVector(c) ==
    LET p == req[c].at
    IN  /\ req' = [req EXCEPT ![c].stage = "slicing",
                    ![c].time = MaxOf({clock[p], dependency_vector[c][Here]})]
        /\ slice' = [slice EXCEPT ![c] = [q \in Partition |->
                IF \E k \in req[c].keys : PartitionFor(k) = q
                THEN [NoSlice EXCEPT !.stage = "sent"] ELSE NoSlice]]

\* grv_process_rotx_request_unlocked: the snapshot time, and one slice request
\* per partition that has a key, with this server's vector
SendSlices(c) ==
    LET p == req[c].at
    IN  /\ req' = [req EXCEPT ![c].stage = "slicing",
                    ![c].time = MaxOf({clock[p], dependency_vector[c][Here]}),
                    ![c].gst = gst_vector[p]]
        /\ slice' = [slice EXCEPT ![c] = [q \in Partition |->
                IF \E k \in req[c].keys : PartitionFor(k) = q
                THEN [NoSlice EXCEPT !.stage = "sent"] ELSE NoSlice]]

\* grv_process_rotx_request
RotxRequest(c) ==
    /\ At(c, "rotx", "sent")
    /\ CoreFor(req[c].at)
    /\ \/ /\ NeedUpdate(req[c].at, client_gst[c])
          /\ req' = Stage(c, "locking")
          /\ UNCHANGED slice
       \/ /\ ~NeedUpdate(req[c].at, client_gst[c])
          /\ SendSlices(c)
    /\ UNCHANGED <<servers, session, reply, left, single_core>>

\* grv_process_rotx_request_locked
RotxRequestLocked(c) ==
    /\ At(c, "rotx", "locking")
    /\ GsvFree(req[c].at)
    /\ UpdateGstVector(req[c].at, client_gst[c])
    /\ req' = Stage(c, "locked")
    /\ UNCHANGED <<clock, other, applied, store, session, slice, reply, left, single_core>>

RotxRequestUnlocked(c) ==
    /\ At(c, "rotx", "locked")
    /\ SendSlices(c)
    /\ UNCHANGED <<servers, session, reply, left, single_core>>

\* grv_process_slice_request_unlocked
SendSlice(c, p) ==
    slice' = [slice EXCEPT ![c][p] =
        [stage |-> "reply",
         values |-> [k \in {k \in req[c].keys : PartitionFor(k) = p} |-> GetSlice(k)]]]

\* grv_process_slice_request, which is scheduled again until the clock has
\* reached the snapshot time
SliceRequest(c, p) ==
    /\ slice[c][p].stage = "sent"
    /\ req[c].time <= clock[p]
    /\ CoreFor(p)
    /\ \/ /\ NeedUpdate(p, req[c].gst)
          /\ slice' = [slice EXCEPT ![c][p].stage = "locking"]
       \/ /\ ~NeedUpdate(p, req[c].gst)
          /\ SendSlice(c, p)
    /\ UNCHANGED <<servers, session, req, reply, left, single_core>>

\* grv_process_slice_request_locked
SliceRequestLocked(c, p) ==
    /\ slice[c][p].stage = "locking"
    /\ GsvFree(p)
    /\ UpdateGstVector(p, req[c].gst)
    /\ slice' = [slice EXCEPT ![c][p].stage = "locked"]
    /\ UNCHANGED <<clock, other, applied, store, session, req, reply, left, single_core>>

SliceRequestUnlocked(c, p) ==
    /\ slice[c][p].stage = "locked"
    /\ SendSlice(c, p)
    /\ UNCHANGED <<servers, session, req, reply, left, single_core>>

\* grv_process_slice_response; the last value completes the transaction
\* (grv_send_rotx_response).
SliceResponse(c, p) ==
    LET got == slice[c][p].values
        all == [k \in DOMAIN got \cup DOMAIN reply[c] |->
                    IF k \in DOMAIN got THEN [value |-> got[k], gst |-> NoTimes]
                    ELSE reply[c][k]]
    IN  /\ slice[c][p].stage = "reply"
        /\ CoreFor(req[c].at)
        /\ slice' = [slice EXCEPT ![c][p] = NoSlice]
        /\ reply' = [reply EXCEPT ![c] = all]
        /\ req' = IF DOMAIN all = req[c].keys THEN Stage(c, "answered") ELSE req
        /\ UNCHANGED <<servers, session, left, single_core>>

-----------------------------------------------------------------------------
(***************************************************************************)
(* Responses                                                               *)
(***************************************************************************)
Values(c) == {reply[c][k].value : k \in DOMAIN reply[c]}

\* d with the versions that came back, and with the dependencies of those in S
\* on the keys of K
Learn(c, d, S, K) ==
    [k \in Key |->
        MaxOf({d[k]} \cup {v.deps[k] : v \in {v \in S : k \in K}}
              \cup {reply[c][j].value.ut : j \in DOMAIN reply[c] \cap {k}})]

\* get_response, put_response and rotx_response: the vector of the server
\* comes with the response to a get only.  Gets see what c itself has been
\* shown or has put; and what the versions of other data centres that it got
\* depend on, if that has been stored.
ClientResponse(c) ==
    /\ req[c].stage = "answered"
    /\ dependency_vector' = [dependency_vector EXCEPT ![c] = [s \in DC |->
            MaxOf({@[s]} \cup {v.ut : v \in {v \in Values(c) : v.sr = s}})]]
    /\ client_gst' = [client_gst EXCEPT ![c] = [s \in Remote |->
            MaxOf({@[s]} \cup {reply[c][k].gst[s] : k \in DOMAIN reply[c]})]]
    /\ past' = [past EXCEPT ![c] = Learn(c, @, Values(c), Key)]
    /\ seen' = [seen EXCEPT ![c] = Learn(c, @,
                    {v \in Values(c) : req[c].op = "get" /\ v.sr # Here}, CoveredKeys)]
    /\ req' = [req EXCEPT ![c] = Idle]
    /\ reply' = [reply EXCEPT ![c] = <<>>]
    /\ UNCHANGED <<servers, slice, left, single_core>>

-----------------------------------------------------------------------------
GetPut(c) ==
    \/ ForwardRequest(c)
    \/ GetRequest(c) \/ GetRequestLocked(c) \/ GetRequestUnlocked(c)
    \/ PutRequest(c) \/ (\E t \in 0 .. LastTick : PutRequestLocked(c, t)) \/ PutRequestUnlocked(c)

Rotx(c) == RotxRequest(c) \/ RotxRequestLocked(c) \/ RotxRequestUnlocked(c)

Slice(c, p) ==
    \/ SliceRequest(c, p) \/ SliceRequestLocked(c, p) \/ SliceRequestUnlocked(c, p)
    \/ SliceResponse(c, p)

Next ==
    \/ \E p \in Partition : Environment(p)
    \/ \E c \in Client :
        \/ \E r \in Request : ClientRequest(c, r)
        \/ GetPut(c)
        \/ Rotx(c)
        \/ \E p \in Partition : Slice(c, p)
        \/ ClientResponse(c)

Spec == Init /\ [][Next]_vars
-----------------------------------------------------------------------------
(***************************************************************************)
(* Properties                                                              *)
(***************************************************************************)
\* A client that gets a key sees at least the version it was last shown or put:
\* its vector is raised wherever it asks next (getput.c:82-103,
\* client/protocols/grv.c:40-49 and 110-119).  It also sees what the versions of
\* other data centres that it got depend on; on a key of another data centre
\* only with one core per server: with several such a dependency may still
\* queue though the vector covers it (replication.c:16-29, heartbeat.c:10-22).
GetsSeeOwnPast ==
    \A c \in Client :
        At(c, "get", "answered") =>
            \A k \in req[c].keys : reply[c][k].value.ut >= seen[c][k]

\* The same holds in a transaction for the keys of other data centres, whose
\* slices are read under the vector that the transaction brings along
\* (rotx.c:43-60 and 90, slice.c:37-50), if the snapshot time has reached what
\* the version in question depends on in this data centre: a get does not ask
\* (store.c:30), a slice does (slice.c:14-24 and 58), and hides it as long as
\* the clock of the server is behind.
RotxSeesRemotePast ==
    \A c \in Client :
        req[c].op = "rotx" =>
            \A k \in RemoteKeys \cap DOMAIN reply[c], s \in Remote : \A put \in Log[s] :
                /\ put.key = k
                /\ put.ut = seen[c][k]
                /\ put.dep[Here] <= req[c].time
                => reply[c][k].value.ut >= put.ut

\* A version of another data centre that a client is shown never depends on
\* something that its server has not been told to have: with one core per
\* server that is something stored, with several an update that may still
\* queue.  Every server decides by a vector of its own, that it may have heard
\* of from a client (store.c:24-36, slice.c:14-24 and 52-68).
DependenciesArrived ==
    LET Shown == (UNION {Values(c) : c \in Client}) \cup
                 (UNION {{slice[c][p].values[k] : k \in DOMAIN slice[c][p].values} :
                         c \in Client, p \in Partition})
        Had(p, s) == IF single_core THEN applied[p][s] ELSE other[p][s]
    IN  \A v \in Shown : \A s \in Remote : \A put \in Log[s] :
            v.sr # Here /\ put.ut <= v.dep[s] => put.ut <= Had(PartitionFor(put.key), s)

\* A version is newer than everything it depends on, at whatever server and
\* however skewed its clock (getput.c:139-149 and 169-178).
PutsFollowTheirDependencies ==
    \A k \in Key : \A i \in DOMAIN store[k] :
        \A j \in Key : store[k][i].deps[j] < store[k][i].ut

\* The values of a transaction are a causal snapshot, as the technique of Cure
\* promises: none is older than what another one of them, or anything the
\* client has read or written before, depends on (rotx.c:73-109, slice.c:52-68).
RotxIsCausal ==
    \A c \in Client :
        req[c].op = "rotx" =>
            \A k \in DOMAIN reply[c] :
                /\ reply[c][k].value.ut >= past[c][k]
                /\ \A j \in DOMAIN reply[c] :
                    reply[c][k].value.ut >= reply[c][j].value.deps[k]
=============================================================================
