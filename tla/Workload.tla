------------------------------ MODULE Workload ------------------------------
(***************************************************************************)
(* A client and its workload (src/src/client/client.c and                  *)
(* src/src/client/workloads), with the choice of keys (src/src/cluster.c,  *)
(* src/src/client/key_distribution.c).                                     *)
(*                                                                         *)
(* A client alternates between a tick, in which its workload sends a       *)
(* request, and the response, after which it thinks and ticks again.  What *)
(* the servers do between the two is the subject of the session modules:   *)
(* here they answer every request once.  Clients do not interact, so one   *)
(* is enough.                                                              *)
(*                                                                         *)
(* unsigned int and gr_key (uint64_t) keep a width, with UintMax for       *)
(* UINT_MAX and the square of the range for gr_key.                        *)
(***************************************************************************)
EXTENDS Integers, Sequences, FiniteSets

CONSTANTS
    Settings,   \* the configurations that are considered
    UintMax     \* UINT_MAX

IntMax   == UintMax \div 2
KeyRange == (UintMax + 1) * (UintMax + 1)

\* The entries of the configuration file that a workload depends on
Setting ==
    [workload : {"get_put_rr", "rotx_put_rr", "probabilistic"},
     key_distribution : {"uniform", "zipfian"},
     num_partitions : 1 .. IntMax,
     num_keys : 1 .. UintMax,
     keys_per_rotx : 1 .. IntMax,
     num_rotx : 0 .. UintMax,
     num_put : 0 .. UintMax]

\* Every setting passes the assertions of the set-up (cluster.c:50, 87 and 97,
\* and, through random_uint, rotx_put_rr.c:88).
ASSUME WorkloadAssumption ==
    /\ UintMax \in Nat /\ UintMax % 2 = 1
    /\ Settings \subseteq Setting
    /\ \A s \in Settings :
        /\ s.num_keys # UintMax => s.num_keys <= IntMax
        /\ s.key_distribution = "zipfian" =>
            s.num_partitions <= s.num_keys /\ s.num_keys <= IntMax
        /\ s.workload = "rotx_put_rr" => s.num_partitions > 1

VARIABLES
    setting,       \* the configuration, which never changes
    state_data,    \* the workload's struct state; <<>> before on_init
    request,       \* the request at the servers, or NoRequest
    request_time,  \* whether client_state.request_time is set
    ticks,         \* CLIENT_TICK events scheduled
    \* history variables
    reads,         \* the partitions of the last keys read, at most one each
    gets,          \* gets in a row before the last put (at most UintMax)
    puts           \* puts in a row (at most UintMax)

vars == <<setting, state_data, request, request_time, ticks, reads, gets, puts>>

NoRequest == [op |-> "none", keys |-> <<>>, at |-> <<>>]

NumPartitions == setting.num_partitions
Partition     == 0 .. NumPartitions - 1

-----------------------------------------------------------------------------
(***************************************************************************)
(* Keys                                                                    *)
(***************************************************************************)
\* The macro inc_range
IncRange(value, min, max) == IF value + 1 > max THEN min ELSE value + 1

\* random_uint, which includes both ends
RandomUint(min, max) == min .. max

\* cluster_new
KeyMax == setting.num_keys

PartitionForKey(key) == key % NumPartitions

\* cluster_random_key: what RandomRange may return, converted to gr_key
RandomKey ==
    IF KeyMax = UintMax THEN {i % KeyRange : i \in -IntMax - 1 .. IntMax}
    ELSE 0 .. KeyMax

\* Faulty: no check for a key that wraps around.
OnPartitionWraps(key, partition) ==
    LET p       == PartitionForKey(key)
        delta   == IF p < partition THEN partition - p
                   ELSE NumPartitions - p + partition
        new_key == (key + delta) % KeyRange
    IN  IF p = partition THEN key
        ELSE IF new_key <= KeyMax THEN new_key
        ELSE partition

\* cluster_random_key_on_partition, for the random key it starts from
OnPartition(key, partition) ==
    LET p       == PartitionForKey(key)
        delta   == IF p < partition THEN partition - p
                   ELSE NumPartitions - p + partition
        new_key == (key + delta) % KeyRange
    IN  IF p = partition THEN key
        ELSE IF new_key > key /\ new_key <= KeyMax THEN new_key
        ELSE partition

\* ROOT-Sim's Zipf: a number up to the limit, the low ones more often
Zipf(limit) == 1 .. limit

\* cluster_random_key_zipf_on_partition
ZipfOnPartition(partition) ==
    LET keys_per_partition == KeyMax \div NumPartitions
    IN  {partition * keys_per_partition + z : z \in Zipf(keys_per_partition)}

\* client_random_key and client_random_key_on_partition, as client_setup chose
\* them: what they may return
ClientRandomKey ==
    IF setting.key_distribution = "uniform" THEN RandomKey ELSE Zipf(KeyMax)

ClientRandomKeyOnPartition(partition) ==
    IF setting.key_distribution = "uniform"
    THEN {OnPartition(key, partition) : key \in RandomKey}
    ELSE ZipfOnPartition(partition)

-----------------------------------------------------------------------------
(***************************************************************************)
(* Requests                                                                *)
(***************************************************************************)
\* The last n elements of s
LastOf(s, n) == IF Len(s) <= n THEN s ELSE SubSeq(s, Len(s) - n + 1, Len(s))

More(n) == IF n = UintMax THEN n ELSE n + 1

\* client_begin_request and client_send.  The keys were chosen to be on the
\* partitions at, if any.
ClientSend(op, keys, at) ==
    /\ request' = [op |-> op, keys |-> keys, at |-> at]
    /\ request_time' = TRUE
    /\ reads' = IF op = "put" THEN reads
                ELSE LastOf(reads \o [i \in DOMAIN keys |-> PartitionForKey(keys[i])],
                            NumPartitions)
    /\ gets' = IF op # "get" THEN gets ELSE IF puts > 0 THEN 1 ELSE More(gets)
    /\ puts' = IF op # "put" THEN 0 ELSE More(puts)

\* Faulty: one get too few.
GetPutTickEarly(s) ==
    LET get == IncRange(s.last_get_partition, 0, NumPartitions - 1)
        put == IncRange(s.last_put_partition, 0, NumPartitions - 1)
    IN  \/ /\ s.num_get_since_put = NumPartitions - 1
           /\ \E key \in ClientRandomKeyOnPartition(put) : ClientSend("put", <<key>>, <<put>>)
           /\ state_data' = [s EXCEPT !.num_get_since_put = 0, !.last_put_partition = put]
        \/ /\ s.num_get_since_put # NumPartitions - 1
           /\ \E key \in ClientRandomKeyOnPartition(get) : ClientSend("get", <<key>>, <<get>>)
           /\ state_data' = [s EXCEPT !.num_get_since_put = @ + 1, !.last_get_partition = get]

\* Faulty: the partition of the last put is not kept.
GetPutTickForgets(s) ==
    LET get == IncRange(s.last_get_partition, 0, NumPartitions - 1)
        put == IncRange(s.last_put_partition, 0, NumPartitions - 1)
    IN  \/ /\ s.num_get_since_put = NumPartitions
           /\ \E key \in ClientRandomKeyOnPartition(put) : ClientSend("put", <<key>>, <<put>>)
           /\ state_data' = [s EXCEPT !.num_get_since_put = 0]
        \/ /\ s.num_get_since_put # NumPartitions
           /\ \E key \in ClientRandomKeyOnPartition(get) : ClientSend("get", <<key>>, <<get>>)
           /\ state_data' = [s EXCEPT !.num_get_since_put = @ + 1, !.last_get_partition = get]

\* tick of get_put_rr
GetPutTick(s) ==
    LET get == IncRange(s.last_get_partition, 0, NumPartitions - 1)
        put == IncRange(s.last_put_partition, 0, NumPartitions - 1)
    IN  \/ /\ s.num_get_since_put = NumPartitions
           /\ \E key \in ClientRandomKeyOnPartition(put) : ClientSend("put", <<key>>, <<put>>)
           /\ state_data' = [s EXCEPT !.num_get_since_put = 0, !.last_put_partition = put]
        \/ /\ s.num_get_since_put # NumPartitions
           /\ \E key \in ClientRandomKeyOnPartition(get) : ClientSend("get", <<key>>, <<get>>)
           /\ state_data' = [s EXCEPT !.num_get_since_put = @ + 1, !.last_get_partition = get]

\* Faulty: inc_range up to num_partitions.
RoundRobinBeyond(partition, n) ==
    [i \in 1 .. n |-> (partition + i - 1) % (NumPartitions + 1)]

\* The n partitions that do_rotx goes through with inc_range
RoundRobin(partition, n) == [i \in 1 .. n |-> (partition + i - 1) % NumPartitions]

\* do_rotx
DoRotx(s) ==
    LET at   == RoundRobin(s.rotx_partition, setting.keys_per_rotx + 1)
        used == SubSeq(at, 1, setting.keys_per_rotx)
        any  == UNION {ClientRandomKeyOnPartition(p) : p \in Partition}
    IN  /\ \E keys \in [DOMAIN used -> any] :
            /\ \A i \in DOMAIN used : keys[i] \in ClientRandomKeyOnPartition(used[i])
            /\ ClientSend("rotx", keys, used)
        /\ state_data' = [s EXCEPT !.rotx_partition = at[Len(at)], !.rotx_count = @ + 1,
                                   !.state = "WAITING_ROTX_RESPONSE"]

\* do_put, and the reset of the counters while put_count is below num_put
DoPut(s) ==
    LET put_count == (s.put_count + 1) % (UintMax + 1)
        counted   == [s EXCEPT
            !.put_partition = IF @ = 0 THEN NumPartitions - 1 ELSE @ - 1,
            !.put_count = put_count,
            !.state = "WAITING_PUT_RESPONSE"]
    IN  /\ \E key \in ClientRandomKeyOnPartition(s.put_partition) :
            ClientSend("put", <<key>>, <<s.put_partition>>)
        /\ state_data' = IF put_count < setting.num_put
                         THEN [counted EXCEPT !.put_count = 0, !.rotx_count = 0]
                         ELSE counted

\* on_tick of rotx_put_rr
RotxPutTick(s) ==
    \/ s.rotx_count < setting.num_rotx /\ DoRotx(s)
    \/ s.rotx_count >= setting.num_rotx /\ DoPut(s)

\* on_tick of probabilistic in state SLEEPING; nothing ever sets
\* RESPONSE_RECEIVED
ProbabilisticTick(s) ==
    /\ s.state = "SLEEPING"
    /\ state_data' = [s EXCEPT !.state = "WAITING_RESPONSE"]
    /\ \/ \E op \in {"get", "put"}, key \in ClientRandomKey : ClientSend(op, <<key>>, <<>>)
       \/ \E keys \in [1 .. setting.keys_per_rotx -> ClientRandomKey] :
            ClientSend("rotx", keys, <<>>)

\* on_tick of the workload, in its state s
Tick(s) ==
    \/ setting.workload = "get_put_rr" /\ GetPutTick(s)
    \/ setting.workload = "rotx_put_rr" /\ RotxPutTick(s)
    \/ setting.workload = "probabilistic" /\ ProbabilisticTick(s)

-----------------------------------------------------------------------------
(***************************************************************************)
(* The client                                                              *)
(***************************************************************************)
Init ==
    /\ setting \in Settings
    /\ state_data = <<>>
    /\ request = NoRequest
    /\ request_time = FALSE
    /\ ticks = 0
    /\ reads = <<>>
    /\ gets = 0
    /\ puts = 0

\* What on_init of each workload may set up
GetPutInit ==
    [last_get_partition : RandomUint(0, NumPartitions),
     last_put_partition : RandomUint(0, NumPartitions),
     num_get_since_put : {0}]

RotxPutInit ==
    [state : {"SLEEPING"}, rotx_partition : RandomUint(0, NumPartitions - 1),
     put_partition : {0}, rotx_count : {0}, put_count : {0}]

ProbabilisticInit == [state : {"SLEEPING"}]

Fresh ==
    CASE setting.workload = "get_put_rr" -> GetPutInit
      [] setting.workload = "rotx_put_rr" -> RotxPutInit
      [] setting.workload = "probabilistic" -> ProbabilisticInit

\* Faulty: on_init both ticks and schedules a tick.
ClientInitTwice ==
    /\ state_data = <<>>
    /\ \E s \in Fresh : Tick(s)
    /\ ticks' = ticks + 1
    /\ UNCHANGED setting

\* client_init: on_init ends with the first tick.
ClientInit ==
    /\ state_data = <<>>
    /\ \E s \in Fresh : Tick(s)
    /\ UNCHANGED <<setting, ticks>>

\* CLIENT_TICK
ClientTick ==
    /\ ticks > 0
    /\ Tick(state_data)
    /\ ticks' = ticks - 1
    /\ UNCHANGED setting

\* on_get_response, on_put_response and on_rotx_response of each workload,
\* which schedule the next tick
GetPutResponse        == UNCHANGED state_data
RotxPutResponse       == state_data' = [state_data EXCEPT !.state = "SLEEPING"]
ProbabilisticResponse == state_data' = [state_data EXCEPT !.state = "SLEEPING"]

\* The response arrives: client_finish_request, then the workload
ClientResponse ==
    /\ request # NoRequest
    /\ request' = NoRequest
    /\ request_time' = FALSE
    /\ ticks' = ticks + 1
    /\ \/ setting.workload = "get_put_rr" /\ GetPutResponse
       \/ setting.workload = "rotx_put_rr" /\ RotxPutResponse
       \/ setting.workload = "probabilistic" /\ ProbabilisticResponse
    /\ UNCHANGED <<setting, reads, gets, puts>>

Next == ClientInit \/ ClientTick \/ ClientResponse

Spec == Init /\ [][Next]_vars

\* The simulator processes every scheduled event, and the servers answer.
FairSpec == Spec /\ WF_vars(ClientInit) /\ WF_vars(ClientTick) /\ WF_vars(ClientResponse)

-----------------------------------------------------------------------------
(***************************************************************************)
(* Properties                                                              *)
(***************************************************************************)
RoundRobins == setting.workload # "probabilistic" /\ setting.key_distribution = "uniform"

\* Every variable has the type its C declaration and use give it.
TypeOK ==
    /\ setting \in Setting
    /\ request_time \in BOOLEAN
    /\ ticks \in Nat
    /\ gets \in 0 .. UintMax
    /\ puts \in 0 .. UintMax
    /\ \A i \in DOMAIN reads : reads[i] \in Partition
    /\ \A i \in DOMAIN request.keys : request.keys[i] \in 0 .. KeyRange - 1
    /\ \A i \in DOMAIN request.at : request.at[i] \in Partition
    /\ state_data # <<>> /\ setting.workload = "rotx_put_rr" =>
        /\ state_data.rotx_partition \in Partition
        /\ state_data.put_partition \in Partition

\* The client never has two requests open, nor a request and a tick, nor a
\* response to a request it has not made, and its workload is in the state that
\* the next event expects: the assertions of client.c:64 and 78 and of
\* rotx_put_rr.c:64, 105 and 115, and the exit of probabilistic.c:50-53.
OneThingAtATime ==
    /\ request_time <=> request # NoRequest
    /\ ticks + (IF request_time THEN 1 ELSE 0) = (IF state_data = <<>> THEN 0 ELSE 1)
    /\ state_data # <<>> /\ setting.workload = "rotx_put_rr" =>
        state_data.state = CASE ticks > 0 -> "SLEEPING"
                             [] request.op = "put" -> "WAITING_PUT_RESPONSE"
                             [] request.op = "rotx" -> "WAITING_ROTX_RESPONSE"
    /\ state_data # <<>> /\ setting.workload = "probabilistic" =>
        state_data.state = IF ticks > 0 THEN "SLEEPING" ELSE "WAITING_RESPONSE"

\* A key that is chosen for a partition is on that partition, also at the end
\* of the range of keys and where gr_key wraps around: the assertion of
\* cluster.c:81.
KeysAreWhereTheyShould ==
    RoundRobins =>
        \A i \in DOMAIN request.at : PartitionForKey(request.keys[i]) = request.at[i]

\* Partitions are read in turn: as many reads in a row as there are partitions
\* read each of them once, across gets, puts and transactions, wherever the
\* random start was; and get_put_rr puts after one such turn (the comment of
\* get_put_rr.c:8-9; get_put_rr.c:26-52, rotx_put_rr.c:39-48).
ReadsInTurn ==
    RoundRobins =>
        /\ \A i, j \in DOMAIN reads : reads[i] = reads[j] => i = j
        /\ setting.workload = "get_put_rr" /\ request.op = "put" => gets = NumPartitions

\* The client never stops, and a workload that goes round writes every
\* partition again and again (get_put_rr.c:29-35, rotx_put_rr.c:50-59).
EveryPartitionIsWritten ==
    /\ []<>request_time
    /\ \A p \in 0 .. IntMax :
        []<>(RoundRobins /\ p \in Partition =>
                /\ request.op = "put"
                /\ PartitionForKey(request.keys[1]) = p)

\* rotx_put_rr puts num_put times between transactions, as its comment says
\* ("Perform num_put put request", rotx_put_rr.c:8-15).
PutsPerLoop ==
    setting.workload = "rotx_put_rr" => puts <= setting.num_put
=============================================================================
