--------------------------- MODULE WorkloadProofs ---------------------------
(***************************************************************************)
(* Proofs about a client and its workload, for every set of configurations *)
(* and every width of unsigned int.                                        *)
(***************************************************************************)
EXTENDS Workload, TLAPS

-----------------------------------------------------------------------------
(***************************************************************************)
(* Keys                                                                    *)
(***************************************************************************)
\* Division with remainder
LEMMA Remainder ==
    ASSUME NEW n \in Nat \ {0}, NEW a \in Int
    PROVE  /\ a % n \in 0 .. n - 1
           /\ a \div n \in Int
           /\ a = n * (a \div n) + (a % n)
  OBVIOUS

\* There is only one remainder.
LEMMA RemainderUnique ==
    ASSUME NEW n \in Nat \ {0}, NEW q \in Int, NEW r \in 0 .. n - 1
    PROVE  (n * q + r) % n = r
<1> DEFINE a == n * q + r
           d == a \div n
<1>1. a \in Int
  OBVIOUS
<1>2. /\ a % n \in 0 .. n - 1
      /\ d \in Int
      /\ a = n * d + (a % n)
  BY <1>1, Remainder
<1>3. n * d \in Int /\ n * q \in Int
  BY <1>2
<1>4. a = n * q + r
  OBVIOUS
<1> HIDE DEF d, a
<1>5. ASSUME d < q PROVE FALSE
  <2>1. n * (d + 1) <= n * q
    BY <1>2, <1>5
  <2>2. n * (d + 1) = n * d + n
    BY <1>2
  <2> QED  BY <1>2, <1>3, <1>4, <2>1, <2>2
<1>6. ASSUME q < d PROVE FALSE
  <2>1. n * (q + 1) <= n * d
    BY <1>2, <1>6
  <2>2. n * (q + 1) = n * q + n
    OBVIOUS
  <2> QED  BY <1>2, <1>3, <1>4, <2>1, <2>2
<1>7. d = q
  BY <1>2, <1>5, <1>6
<1> QED  BY <1>2, <1>3, <1>4, <1>7 DEF a

\* The ranges of the integer types
LEMMA Widths ==
    /\ UintMax \in Nat
    /\ IntMax \in Nat
    /\ IntMax <= UintMax
    /\ KeyRange \in Nat \ {0}
    /\ UintMax < KeyRange
<1>1. UintMax \in Nat
  BY WorkloadAssumption
<1>2. IntMax \in Nat /\ IntMax <= UintMax
  BY <1>1 DEF IntMax
<1>3. KeyRange = UintMax * UintMax + 2 * UintMax + 1
  BY <1>1 DEF KeyRange
<1>4. UintMax * UintMax \in Nat
  BY <1>1
<1> QED  BY <1>1, <1>2, <1>3, <1>4

\* What a configuration fixes
LEMMA SettingType ==
    ASSUME setting \in Settings
    PROVE  /\ setting \in Setting
           /\ NumPartitions \in Nat \ {0}
           /\ NumPartitions <= IntMax
           /\ KeyMax \in Nat
           /\ KeyMax <= UintMax
           /\ setting.keys_per_rotx \in Nat \ {0}
           /\ Partition = 0 .. NumPartitions - 1
  BY Widths, WorkloadAssumption DEF Setting, NumPartitions, KeyMax, Partition

\* cluster_random_key returns a gr_key.
LEMMA RandomKeyType ==
    ASSUME setting \in Settings
    PROVE  RandomKey \subseteq 0 .. KeyRange - 1
<1>1. \A i \in Int : i % KeyRange \in 0 .. KeyRange - 1
  BY Widths, Remainder
<1>2. -IntMax - 1 .. IntMax \subseteq Int
  BY Widths
<1>3. {i % KeyRange : i \in -IntMax - 1 .. IntMax} \subseteq 0 .. KeyRange - 1
  BY <1>1, <1>2
<1>4. 0 .. KeyMax \subseteq 0 .. KeyRange - 1
  BY Widths, SettingType
<1> QED  BY <1>3, <1>4 DEF RandomKey

\* A number of partition p plus the distance to the next one of partition t
LEMMA Shift ==
    ASSUME NEW n \in Nat \ {0}, NEW key \in Nat, NEW t \in 0 .. n - 1,
           NEW delta \in Nat,
           \/ delta = t - (key % n)
           \/ delta = n - (key % n) + t
    PROVE  (key + delta) % n = t
<1> DEFINE p == key % n
           q == key \div n
<1>1. /\ p \in 0 .. n - 1
      /\ q \in Int
      /\ key = n * q + p
  BY Remainder
<1>2. n * q \in Int /\ n * (q + 1) = n * q + n
  BY <1>1
<1> HIDE DEF p, q
<1>3. CASE delta = t - (key % n)
  <2>1. key + delta = n * q + t
    BY <1>1, <1>2, <1>3 DEF p
  <2> QED  BY <1>1, <2>1, RemainderUnique
<1>4. CASE delta = n - (key % n) + t
  <2>1. key + delta = n * (q + 1) + t
    BY <1>1, <1>2, <1>4 DEF p
  <2>2. q + 1 \in Int
    BY <1>1
  <2>3. (n * (q + 1) + t) % n = t
    BY <2>2, RemainderUnique
  <2> QED  BY <2>1, <2>3
<1> QED  BY <1>3, <1>4

\* The assertion of cluster.c:81, for every random key and every partition:
\* the key that cluster_random_key_on_partition returns is on the partition,
\* whether it was moved up, stopped at key_max or wrapped around.
THEOREM KeyOnPartition ==
    ASSUME setting \in Settings,
           NEW key \in 0 .. KeyRange - 1, NEW t \in Partition
    PROVE  PartitionForKey(OnPartition(key, t)) = t
<1> DEFINE n       == NumPartitions
           p       == PartitionForKey(key)
           delta   == IF p < t THEN t - p ELSE n - p + t
           new_key == (key + delta) % KeyRange
<1>1. n \in Nat \ {0} /\ n <= IntMax /\ t \in 0 .. n - 1
  BY SettingType
<1>2. key \in Nat /\ key < KeyRange
  BY Widths
<1>3. p \in 0 .. n - 1 /\ p = key % n
  BY <1>1, <1>2, Remainder DEF PartitionForKey
<1>4. CASE p = t
  BY <1>4 DEF OnPartition
<1>5. CASE p # t
  <2>1. delta \in Nat /\ delta < KeyRange
    BY <1>1, <1>3, <1>5, Widths
  <2>2. t % n = t
    <3>1. t = n * 0 + t
      BY <1>1
    <3> QED  BY <1>1, <3>1, RemainderUnique
  <2>3. CASE new_key > key
    <3>1. new_key = key + delta
      <4>1. CASE key + delta < KeyRange
        <5>1. key + delta = KeyRange * 0 + (key + delta)
          BY <1>2, <2>1, Widths
        <5>2. key + delta \in 0 .. KeyRange - 1
          BY <1>2, <2>1, <4>1, Widths
        <5> QED  BY <5>1, <5>2, RemainderUnique, Widths
      <4>2. CASE key + delta >= KeyRange
        <5> DEFINE w == key + delta - KeyRange
        <5>1. w \in 0 .. KeyRange - 1 /\ w < key
          BY <1>2, <2>1, <4>2, Widths
        <5>2. key + delta = KeyRange * 1 + w
          BY <1>2, <2>1, Widths
        <5>3. new_key = w
          BY <5>1, <5>2, RemainderUnique, Widths
        <5> QED  BY <5>1, <5>3, <2>3, <1>2
      <4> QED  BY <1>2, <2>1, <4>1, <4>2, Widths
    <3>2. (key + delta) % n = t
      BY <1>1, <1>2, <1>3, <2>1, Shift
    <3> QED  BY <1>5, <2>2, <3>1, <3>2 DEF OnPartition, PartitionForKey
  <2>4. CASE ~(new_key > key)
    BY <1>5, <2>2, <2>4 DEF OnPartition, PartitionForKey
  <2> QED  BY <2>3, <2>4
<1> QED  BY <1>4, <1>5

-----------------------------------------------------------------------------
(***************************************************************************)
(* The client                                                              *)
(***************************************************************************)
GetPutData ==
    [last_get_partition : Nat, last_put_partition : Nat, num_get_since_put : Nat]

RotxPutData ==
    [state : {"SLEEPING", "WAITING_PUT_RESPONSE", "WAITING_ROTX_RESPONSE"},
     rotx_partition : Partition, put_partition : Partition,
     rotx_count : Nat, put_count : Nat]

ProbabilisticData == [state : {"SLEEPING", "WAITING_RESPONSE"}]

\* s is what the workload of this configuration keeps.
Data(s) ==
    /\ setting.workload = "get_put_rr" => s \in GetPutData
    /\ setting.workload = "rotx_put_rr" => s \in RotxPutData
    /\ setting.workload = "probabilistic" => s \in ProbabilisticData

\* The keys of request r are on the partitions they were chosen for.
KeysFit(r) ==
    RoundRobins => \A i \in DOMAIN r.at : PartitionForKey(r.keys[i]) = r.at[i]

\* Request r and data s are those of a client that waits for its response.
Waiting(r, s) ==
    /\ r # NoRequest
    /\ setting.workload = "rotx_put_rr" =>
        \/ r.op = "put" /\ s.state = "WAITING_PUT_RESPONSE"
        \/ r.op = "rotx" /\ s.state = "WAITING_ROTX_RESPONSE"
    /\ setting.workload = "probabilistic" => s.state = "WAITING_RESPONSE"

\* The inductive invariant.  The client is in one of three situations, and the
\* data of its workload is good for the event that comes next.
IInv ==
    /\ setting \in Settings
    /\ KeysFit(request)
    /\ \/ /\ state_data = <<>>
          /\ ticks = 0 /\ request = NoRequest /\ request_time = FALSE
       \/ /\ Data(state_data) /\ state_data # <<>>
          /\ ticks = 1 /\ request = NoRequest /\ request_time = FALSE
          /\ setting.workload # "get_put_rr" => state_data.state = "SLEEPING"
       \/ /\ Data(state_data) /\ state_data # <<>>
          /\ ticks = 0 /\ request_time = TRUE
          /\ Waiting(request, state_data)

\* What a workload keeps is not what a client has before on_init.
LEMMA DataNotEmpty ==
    ASSUME setting \in Settings, NEW s, Data(s)
    PROVE  s # <<>>
<1>1. DOMAIN <<>> = {}
  OBVIOUS
<1>2. \/ setting.workload = "get_put_rr"
      \/ setting.workload = "rotx_put_rr"
      \/ setting.workload = "probabilistic"
  BY SettingType DEF Setting
<1>3. CASE setting.workload = "get_put_rr"
  <2>1. "num_get_since_put" \in DOMAIN s
    BY <1>3 DEF Data, GetPutData
  <2> QED  BY <1>1, <2>1
<1>4. CASE setting.workload = "rotx_put_rr"
  <2>1. "state" \in DOMAIN s
    BY <1>4 DEF Data, RotxPutData
  <2> QED  BY <1>1, <2>1
<1>5. CASE setting.workload = "probabilistic"
  <2>1. "state" \in DOMAIN s
    BY <1>5 DEF Data, ProbabilisticData
  <2> QED  BY <1>1, <2>1
<1> QED  BY <1>2, <1>3, <1>4, <1>5

\* A key chosen for a partition, whatever the uniform distribution returns
LEMMA ChosenKey ==
    ASSUME setting \in Settings, setting.key_distribution = "uniform",
           NEW t \in Partition, NEW key \in ClientRandomKeyOnPartition(t)
    PROVE  PartitionForKey(key) = t
<1>1. PICK start \in RandomKey : key = OnPartition(start, t)
  BY DEF ClientRandomKeyOnPartition
<1>2. start \in 0 .. KeyRange - 1
  BY RandomKeyType
<1> QED  BY <1>1, <1>2, KeyOnPartition

\* inc_range over the partitions
LEMMA IncRangeType ==
    ASSUME setting \in Settings, NEW p \in Nat
    PROVE  IncRange(p, 0, NumPartitions - 1) \in Partition
  BY SettingType DEF IncRange

\* A request of one key
LEMMA OneKey ==
    ASSUME setting \in Settings, NEW op \in {"get", "put"},
           NEW t \in Partition, NEW key \in ClientRandomKeyOnPartition(t),
           ClientSend(op, <<key>>, <<t>>)
    PROVE  /\ request' = [op |-> op, keys |-> <<key>>, at |-> <<t>>]
           /\ request'.op = op
           /\ request' # NoRequest
           /\ request_time' = TRUE
           /\ KeysFit(request')
<1>1. request' = [op |-> op, keys |-> <<key>>, at |-> <<t>>] /\ request_time' = TRUE
  BY DEF ClientSend
<1>2. request'.op = op /\ request'.keys = <<key>> /\ request'.at = <<t>>
  BY <1>1
<1>3. request' # NoRequest
  BY <1>2 DEF NoRequest
<1>4. KeysFit(request')
  <2>1. RoundRobins => PartitionForKey(key) = t
    BY ChosenKey DEF RoundRobins
  <2> QED  BY <1>2, <2>1 DEF KeysFit
<1> QED  BY <1>1, <1>2, <1>3, <1>4

\* A tick of get_put_rr sends one request and keeps its data well-formed.
LEMMA GetPutStep ==
    ASSUME setting \in Settings, setting.workload = "get_put_rr",
           NEW s \in GetPutData, GetPutTick(s)
    PROVE  /\ request' # NoRequest /\ request_time' = TRUE
           /\ KeysFit(request')
           /\ state_data' \in GetPutData
<1> DEFINE get == IncRange(s.last_get_partition, 0, NumPartitions - 1)
           put == IncRange(s.last_put_partition, 0, NumPartitions - 1)
<1>1. get \in Partition /\ put \in Partition
  BY IncRangeType DEF GetPutData
<1>2. get \in Nat /\ put \in Nat
  BY <1>1, SettingType
<1>3. CASE s.num_get_since_put = NumPartitions
  <2>1. PICK key \in ClientRandomKeyOnPartition(put) : ClientSend("put", <<key>>, <<put>>)
    BY <1>3 DEF GetPutTick
  <2>2. state_data' = [s EXCEPT !.num_get_since_put = 0, !.last_put_partition = put]
    BY <1>3 DEF GetPutTick
  <2>3. state_data' \in GetPutData
    BY <1>2, <2>2 DEF GetPutData
  <2> QED  BY <1>1, <2>1, <2>3, OneKey
<1>4. CASE s.num_get_since_put # NumPartitions
  <2>1. PICK key \in ClientRandomKeyOnPartition(get) : ClientSend("get", <<key>>, <<get>>)
    BY <1>4 DEF GetPutTick
  <2>2. state_data' = [s EXCEPT !.num_get_since_put = @ + 1, !.last_get_partition = get]
    BY <1>4 DEF GetPutTick
  <2>3. s.num_get_since_put + 1 \in Nat
    BY DEF GetPutData
  <2>4. state_data' \in GetPutData
    <3> HIDE DEF get, put
    <3> QED  BY <1>2, <2>2, <2>3 DEF GetPutData
  <2> QED  BY <1>1, <2>1, <2>4, OneKey
<1> QED  BY <1>3, <1>4

\* do_rotx sends a transaction of keys that are where they should be.
LEMMA RotxStep ==
    ASSUME setting \in Settings, setting.workload = "rotx_put_rr",
           NEW s \in RotxPutData, DoRotx(s)
    PROVE  /\ request' # NoRequest /\ request_time' = TRUE
           /\ request'.op = "rotx" /\ state_data'.state = "WAITING_ROTX_RESPONSE"
           /\ KeysFit(request')
           /\ state_data' \in RotxPutData
<1> DEFINE k    == setting.keys_per_rotx
           at   == RoundRobin(s.rotx_partition, k + 1)
           used == SubSeq(at, 1, k)
<1>1. k \in Nat \ {0} /\ s.rotx_partition \in Nat
  BY SettingType DEF RotxPutData
<1>2. at \in Seq(Partition) /\ Len(at) = k + 1
  <2>1. \A i \in 1 .. k + 1 : (s.rotx_partition + i - 1) % NumPartitions \in Partition
    <3> TAKE i \in 1 .. k + 1
    <3>1. s.rotx_partition + i - 1 \in Int
      BY <1>1
    <3> QED  BY <3>1, SettingType, Remainder
  <2>2. at = [i \in 1 .. k + 1 |-> (s.rotx_partition + i - 1) % NumPartitions]
    BY DEF RoundRobin
  <2> QED  BY <1>1, <2>1, <2>2
<1> HIDE DEF at, k
<1>3. used \in Seq(Partition) /\ DOMAIN used = 1 .. k
  BY <1>1, <1>2
<1>4. PICK keys :
        /\ \A i \in DOMAIN used : keys[i] \in ClientRandomKeyOnPartition(used[i])
        /\ ClientSend("rotx", keys, used)
  BY DEF DoRotx, at, k
<1>5. request' = [op |-> "rotx", keys |-> keys, at |-> used] /\ request_time' = TRUE
  BY <1>4 DEF ClientSend
<1>6. request'.op = "rotx" /\ request'.keys = keys /\ request'.at = used
  BY <1>5
<1>7. request' # NoRequest
  BY <1>6 DEF NoRequest
<1>8. KeysFit(request')
  <2>1. \A i \in DOMAIN used : used[i] \in Partition
    BY <1>3
  <2> QED  BY <1>4, <1>6, <2>1, ChosenKey DEF KeysFit, RoundRobins
<1>9. at[Len(at)] \in Partition
  BY <1>1, <1>2
<1>10. state_data' = [s EXCEPT !.rotx_partition = at[Len(at)], !.rotx_count = @ + 1,
                               !.state = "WAITING_ROTX_RESPONSE"]
  BY DEF DoRotx, at, k
<1>11. state_data' \in RotxPutData /\ state_data'.state = "WAITING_ROTX_RESPONSE"
  <2>1. s.rotx_count + 1 \in Nat
    BY DEF RotxPutData
  <2> HIDE DEF used
  <2> QED  BY <1>9, <1>10, <2>1 DEF RotxPutData
<1> QED  BY <1>5, <1>6, <1>7, <1>8, <1>11

\* do_put sends a put of a key that is where it should be.
LEMMA PutStep ==
    ASSUME setting \in Settings, setting.workload = "rotx_put_rr",
           NEW s \in RotxPutData, DoPut(s)
    PROVE  /\ request' # NoRequest /\ request_time' = TRUE
           /\ request'.op = "put" /\ state_data'.state = "WAITING_PUT_RESPONSE"
           /\ KeysFit(request')
           /\ state_data' \in RotxPutData
<1> DEFINE put_count == (s.put_count + 1) % (UintMax + 1)
           next      == IF s.put_partition = 0 THEN NumPartitions - 1
                        ELSE s.put_partition - 1
           counted   == [s EXCEPT !.put_partition = next, !.put_count = put_count,
                                  !.state = "WAITING_PUT_RESPONSE"]
<1>1. s.put_partition \in Partition /\ s.put_count \in Nat
  BY DEF RotxPutData
<1>2. put_count \in Nat
  BY <1>1, Widths, Remainder
<1>3. next \in Partition
  BY <1>1, SettingType
<1>4. PICK key \in ClientRandomKeyOnPartition(s.put_partition) :
        ClientSend("put", <<key>>, <<s.put_partition>>)
  BY DEF DoPut
<1>5. state_data' = IF put_count < setting.num_put
                    THEN [counted EXCEPT !.put_count = 0, !.rotx_count = 0]
                    ELSE counted
  BY DEF DoPut
<1> HIDE DEF put_count, next
<1>6. counted \in RotxPutData /\ counted.state = "WAITING_PUT_RESPONSE"
  BY <1>2, <1>3 DEF RotxPutData
<1> HIDE DEF counted
<1>7. /\ [counted EXCEPT !.put_count = 0, !.rotx_count = 0] \in RotxPutData
      /\ [counted EXCEPT !.put_count = 0, !.rotx_count = 0].state = "WAITING_PUT_RESPONSE"
  BY <1>6 DEF RotxPutData
<1>8. state_data' \in RotxPutData /\ state_data'.state = "WAITING_PUT_RESPONSE"
  BY <1>5, <1>6, <1>7
<1> QED  BY <1>1, <1>4, <1>8, OneKey

\* A tick of probabilistic sends one request.
LEMMA ProbabilisticStep ==
    ASSUME setting \in Settings, setting.workload = "probabilistic",
           NEW s \in ProbabilisticData, ProbabilisticTick(s)
    PROVE  /\ request' # NoRequest /\ request_time' = TRUE
           /\ state_data'.state = "WAITING_RESPONSE"
           /\ KeysFit(request')
           /\ state_data' \in ProbabilisticData
<1>1. \E op \in {"get", "put", "rotx"} : \E keys : ClientSend(op, keys, <<>>)
  BY DEF ProbabilisticTick
<1> PICK op \in {"get", "put", "rotx"} : \E keys : ClientSend(op, keys, <<>>)
  BY <1>1
<1> PICK keys : ClientSend(op, keys, <<>>)
  OBVIOUS
<1>2. request' = [op |-> op, keys |-> keys, at |-> <<>>] /\ request_time' = TRUE
  BY DEF ClientSend
<1>3. request'.op = op /\ request'.op # "none"
  BY <1>2
<1>4. request' # NoRequest
  BY <1>3 DEF NoRequest
<1>5. state_data' = [s EXCEPT !.state = "WAITING_RESPONSE"]
  BY DEF ProbabilisticTick
<1>6. state_data' \in ProbabilisticData /\ state_data'.state = "WAITING_RESPONSE"
  BY <1>5 DEF ProbabilisticData
<1> QED  BY <1>2, <1>4, <1>6 DEF KeysFit, RoundRobins

\* After a tick of any workload the client waits for one response.
LEMMA TickStep ==
    ASSUME setting \in Settings, NEW s, Data(s), Tick(s)
    PROVE  /\ request_time' = TRUE
           /\ KeysFit(request')
           /\ Waiting(request', state_data')
           /\ Data(state_data')
<1>1. CASE setting.workload = "get_put_rr"
  <2>1. s \in GetPutData /\ GetPutTick(s)
    BY <1>1 DEF Data, Tick
  <2> QED  BY <1>1, <2>1, GetPutStep DEF Waiting, Data
<1>2. CASE setting.workload = "rotx_put_rr"
  <2>1. s \in RotxPutData /\ (DoRotx(s) \/ DoPut(s))
    BY <1>2 DEF Data, Tick, RotxPutTick
  <2>2. CASE DoRotx(s)
    BY <1>2, <2>1, <2>2, RotxStep DEF Waiting, Data
  <2>3. CASE DoPut(s)
    BY <1>2, <2>1, <2>3, PutStep DEF Waiting, Data
  <2> QED  BY <2>1, <2>2, <2>3
<1>3. CASE setting.workload = "probabilistic"
  <2>1. s \in ProbabilisticData /\ ProbabilisticTick(s)
    BY <1>3 DEF Data, Tick
  <2> QED  BY <1>3, <2>1, ProbabilisticStep DEF Waiting, Data
<1> QED  BY <1>1, <1>2, <1>3 DEF Tick

\* What on_init sets up is good for the first tick.
LEMMA FreshData ==
    ASSUME setting \in Settings, NEW s \in Fresh
    PROVE  Data(s)
<1>1. CASE setting.workload = "get_put_rr"
  <2>1. s \in GetPutInit
    BY <1>1 DEF Fresh
  <2>2. 0 .. NumPartitions \subseteq Nat
    BY SettingType
  <2> QED  BY <1>1, <2>1, <2>2 DEF GetPutInit, GetPutData, RandomUint, Data
<1>2. CASE setting.workload = "rotx_put_rr"
  <2>1. s \in RotxPutInit
    BY <1>2 DEF Fresh
  <2>2. 0 .. NumPartitions - 1 \subseteq Partition /\ 0 \in Partition
    BY SettingType
  <2> QED  BY <1>2, <2>1, <2>2 DEF RotxPutInit, RotxPutData, RandomUint, Data
<1>3. CASE setting.workload = "probabilistic"
  <2>1. s \in ProbabilisticInit
    BY <1>3 DEF Fresh
  <2> QED  BY <1>3, <2>1 DEF ProbabilisticInit, ProbabilisticData, Data
<1> QED  BY <1>1, <1>2, <1>3, SettingType DEF Setting

\* Any step of the client keeps the configuration, and what is said about it
\* with it.
LEMMA SettingKept ==
    ASSUME setting' = setting
    PROVE  /\ (setting \in Settings)' <=> setting \in Settings
           /\ KeysFit(request)' <=> KeysFit(request')
           /\ Data(state_data)' <=> Data(state_data')
           /\ Waiting(request, state_data)' <=> Waiting(request', state_data')
<1>1. Partition' = Partition
  BY DEF Partition, NumPartitions
<1>2. KeysFit(request)' <=> KeysFit(request')
  BY DEF KeysFit, RoundRobins, PartitionForKey, NumPartitions
<1>3. Data(state_data)' <=> Data(state_data')
  BY <1>1 DEF Data, GetPutData, RotxPutData, ProbabilisticData
<1>4. Waiting(request, state_data)' <=> Waiting(request', state_data')
  BY DEF Waiting, NoRequest
<1> QED  BY <1>2, <1>3, <1>4

\* The invariant holds at the start.
LEMMA IInvInit ==
    Init => IInv
<1> SUFFICES ASSUME Init PROVE IInv
  OBVIOUS
<1>1. DOMAIN NoRequest.at = {}
  BY DEF NoRequest
<1> QED  BY <1>1 DEF Init, IInv, KeysFit

\* Every step keeps the invariant.
LEMMA IInvStep ==
    IInv /\ [Next]_vars => IInv'
<1> SUFFICES ASSUME IInv, [Next]_vars PROVE IInv'
  OBVIOUS
<1>1. setting \in Settings
  BY DEF IInv
<1>2. setting' = setting
  BY DEF Next, ClientInit, ClientTick, ClientResponse, vars
\* A tick from good data leaves the client waiting.
<1>3. ASSUME NEW s, Data(s), Tick(s), ticks' = 0
      PROVE  IInv'
  <2>1. /\ request_time' = TRUE
        /\ KeysFit(request')
        /\ Waiting(request', state_data')
        /\ Data(state_data')
    BY <1>1, <1>3, TickStep
  <2>2. state_data' # <<>>
    BY <1>1, <2>1, DataNotEmpty
  <2> QED  BY <1>1, <1>2, <1>3, <2>1, <2>2, SettingKept DEF IInv
<1>4. CASE ClientInit
  <2>1. PICK s \in Fresh : Tick(s)
    BY <1>4 DEF ClientInit
  <2>2. Data(s)
    BY <1>1, FreshData
  <2>3. ticks' = 0
    BY <1>4 DEF ClientInit, IInv
  <2> QED  BY <1>3, <2>1, <2>2, <2>3
<1>5. CASE ClientTick
  <2>1. ticks = 1 /\ Data(state_data)
    BY <1>5 DEF ClientTick, IInv
  <2>2. Tick(state_data) /\ ticks' = 0
    BY <1>5, <2>1 DEF ClientTick
  <2> QED  BY <1>3, <2>1, <2>2
<1>6. CASE ClientResponse
  <2>1. request # NoRequest /\ request' = NoRequest /\ request_time' = FALSE
    BY <1>6 DEF ClientResponse
  <2>2. ticks = 0 /\ Data(state_data)
    BY <2>1 DEF IInv
  <2>3. ticks' = 1
    BY <1>6, <2>2 DEF ClientResponse
  <2>4. KeysFit(request')
    <3>1. DOMAIN NoRequest.at = {}
      BY DEF NoRequest
    <3> QED  BY <2>1, <3>1 DEF KeysFit
  <2>5. /\ Data(state_data')
        /\ setting.workload # "get_put_rr" => state_data'.state = "SLEEPING"
    <3>1. CASE setting.workload = "get_put_rr"
      <4>1. state_data' = state_data
        BY <1>6, <3>1 DEF ClientResponse, GetPutResponse
      <4> QED  BY <2>2, <3>1, <4>1
    <3>2. CASE setting.workload = "rotx_put_rr"
      <4>1. state_data' = [state_data EXCEPT !.state = "SLEEPING"]
        BY <1>6, <3>2 DEF ClientResponse, RotxPutResponse
      <4>2. state_data \in RotxPutData
        BY <2>2, <3>2 DEF Data
      <4>3. state_data' \in RotxPutData /\ state_data'.state = "SLEEPING"
        BY <4>1, <4>2 DEF RotxPutData
      <4> QED  BY <3>2, <4>3 DEF Data
    <3>3. CASE setting.workload = "probabilistic"
      <4>1. state_data' = [state_data EXCEPT !.state = "SLEEPING"]
        BY <1>6, <3>3 DEF ClientResponse, ProbabilisticResponse
      <4>2. state_data \in ProbabilisticData
        BY <2>2, <3>3 DEF Data
      <4>3. state_data' \in ProbabilisticData /\ state_data'.state = "SLEEPING"
        BY <4>1, <4>2 DEF ProbabilisticData
      <4> QED  BY <3>3, <4>3 DEF Data
    <3> QED  BY <1>1, <3>1, <3>2, <3>3, SettingType DEF Setting
  <2>6. state_data' # <<>>
    BY <1>1, <2>5, DataNotEmpty
  <2>7. NoRequest' = NoRequest
    BY DEF NoRequest
  <2> QED
    BY <1>1, <1>2, <2>1, <2>3, <2>4, <2>5, <2>6, <2>7, SettingKept DEF IInv
<1>7. CASE UNCHANGED vars
  <2>1. /\ request' = request /\ request_time' = request_time
        /\ state_data' = state_data /\ ticks' = ticks
    BY <1>7 DEF vars
  <2>2. NoRequest' = NoRequest
    BY DEF NoRequest
  <2> QED  BY <1>2, <2>1, <2>2, SettingKept DEF IInv
<1> QED  BY <1>4, <1>5, <1>6, <1>7 DEF Next

\* The invariant holds in every reachable state.
LEMMA Inductive ==
    Spec => []IInv
  BY IInvInit, IInvStep, PTL DEF Spec

\* For every set of configurations, the client never has two requests open,
\* nor a request and a tick, nor a response to a request it has not made, and
\* its workload is in the state that the next event expects: the assertions of
\* client.c:64 and 78 and of rotx_put_rr.c:64, 105 and 115, and the exit of
\* probabilistic.c:50-53, never fail.
THEOREM OneThing ==
    Spec => []OneThingAtATime
<1>1. IInv => OneThingAtATime
  <2> SUFFICES ASSUME IInv PROVE OneThingAtATime
    OBVIOUS
  <2>1. CASE state_data = <<>>
    BY <2>1 DEF IInv, OneThingAtATime
  <2>2. CASE state_data # <<>> /\ ticks = 1
    <3>1. request = NoRequest /\ request_time = FALSE
      BY <2>2 DEF IInv
    <3>2. setting.workload # "get_put_rr" => state_data.state = "SLEEPING"
      BY <2>2 DEF IInv
    <3>3. request.op = "none" /\ ticks > 0
      BY <2>2, <3>1 DEF NoRequest
    <3>4. "SLEEPING" = CASE ticks > 0 -> "SLEEPING"
                         [] request.op = "put" -> "WAITING_PUT_RESPONSE"
                         [] request.op = "rotx" -> "WAITING_ROTX_RESPONSE"
      BY <3>3
    <3> QED  BY <2>2, <3>1, <3>2, <3>3, <3>4 DEF OneThingAtATime
  <2>3. CASE state_data # <<>> /\ ticks = 0
    <3>1. request_time = TRUE /\ Waiting(request, state_data)
      BY <2>3 DEF IInv
    <3> QED  BY <2>3, <3>1 DEF OneThingAtATime, Waiting
  <2> QED  BY <2>1, <2>2, <2>3 DEF IInv
<1> QED  BY <1>1, Inductive, PTL

\* For every number of partitions and of keys and every width of unsigned int,
\* a key that a workload chooses for a partition is on that partition, also
\* where gr_key wraps around: the assertion of cluster.c:81 never fails.
THEOREM KeysInPlace ==
    Spec => []KeysAreWhereTheyShould
<1>1. IInv => KeysAreWhereTheyShould
  BY DEF IInv, KeysFit, KeysAreWhereTheyShould
<1> QED  BY <1>1, Inductive, PTL

-----------------------------------------------------------------------------
(***************************************************************************)
(* Going round the partitions                                              *)
(***************************************************************************)
\* Adding to a remainder
LEMMA RemainderPlus ==
    ASSUME NEW n \in Nat \ {0}, NEW a \in Int, NEW b \in Int
    PROVE  ((a % n) + b) % n = (a + b) % n
<1> DEFINE x == (a % n) + b
           q == a \div n
           r == x % n
           d == x \div n
<1>1. a % n \in Int /\ q \in Int /\ a = n * q + (a % n)
  BY Remainder
<1>2. x \in Int
  BY <1>1
<1>3. r \in 0 .. n - 1 /\ d \in Int /\ x = n * d + r
  BY <1>2, Remainder
<1>4. a + b = n * q + x
  BY <1>1
<1> HIDE DEF q, x, r, d
<1>5. n * q \in Int /\ n * d \in Int /\ n * (q + d) = n * q + n * d /\ q + d \in Int
  BY <1>1, <1>3
<1>6. a + b = n * (q + d) + r
  BY <1>3, <1>4, <1>5
<1>7. (n * (q + d) + r) % n = r
  BY <1>3, <1>5, RemainderUnique
<1> QED  BY <1>6, <1>7 DEF r, x

\* A number is its own remainder when it is small enough.
LEMMA RemainderSmall ==
    ASSUME NEW n \in Nat \ {0}, NEW a \in 0 .. n - 1
    PROVE  a % n = a
<1>1. a = n * 0 + a
  OBVIOUS
<1> QED  BY <1>1, RemainderUnique

\* Numbers less than n apart have different remainders.
LEMMA RemaindersDiffer ==
    ASSUME NEW n \in Nat \ {0}, NEW a \in Int, NEW b \in Int, a < b, b < a + n
    PROVE  a % n # b % n
<1> SUFFICES ASSUME a % n = b % n PROVE FALSE
  OBVIOUS
<1> DEFINE r == a % n
           d == a \div n
           e == b \div n
<1>1. r \in 0 .. n - 1 /\ d \in Int /\ a = n * d + r
  BY Remainder
<1>2. e \in Int /\ b = n * e + r
  BY Remainder
<1>3. n * d \in Int /\ n * e \in Int
  BY <1>1, <1>2
<1> HIDE DEF r, d, e
<1>4. n * d < n * e /\ n * e < n * d + n
  BY <1>1, <1>2, <1>3
<1>5. CASE e <= d
  <2>1. n * e <= n * d
    BY <1>1, <1>2, <1>5
  <2> QED  BY <1>3, <1>4, <2>1
<1>6. CASE e >= d + 1
  <2>1. n * (d + 1) <= n * e
    BY <1>1, <1>2, <1>6
  <2>2. n * (d + 1) = n * d + n
    BY <1>1
  <2> QED  BY <1>3, <1>4, <2>1, <2>2
<1> QED  BY <1>1, <1>2, <1>5, <1>6

\* rd goes round n partitions, and p comes next.
Turn(n, rd, p) ==
    \E c \in Nat :
        /\ \A i \in 1 .. Len(rd) : rd[i] = (c + i) % n
        /\ p = (c + Len(rd) + 1) % n

\* Before anything is read, any partition may come next.
LEMMA TurnBegins ==
    ASSUME NEW n \in Nat \ {0}, NEW p \in 0 .. n - 1
    PROVE  Turn(n, <<>>, p)
<1> DEFINE c == n + p - 1
<1>1. c \in Nat /\ Len(<<>>) = 0 /\ c + 0 + 1 = n * 1 + p
  OBVIOUS
<1>2. (n * 1 + p) % n = p
  BY RemainderUnique
<1> HIDE DEF c
<1>3. p = (c + Len(<<>>) + 1) % n
  BY <1>1, <1>2
<1>4. \A i \in 1 .. Len(<<>>) : <<>>[i] = (c + i) % n
  BY <1>1
<1> QED  BY <1>1, <1>3, <1>4 DEF Turn

\* One turn reads no partition twice.
LEMMA TurnIsInjective ==
    ASSUME NEW n \in Nat \ {0}, NEW rd \in Seq(Nat), NEW p, Turn(n, rd, p), Len(rd) <= n,
           NEW i \in 1 .. Len(rd), NEW j \in 1 .. Len(rd), rd[i] = rd[j]
    PROVE  i = j
<1>1. PICK c \in Nat : \A k \in 1 .. Len(rd) : rd[k] = (c + k) % n
  BY DEF Turn
<1>2. (c + i) % n = (c + j) % n
  BY <1>1
<1>3. Len(rd) \in Nat /\ i \in Nat /\ j \in Nat /\ i >= 1 /\ j >= 1 /\ i <= n /\ j <= n
  OBVIOUS
<1> DEFINE a == c + i
           b == c + j
<1>4. a \in Int /\ b \in Int /\ a < b + n /\ b < a + n /\ (a < b \/ b < a \/ i = j)
  BY <1>3
<1>5. a % n = b % n
  BY <1>2
<1> HIDE DEF a, b
<1> QED  BY <1>4, <1>5, RemaindersDiffer

\* Reading k partitions in a row goes on with the turn, of which the last
\* ones are kept.
LEMMA TurnGoesOn ==
    ASSUME NEW n \in Nat \ {0}, NEW rd \in Seq(Nat), NEW p \in 0 .. n - 1, Turn(n, rd, p),
           NEW k \in Nat, NEW at \in Seq(Nat), Len(at) = k,
           \A i \in 1 .. k : at[i] = (p + i - 1) % n
    PROVE  /\ Turn(n, LastOf(rd \o at, n), (p + k) % n)
           /\ Len(LastOf(rd \o at, n)) <= n
<1> DEFINE m == Len(rd)
           x == rd \o at
           y == LastOf(x, n)
           d == IF m + k <= n THEN 0 ELSE m + k - n
<1>1. m \in Nat /\ x \in Seq(Nat) /\ Len(x) = m + k
  <2>1. rd \in Seq(Nat) /\ at \in Seq(Nat)
    OBVIOUS
  <2>2. m \in Nat
    BY ONLY <2>1
  <2>3. x \in Seq(Nat) /\ Len(x) = Len(rd) + Len(at)
    BY ONLY <2>1
  <2> QED  BY <2>2, <2>3
<1>2. PICK c \in Nat : /\ \A i \in 1 .. m : rd[i] = (c + i) % n
                       /\ p = (c + m + 1) % n
  BY DEF Turn
<1>3. ASSUME NEW i \in 1 .. m + k
      PROVE  x[i] = (c + i) % n
  <2>1. CASE i <= m
    <3>1. x[i] = rd[i]
      BY <1>1, <2>1
    <3> QED  BY <1>1, <1>2, <2>1, <3>1
  <2>2. CASE i > m
    <3> DEFINE j == i - m
    <3>1. j \in 1 .. k /\ x[i] = at[j]
      BY <1>1, <2>2
    <3>2. at[j] = (p + (j - 1)) % n
      <4>1. at[j] = (p + j - 1) % n
        BY <3>1
      <4>2. p + j - 1 = p + (j - 1)
        BY <3>1
      <4> QED  BY <4>1, <4>2
    <3>3. (p + (j - 1)) % n = (c + m + 1 + (j - 1)) % n
      <4>1. c + m + 1 \in Int /\ j - 1 \in Int
        BY <1>1, <3>1
      <4> QED  BY <1>2, <4>1, RemainderPlus
    <3>4. c + m + 1 + (j - 1) = c + i
      BY <1>1
    <3> QED  BY <3>1, <3>2, <3>3, <3>4
  <2> QED  BY <1>1, <2>1, <2>2
<1>4. (p + k) % n = (c + m + k + 1) % n
  <2> DEFINE e == c + m + 1
  <2>1. e \in Int /\ k \in Int /\ p = e % n
    BY <1>1, <1>2
  <2> HIDE DEF e
  <2>2. (p + k) % n = (e + k) % n
    BY <2>1, RemainderPlus
  <2>3. e + k = c + m + k + 1
    BY <1>1 DEF e
  <2> QED  BY <2>2, <2>3
<1> HIDE DEF x, m
<1>5. /\ d \in Nat /\ Len(y) = m + k - d /\ Len(y) <= n
      /\ \A i \in 1 .. m + k - d : y[i] = x[i + d]
  <2>1. CASE m + k <= n
    BY <1>1, <2>1 DEF LastOf
  <2>2. CASE m + k > n
    <3> DEFINE a == m + k - n + 1
               b == m + k
    <3>1. y = SubSeq(x, a, b)
      BY <1>1, <2>2 DEF LastOf
    <3>2. a \in Nat /\ b \in Nat /\ 1 <= a /\ a <= b /\ b <= Len(x) /\ d = a - 1 /\ d \in Nat
          /\ b - a + 1 = m + k - d /\ m + k - d = n
      BY <1>1, <2>2
    <3> HIDE DEF a, b, d
    <3>3. Len(SubSeq(x, a, b)) = b - a + 1 /\ \A i \in 1 .. b - a + 1 : SubSeq(x, a, b)[i] = x[a + i - 1]
      BY ONLY <1>1, <3>2
    <3>4. \A i \in 1 .. b - a + 1 : a + i - 1 = i + d
      BY ONLY <3>2
    <3> QED  BY <3>1, <3>2, <3>3, <3>4
  <2> QED  BY <1>1, <2>1, <2>2
<1> HIDE DEF y, d
<1>6. c + d \in Nat
  BY <1>5
<1>7. ASSUME NEW i \in 1 .. Len(y)
      PROVE  y[i] = (c + d + i) % n
  <2>1. i + d \in 1 .. m + k /\ y[i] = x[i + d]
    BY <1>1, <1>5
  <2>2. c + (i + d) = c + d + i
    BY <1>5
  <2> QED  BY <1>3, <2>1, <2>2
<1>8. c + d + Len(y) + 1 = c + m + k + 1
  BY <1>1, <1>5
<1>9. Turn(n, y, (p + k) % n)
  BY <1>4, <1>6, <1>7, <1>8 DEF Turn
<1> QED  BY <1>5, <1>9 DEF y, x

-----------------------------------------------------------------------------
(***************************************************************************)
(* The second half of the invariant: the history of the requests           *)
(***************************************************************************)
\* The partition that a workload with data s reads next
NextRead(s) ==
    IF setting.workload = "get_put_rr" THEN IncRange(s.last_get_partition, 0, NumPartitions - 1)
    ELSE s.rotx_partition

\* What has been read is the turn that the data goes on with.
TurnOk(s, rd) == RoundRobins => Len(rd) <= NumPartitions /\ Turn(NumPartitions, rd, NextRead(s))

\* get_put_rr counts its gets, g in a row, and p puts after them.
CountOk(s, g, p) ==
    setting.workload = "get_put_rr" =>
        /\ s.num_get_since_put <= NumPartitions
        /\ s.num_get_since_put > 0 => g = s.num_get_since_put /\ p = 0
        /\ s.num_get_since_put = 0 => p > 0 \/ g = 0

\* Request r is well-formed, and a put of get_put_rr comes after g gets.
RequestOk(r, g) ==
    /\ \A i \in DOMAIN r.keys : r.keys[i] \in 0 .. KeyRange - 1
    /\ \A i \in DOMAIN r.at : r.at[i] \in Partition
    /\ setting.workload = "get_put_rr" /\ r.op = "put" => g = NumPartitions

HistoryOk ==
    /\ reads \in Seq(Partition)
    /\ gets \in 0 .. UintMax
    /\ puts \in 0 .. UintMax
    /\ RequestOk(request, gets)
    /\ state_data = <<>> => reads = <<>> /\ gets = 0 /\ puts = 0
    /\ state_data # <<>> => TurnOk(state_data, reads) /\ CountOk(state_data, gets, puts)

\* Any key a client may choose is a gr_key.
LEMMA KeyTypes ==
    ASSUME setting \in Settings
    PROVE  /\ ClientRandomKey \subseteq 0 .. KeyRange - 1
           /\ \A t \in Partition : ClientRandomKeyOnPartition(t) \subseteq 0 .. KeyRange - 1
<1>1. CASE setting.key_distribution = "uniform"
  <2>1. ASSUME NEW t \in Partition, NEW key \in RandomKey
        PROVE  OnPartition(key, t) \in 0 .. KeyRange - 1
    <3> DEFINE p       == PartitionForKey(key)
               delta   == IF p < t THEN t - p ELSE NumPartitions - p + t
               new_key == (key + delta) % KeyRange
    <3>1. key \in 0 .. KeyRange - 1 /\ key \in Int
      BY RandomKeyType, Widths
    <3>2. p \in 0 .. NumPartitions - 1
      BY <3>1, SettingType, Remainder DEF PartitionForKey
    <3>3. delta \in Int
      BY <3>2, SettingType
    <3>4. new_key \in 0 .. KeyRange - 1
      <4>1. key + delta \in Int
        BY <3>1, <3>3
      <4> QED  BY <4>1, Widths, Remainder
    <3>5. t \in 0 .. KeyRange - 1
      BY SettingType, Widths
    <3>6. \/ OnPartition(key, t) = key
          \/ OnPartition(key, t) = new_key
          \/ OnPartition(key, t) = t
      BY DEF OnPartition
    <3> HIDE DEF new_key
    <3> QED  BY <3>1, <3>4, <3>5, <3>6
  <2> QED  BY <1>1, <2>1, RandomKeyType DEF ClientRandomKey, ClientRandomKeyOnPartition
<1>2. CASE setting.key_distribution # "uniform"
  <2> DEFINE n == NumPartitions
             w == KeyMax \div n
  <2>1. n \in Nat \ {0} /\ KeyMax \in Nat /\ KeyMax < KeyRange /\ KeyRange \in Nat
    BY SettingType, Widths
  <2>2. KeyMax % n \in 0 .. n - 1 /\ w \in Int /\ KeyMax = n * w + (KeyMax % n)
    BY <2>1, Remainder
  <2>3. n * w \in Int /\ n * w <= KeyMax
    BY <2>1, <2>2
  <2>4. ASSUME NEW t \in Partition, NEW z \in 1 .. w
        PROVE  t * w + z \in 0 .. KeyRange - 1
    <3>1. t \in Nat /\ t <= n - 1
      BY <2>1, SettingType
    <3>2. w \in Nat /\ z \in Nat /\ z <= w
      BY <2>2
    <3> HIDE DEF n, w
    <3>3. t * w \in Nat
      BY <3>1, <3>2
    <3>4. t * w <= (n - 1) * w
      BY <2>1, <3>1, <3>2
    <3>5. (n - 1) * w = n * w - w
      BY <2>1, <3>2
    <3>6. t * w + z <= n * w
      BY <2>3, <3>2, <3>3, <3>4, <3>5
    <3> QED  BY <2>1, <2>3, <3>2, <3>3, <3>6
  <2>5. Zipf(KeyMax) \subseteq 0 .. KeyRange - 1
    BY <2>1 DEF Zipf
  <2> QED
    BY <1>2, <2>4, <2>5
    DEF ClientRandomKey, ClientRandomKeyOnPartition, ZipfOnPartition, Zipf
<1> QED  BY <1>1, <1>2

\* inc_range from a partition goes on to the next one.
LEMMA IncRangeIs ==
    ASSUME setting \in Settings, NEW p \in Partition
    PROVE  IncRange(p, 0, NumPartitions - 1) = (p + 1) % NumPartitions
<1> DEFINE n == NumPartitions
<1>1. n \in Nat \ {0} /\ p \in 0 .. n - 1
  BY SettingType
<1>2. CASE p + 1 > n - 1
  <2>1. p + 1 = n * 1 + 0
    BY <1>1, <1>2
  <2>2. (n * 1 + 0) % n = 0
    BY <1>1, RemainderUnique
  <2> QED  BY <1>2, <2>1, <2>2 DEF IncRange
<1>3. CASE ~(p + 1 > n - 1)
  <2>1. p + 1 \in 0 .. n - 1
    BY <1>1, <1>3
  <2> QED  BY <1>1, <1>3, <2>1, RemainderSmall DEF IncRange
<1> QED  BY <1>2, <1>3

\* A read appends the partitions of its keys to the history.
LEMMA Appended ==
    ASSUME NEW op, op # "put", NEW keys, NEW at, NEW k \in Nat, DOMAIN keys = 1 .. k,
           ClientSend(op, keys, at)
    PROVE  reads' = LastOf(reads \o [i \in 1 .. k |-> PartitionForKey(keys[i])], NumPartitions)
BY DEF ClientSend

\* What sending a request does to the history
LEMMA Sent ==
    ASSUME setting \in Settings, reads \in Seq(Partition),
           gets \in 0 .. UintMax, puts \in 0 .. UintMax,
           NEW op \in {"get", "put", "rotx"}, NEW keys, NEW at, NEW k \in Nat,
           keys \in [1 .. k -> 0 .. KeyRange - 1],
           \A i \in DOMAIN at : at[i] \in Partition,
           ClientSend(op, keys, at)
    PROVE  /\ request'.op = op /\ request'.keys = keys /\ request'.at = at
           /\ reads' \in Seq(Partition)
           /\ gets' \in 0 .. UintMax
           /\ puts' \in 0 .. UintMax
           /\ op = "put" => reads' = reads /\ gets' = gets /\ puts' > 0
           /\ op = "get" => /\ puts' = 0
                            /\ puts > 0 => gets' = 1
                            /\ puts = 0 /\ gets < UintMax => gets' = gets + 1
<1> DEFINE n   == NumPartitions
           new == [i \in 1 .. k |-> PartitionForKey(keys[i])]
<1>1. request' = [op |-> op, keys |-> keys, at |-> at]
  BY DEF ClientSend
<1>2. DOMAIN keys = 1 .. k
  OBVIOUS
<1>3. new \in Seq(Partition)
  <2>1. \A i \in 1 .. k : PartitionForKey(keys[i]) \in Partition
    <3> TAKE i \in 1 .. k
    <3>1. keys[i] \in Int
      BY Widths
    <3> QED  BY <3>1, SettingType, Remainder DEF PartitionForKey
  <2> QED  BY <2>1
<1>4. op # "put" => reads' = LastOf(reads \o new, n)
  BY <1>2 DEF ClientSend
<1>5. op = "put" => reads' = reads
  BY DEF ClientSend
<1>6. reads' \in Seq(Partition)
  <2> DEFINE x == reads \o new
  <2>1. x \in Seq(Partition) /\ Len(x) \in Nat
    BY <1>3
  <2> HIDE DEF x
  <2>2. n \in Nat
    BY SettingType
  <2>3. LastOf(x, n) \in Seq(Partition)
    <3>1. CASE Len(x) <= n
      BY <2>1, <3>1 DEF LastOf
    <3>2. CASE Len(x) > n
      <4>1. LastOf(x, n) = SubSeq(x, Len(x) - n + 1, Len(x))
        BY <2>1, <2>2, <3>2 DEF LastOf
      <4> QED  BY <2>1, <2>2, <3>2, <4>1
    <3> QED  BY <2>1, <2>2, <3>1, <3>2
  <2> QED  BY <1>4, <1>5, <2>3 DEF x
<1>7. UintMax \in Nat /\ UintMax >= 1
  BY Widths, SettingType
<1>8. /\ gets' = IF op # "get" THEN gets ELSE IF puts > 0 THEN 1 ELSE More(gets)
      /\ puts' = IF op # "put" THEN 0 ELSE More(puts)
  BY DEF ClientSend
<1>9. /\ gets' \in 0 .. UintMax /\ puts' \in 0 .. UintMax
      /\ op = "put" => gets' = gets /\ puts' > 0
      /\ op = "get" => /\ puts' = 0
                       /\ puts > 0 => gets' = 1
                       /\ puts = 0 /\ gets < UintMax => gets' = gets + 1
  BY ONLY <1>7, <1>8, gets \in 0 .. UintMax, puts \in 0 .. UintMax,
          op \in {"get", "put", "rotx"} DEF More
<1> QED  BY <1>1, <1>4, <1>5, <1>6, <1>9

\* The same for a read-only transaction of k keys
KeysOk(keys, k) == keys \in [1 .. k -> 0 .. KeyRange - 1]
PlacesOk(at)    == \A i \in DOMAIN at : at[i] \in Partition
RotxSent(keys, at) ==
    /\ request'.op = "rotx" /\ request'.keys = keys /\ request'.at = at
    /\ reads' \in Seq(Partition) /\ gets' \in 0 .. UintMax /\ puts' \in 0 .. UintMax

LEMMA SentRotx ==
    ASSUME setting \in Settings, reads \in Seq(Partition),
           gets \in 0 .. UintMax, puts \in 0 .. UintMax,
           NEW keys, NEW at, NEW k \in Nat, KeysOk(keys, k), PlacesOk(at),
           ClientSend("rotx", keys, at)
    PROVE  RotxSent(keys, at)
<1> DEFINE op == "rotx"
<1>1. /\ op \in {"get", "put", "rotx"} /\ ClientSend(op, keys, at)
      /\ keys \in [1 .. k -> 0 .. KeyRange - 1]
      /\ \A i \in DOMAIN at : at[i] \in Partition
  BY DEF KeysOk, PlacesOk
<1> HIDE DEF op
<1>2. /\ request'.op = op /\ request'.keys = keys /\ request'.at = at
      /\ reads' \in Seq(Partition) /\ gets' \in 0 .. UintMax /\ puts' \in 0 .. UintMax
  BY <1>1, Sent
<1> QED  BY <1>2 DEF op, RotxSent

\* What a tick finds, and leaves, of the history
Before(s) ==
    /\ reads \in Seq(Partition) /\ gets \in 0 .. UintMax /\ puts \in 0 .. UintMax
    /\ TurnOk(s, reads) /\ CountOk(s, gets, puts)

After ==
    /\ reads' \in Seq(Partition) /\ gets' \in 0 .. UintMax /\ puts' \in 0 .. UintMax
    /\ TurnOk(state_data', reads') /\ CountOk(state_data', gets', puts')
    /\ RequestOk(request', gets')

LEMMA GetPutHistory ==
    ASSUME setting \in Settings, setting.workload = "get_put_rr",
           NEW s \in GetPutData, Before(s), GetPutTick(s)
    PROVE  After
<1> DEFINE n   == NumPartitions
           get == IncRange(s.last_get_partition, 0, n - 1)
           put == IncRange(s.last_put_partition, 0, n - 1)
<1>1. get \in Partition /\ put \in Partition
  BY IncRangeType DEF GetPutData
<1>2. n \in Nat \ {0} /\ n <= UintMax /\ UintMax \in Nat
  BY SettingType, Widths
<1>3. CASE s.num_get_since_put = n
  <2>1. PICK key \in ClientRandomKeyOnPartition(put) : ClientSend("put", <<key>>, <<put>>)
    BY <1>3 DEF GetPutTick
  <2>2. state_data' = [s EXCEPT !.num_get_since_put = 0, !.last_put_partition = put]
    BY <1>3 DEF GetPutTick
  <2>3. /\ state_data'.num_get_since_put = 0
        /\ state_data'.last_get_partition = s.last_get_partition
    BY <2>2 DEF GetPutData
  <2>4. <<key>> \in [1 .. 1 -> 0 .. KeyRange - 1]
    <3>1. key \in 0 .. KeyRange - 1
      BY <1>1, KeyTypes
    <3> QED  BY <3>1
  <2>5. \A i \in DOMAIN <<put>> : <<put>>[i] \in Partition
    BY <1>1
  <2> DEFINE new == [i \in 1 .. 1 |-> PartitionForKey(<<key>>[i])]
  <2>6. /\ request'.op = "put" /\ request'.keys = <<key>> /\ request'.at = <<put>>
        /\ reads' \in Seq(Partition) /\ gets' \in 0 .. UintMax /\ puts' \in 0 .. UintMax
        /\ reads' = reads /\ gets' = gets /\ puts' > 0
    BY <2>1, <2>4, <2>5, Sent DEF Before
  <2>7. gets = n
    BY <1>2, <1>3 DEF Before, CountOk
  <2>8. RequestOk(request', gets')
    BY <2>4, <2>5, <2>6, <2>7 DEF RequestOk
  <2>9. CountOk(state_data', gets', puts')
    BY <1>2, <2>3, <2>6 DEF CountOk
  <2>10. TurnOk(state_data', reads')
    BY <2>3, <2>6 DEF TurnOk, NextRead, Before
  <2> QED  BY <2>6, <2>8, <2>9, <2>10 DEF After
<1>4. CASE s.num_get_since_put # n
  <2>1. PICK key \in ClientRandomKeyOnPartition(get) : ClientSend("get", <<key>>, <<get>>)
    BY <1>4 DEF GetPutTick
  <2>2. state_data' = [s EXCEPT !.num_get_since_put = @ + 1, !.last_get_partition = get]
    BY <1>4 DEF GetPutTick
  <2>3. /\ state_data'.num_get_since_put = s.num_get_since_put + 1
        /\ state_data'.last_get_partition = get
    BY <2>2 DEF GetPutData
  <2>4. <<key>> \in [1 .. 1 -> 0 .. KeyRange - 1]
    <3>1. key \in 0 .. KeyRange - 1
      BY <1>1, KeyTypes
    <3> QED  BY <3>1
  <2>5. \A i \in DOMAIN <<get>> : <<get>>[i] \in Partition
    BY <1>1
  <2> DEFINE at == [i \in 1 .. 1 |-> PartitionForKey(<<key>>[i])]
  <2>6. /\ request'.op = "get" /\ request'.keys = <<key>> /\ request'.at = <<get>>
        /\ reads' \in Seq(Partition) /\ gets' \in 0 .. UintMax /\ puts' \in 0 .. UintMax
        /\ puts' = 0
        /\ puts > 0 => gets' = 1
        /\ puts = 0 /\ gets < UintMax => gets' = gets + 1
        /\ reads' = LastOf(reads \o at, n)
    <3> DEFINE keys == <<key>>
               on   == <<get>>
               op   == "get"
               one  == 1
    <3>1. /\ keys \in [1 .. one -> 0 .. KeyRange - 1] /\ \A i \in DOMAIN on : on[i] \in Partition
          /\ ClientSend(op, keys, on) /\ one \in Nat /\ op \in {"get", "put", "rotx"}
          /\ op = "get"
          /\ at = [i \in 1 .. one |-> PartitionForKey(keys[i])]
      BY <2>1, <2>4, <2>5
    <3>2. reads \in Seq(Partition) /\ gets \in 0 .. UintMax /\ puts \in 0 .. UintMax
      BY DEF Before
    <3> HIDE DEF keys, on, at, one, op
    <3>3. /\ request'.op = "get" /\ request'.keys = keys /\ request'.at = on
          /\ reads' \in Seq(Partition) /\ gets' \in 0 .. UintMax /\ puts' \in 0 .. UintMax
          /\ puts' = 0
          /\ puts > 0 => gets' = 1
          /\ puts = 0 /\ gets < UintMax => gets' = gets + 1
      BY ONLY <3>1, <3>2, setting \in Settings, Sent
    <3>4. op # "put" /\ DOMAIN keys = 1 .. one
      BY <3>1
    <3>5. reads' = LastOf(reads \o [i \in 1 .. one |-> PartitionForKey(keys[i])], NumPartitions)
      BY ONLY <3>1, <3>4, Appended
    <3>6. reads' = LastOf(reads \o at, NumPartitions)
      BY <3>1, <3>5
    <3> QED  BY <3>3, <3>6 DEF keys, on
  <2>7. RequestOk(request', gets')
    BY <2>4, <2>5, <2>6 DEF RequestOk
  <2>8. CountOk(state_data', gets', puts')
    <3>1. s.num_get_since_put \in Nat /\ s.num_get_since_put < n
      BY <1>2, <1>4 DEF Before, CountOk, GetPutData
    <3>2. gets \in Nat /\ puts \in Nat
      BY <1>2 DEF Before
    <3>3. gets' = s.num_get_since_put + 1
      <4>1. CASE s.num_get_since_put > 0
        <5>1. gets = s.num_get_since_put /\ puts = 0
          BY <4>1 DEF Before, CountOk
        <5> QED  BY <1>2, <2>6, <3>1, <5>1
      <4>2. CASE s.num_get_since_put = 0
        <5>1. puts > 0 \/ gets = 0
          BY <4>2 DEF Before, CountOk
        <5> QED  BY <1>2, <2>6, <3>2, <4>2, <5>1
      <4> QED  BY <3>1, <4>1, <4>2
    <3> QED  BY <1>2, <2>3, <2>6, <3>1, <3>3 DEF CountOk
  <2>9. TurnOk(state_data', reads')
    <3> SUFFICES ASSUME RoundRobins
                 PROVE  Len(reads') <= n /\ Turn(n, reads', NextRead(state_data'))
      BY DEF TurnOk
    <3>1. Turn(n, reads, get)
      BY DEF Before, TurnOk, NextRead
    <3>2. PartitionForKey(key) = get
      BY <1>1, ChosenKey DEF RoundRobins
    <3>3. get \in 0 .. n - 1 /\ reads \in Seq(Nat)
      <4>1. Partition = 0 .. n - 1
        BY SettingType
      <4>2. \A p \in Partition : p \in Nat
        BY <1>2, <4>1
      <4>3. reads \in Seq(Partition)
        BY DEF Before
      <4>4. reads \in Seq(Nat)
        BY ONLY <4>2, <4>3
      <4> QED  BY <1>1, <4>1, <4>4
    <3>4. at \in Seq(Nat) /\ Len(at) = 1 /\ at[1] = get
      BY <1>2, <3>2, <3>3
    <3>5. (get + 1 - 1) % n = get
      <4>1. get + 1 - 1 = get
        BY <1>2, <3>3
      <4> QED  BY <1>2, <3>3, <4>1, RemainderSmall
    <3>6. NextRead(state_data') = (get + 1) % n
      BY <1>1, <2>3, IncRangeIs DEF NextRead
    <3> HIDE DEF at, get, n
    <3>7. \A i \in 1 .. 1 : at[i] = (get + i - 1) % n
      BY <3>4, <3>5
    <3>8. Turn(n, LastOf(reads \o at, n), (get + 1) % n) /\ Len(LastOf(reads \o at, n)) <= n
      BY <1>2, <3>1, <3>3, <3>4, <3>7, TurnGoesOn
    <3> QED  BY <2>6, <3>6, <3>8
  <2> QED  BY <2>6, <2>7, <2>8, <2>9 DEF After
<1> QED  BY <1>3, <1>4

LEMMA RotxHistory ==
    ASSUME setting \in Settings, setting.workload = "rotx_put_rr",
           NEW s \in RotxPutData, Before(s), DoRotx(s)
    PROVE  After
<1> DEFINE n    == NumPartitions
           k    == setting.keys_per_rotx
           p    == s.rotx_partition
           at   == RoundRobin(p, k + 1)
           used == SubSeq(at, 1, k)
           any  == UNION {ClientRandomKeyOnPartition(t) : t \in Partition}
<1>1. /\ k \in Nat \ {0} /\ p \in Partition /\ p \in 0 .. n - 1 /\ p \in Nat /\ n \in Nat \ {0}
      /\ Partition = 0 .. n - 1
  BY SettingType DEF RotxPutData
<1>2. at = [i \in 1 .. k + 1 |-> (p + i - 1) % n]
  BY DEF RoundRobin
<1>3. at \in Seq(Partition) /\ Len(at) = k + 1 /\ \A i \in 1 .. k + 1 : at[i] = (p + i - 1) % n
  <2>1. \A i \in 1 .. k + 1 : (p + i - 1) % n \in Partition
    <3> TAKE i \in 1 .. k + 1
    <3>1. p + i - 1 \in Int
      BY <1>1
    <3> QED  BY <1>1, <3>1, Remainder
  <2> HIDE DEF at, n, k, p
  <2> QED  BY <1>1, <1>2, <2>1
<1>4. PICK keys \in [DOMAIN used -> any] :
        /\ \A i \in DOMAIN used : keys[i] \in ClientRandomKeyOnPartition(used[i])
        /\ ClientSend("rotx", keys, used)
  BY DEF DoRotx
<1>5. state_data' = [s EXCEPT !.rotx_partition = at[Len(at)], !.rotx_count = @ + 1,
                              !.state = "WAITING_ROTX_RESPONSE"]
  BY DEF DoRotx
<1> HIDE DEF at, k
<1>6. used \in Seq(Partition) /\ DOMAIN used = 1 .. k /\ \A i \in 1 .. k : used[i] = at[i]
  <2>1. k \in Nat /\ k <= Len(at) /\ 1 <= k /\ at \in Seq(Partition)
    BY <1>1, <1>3
  <2>2. Len(used) = k /\ \A i \in 1 .. k : used[i] = at[i]
    BY ONLY <2>1
  <2>3. used \in Seq(Partition)
    BY ONLY <2>1
  <2>4. DOMAIN used = 1 .. k
    BY ONLY <2>2, <2>3
  <2> QED  BY <2>2, <2>3, <2>4
<1> HIDE DEF used, any
<1>7. state_data'.rotx_partition = (p + k) % n
  <2>1. state_data'.rotx_partition = at[k + 1]
    BY <1>3, <1>5 DEF RotxPutData
  <2>2. at[k + 1] = (p + (k + 1) - 1) % n
    BY <1>1, <1>3
  <2>3. p + (k + 1) - 1 = p + k
    BY <1>1
  <2> QED  BY <2>1, <2>2, <2>3
<1>8. keys \in [1 .. k -> 0 .. KeyRange - 1]
  <2>1. any \subseteq 0 .. KeyRange - 1
    BY KeyTypes DEF any
  <2> QED  BY <1>6, <2>1
<1>9. \A i \in DOMAIN used : used[i] \in Partition
  <2>1. k \in Nat /\ at \in Seq(Partition) /\ Len(at) = k + 1
    BY <1>1, <1>3
  <2>2. \A i \in 1 .. k : at[i] \in Partition
    BY ONLY <2>1
  <2> QED  BY ONLY <1>6, <2>2
<1> DEFINE new == [i \in 1 .. k |-> PartitionForKey(keys[i])]
<1>10. /\ request'.op = "rotx" /\ request'.keys = keys /\ request'.at = used
       /\ reads' \in Seq(Partition) /\ gets' \in 0 .. UintMax /\ puts' \in 0 .. UintMax
       /\ reads' = LastOf(reads \o new, n)
  <2>1. /\ ClientSend("rotx", keys, used) /\ k \in Nat
        /\ KeysOk(keys, k) /\ PlacesOk(used)
    BY <1>1, <1>4, <1>8, <1>9 DEF KeysOk, PlacesOk
  <2>2. reads \in Seq(Partition) /\ gets \in 0 .. UintMax /\ puts \in 0 .. UintMax
    BY DEF Before
  <2>3. RotxSent(keys, used)
    BY ONLY <2>1, <2>2, setting \in Settings, SentRotx
  <2>4. DOMAIN keys = 1 .. k
    BY <1>8
  <2> DEFINE op == "rotx"
  <2>5. op # "put" /\ ClientSend(op, keys, used)
    BY <2>1
  <2> HIDE DEF op
  <2>6. reads' = LastOf(reads \o [i \in 1 .. k |-> PartitionForKey(keys[i])], NumPartitions)
    BY ONLY <2>1, <2>4, <2>5, Appended
  <2> QED  BY <2>3, <2>6 DEF RotxSent
<1>11. RequestOk(request', gets')
  BY <1>8, <1>9, <1>10 DEF RequestOk
<1>12. CountOk(state_data', gets', puts')
  BY DEF CountOk
<1>13. TurnOk(state_data', reads')
  <2> SUFFICES ASSUME RoundRobins
               PROVE  Len(reads') <= n /\ Turn(n, reads', NextRead(state_data'))
    BY DEF TurnOk
  <2>1. Turn(n, reads, p)
    BY DEF Before, TurnOk, NextRead
  <2>2. \A i \in 1 .. k : PartitionForKey(keys[i]) = (p + i - 1) % n
    <3> TAKE i \in 1 .. k
    <3>1. used[i] \in Partition /\ keys[i] \in ClientRandomKeyOnPartition(used[i])
      BY ONLY <1>4, <1>6, <1>9, i \in 1 .. k
    <3>2. PartitionForKey(keys[i]) = used[i]
      BY <3>1, ChosenKey DEF RoundRobins
    <3> QED  BY <1>1, <1>3, <1>6, <3>2
  <2>3. new \in Seq(Nat) /\ Len(new) = k /\ \A i \in 1 .. k : new[i] = (p + i - 1) % n
    <3>1. \A i \in 1 .. k : (p + i - 1) % n \in Nat
      <4> TAKE i \in 1 .. k
      <4>1. p + i - 1 \in Int
        BY <1>1
      <4> QED  BY <1>1, <4>1, Remainder
    <3> HIDE DEF n, p
    <3> QED  BY <1>1, <2>2, <3>1
  <2>4. reads \in Seq(Nat)
    <3>1. \A t \in Partition : t \in Nat
      BY <1>1
    <3>2. reads \in Seq(Partition)
      BY DEF Before
    <3> QED  BY <3>1, <3>2
  <2>5. NextRead(state_data') = (p + k) % n
    BY <1>7 DEF NextRead
  <2> HIDE DEF new, n, p
  <2>6. /\ Turn(n, LastOf(reads \o new, n), (p + k) % n)
        /\ Len(LastOf(reads \o new, n)) <= n
    BY <1>1, <2>1, <2>3, <2>4, TurnGoesOn
  <2> QED  BY <1>10, <2>5, <2>6
<1> QED  BY <1>10, <1>11, <1>12, <1>13 DEF After

LEMMA PutHistory ==
    ASSUME setting \in Settings, setting.workload = "rotx_put_rr",
           NEW s \in RotxPutData, Before(s), DoPut(s)
    PROVE  After
<1> DEFINE put == s.put_partition
<1>1. put \in Partition
  BY DEF RotxPutData
<1>2. PICK key \in ClientRandomKeyOnPartition(put) : ClientSend("put", <<key>>, <<put>>)
  BY DEF DoPut
<1>3. state_data'.rotx_partition = s.rotx_partition
  BY DEF DoPut, RotxPutData
<1>4. <<key>> \in [1 .. 1 -> 0 .. KeyRange - 1]
  <2>1. key \in 0 .. KeyRange - 1
    BY <1>1, KeyTypes
  <2> QED  BY <2>1
<1>5. \A i \in DOMAIN <<put>> : <<put>>[i] \in Partition
  BY <1>1
<1>6. /\ request'.op = "put" /\ request'.keys = <<key>> /\ request'.at = <<put>>
      /\ reads' \in Seq(Partition) /\ gets' \in 0 .. UintMax /\ puts' \in 0 .. UintMax
      /\ reads' = reads
  BY <1>2, <1>4, <1>5, Sent DEF Before
<1>7. RequestOk(request', gets')
  BY <1>4, <1>5, <1>6 DEF RequestOk
<1>8. CountOk(state_data', gets', puts')
  BY DEF CountOk
<1>9. TurnOk(state_data', reads')
  BY <1>3, <1>6 DEF TurnOk, NextRead, Before
<1> QED  BY <1>6, <1>7, <1>8, <1>9 DEF After

LEMMA ProbabilisticHistory ==
    ASSUME setting \in Settings, setting.workload = "probabilistic",
           NEW s, Before(s), ProbabilisticTick(s)
    PROVE  After
<1>1. \E op \in {"get", "put", "rotx"}, k \in Nat :
        \E keys \in [1 .. k -> 0 .. KeyRange - 1] : ClientSend(op, keys, <<>>)
  <2>1. CASE \E op \in {"get", "put"}, key \in ClientRandomKey : ClientSend(op, <<key>>, <<>>)
    <3>1. PICK op \in {"get", "put"}, key \in ClientRandomKey : ClientSend(op, <<key>>, <<>>)
      BY <2>1
    <3>2. key \in 0 .. KeyRange - 1
      BY KeyTypes
    <3>3. <<key>> \in [1 .. 1 -> 0 .. KeyRange - 1]
      BY <3>2
    <3> QED  BY <3>1, <3>3
  <2>2. CASE \E keys \in [1 .. setting.keys_per_rotx -> ClientRandomKey] :
                ClientSend("rotx", keys, <<>>)
    <3>1. PICK keys \in [1 .. setting.keys_per_rotx -> ClientRandomKey] :
                ClientSend("rotx", keys, <<>>)
      BY <2>2
    <3>2. keys \in [1 .. setting.keys_per_rotx -> 0 .. KeyRange - 1]
      BY KeyTypes
    <3>3. setting.keys_per_rotx \in Nat
      BY SettingType
    <3> QED  BY <3>1, <3>2, <3>3
  <2> QED  BY <2>1, <2>2 DEF ProbabilisticTick
<1>2. PICK op \in {"get", "put", "rotx"}, k \in Nat :
        \E keys \in [1 .. k -> 0 .. KeyRange - 1] : ClientSend(op, keys, <<>>)
  BY <1>1
<1>3. PICK keys \in [1 .. k -> 0 .. KeyRange - 1] : ClientSend(op, keys, <<>>)
  BY <1>2
<1>4. \A i \in DOMAIN <<>> : <<>>[i] \in Partition
  OBVIOUS
<1>5. /\ request'.keys = keys /\ request'.at = <<>>
      /\ reads' \in Seq(Partition) /\ gets' \in 0 .. UintMax /\ puts' \in 0 .. UintMax
  <2> DEFINE on == <<>>
  <2>1. /\ \A i \in DOMAIN on : on[i] \in Partition
        /\ ClientSend(op, keys, on)
    BY <1>3, <1>4
  <2>2. reads \in Seq(Partition) /\ gets \in 0 .. UintMax /\ puts \in 0 .. UintMax
    BY DEF Before
  <2> HIDE DEF on
  <2>3. /\ request'.keys = keys /\ request'.at = on
        /\ reads' \in Seq(Partition) /\ gets' \in 0 .. UintMax /\ puts' \in 0 .. UintMax
    BY ONLY <2>1, <2>2, setting \in Settings, op \in {"get", "put", "rotx"}, k \in Nat,
            keys \in [1 .. k -> 0 .. KeyRange - 1], Sent
  <2> QED  BY <2>3 DEF on
<1>6. RequestOk(request', gets')
  BY <1>4, <1>5 DEF RequestOk
<1> QED  BY <1>5, <1>6 DEF After, TurnOk, CountOk, RoundRobins

\* A tick of any workload goes on with its turn.
LEMMA TickHistory ==
    ASSUME setting \in Settings, NEW s, Data(s), Before(s), Tick(s)
    PROVE  After
<1>1. CASE setting.workload = "get_put_rr"
  BY <1>1, GetPutHistory DEF Data, Tick
<1>2. CASE setting.workload = "rotx_put_rr"
  BY <1>2, RotxHistory, PutHistory DEF Data, Tick, RotxPutTick
<1>3. CASE setting.workload = "probabilistic"
  BY <1>3, ProbabilisticHistory DEF Data, Tick
<1> QED  BY <1>1, <1>2, <1>3 DEF Tick

\* What on_init sets up begins a turn.
LEMMA FreshHistory ==
    ASSUME setting \in Settings, NEW s \in Fresh, reads = <<>>, gets = 0, puts = 0
    PROVE  Before(s)
<1> DEFINE n == NumPartitions
<1>1. n \in Nat \ {0} /\ UintMax \in Nat /\ Partition = 0 .. n - 1
  BY SettingType, Widths
<1>2. CASE setting.workload = "get_put_rr"
  <2>1. s \in GetPutInit
    BY <1>2 DEF Fresh
  <2>2. s.num_get_since_put = 0 /\ s.last_get_partition \in Nat
    BY <1>1, <2>1 DEF GetPutInit, RandomUint
  <2>3. NextRead(s) \in 0 .. n - 1
    BY <1>1, <1>2, <2>2, IncRangeType DEF NextRead
  <2>4. Turn(n, reads, NextRead(s)) /\ Len(reads) = 0
    BY <1>1, <2>3, TurnBegins
  <2>5. TurnOk(s, reads)
    BY <1>1, <2>4 DEF TurnOk
  <2>6. CountOk(s, gets, puts)
    BY <1>1, <2>2 DEF CountOk
  <2> QED  BY <1>1, <2>5, <2>6 DEF Before
<1>3. CASE setting.workload = "rotx_put_rr"
  <2>1. s \in RotxPutInit
    BY <1>3 DEF Fresh
  <2>2. NextRead(s) \in 0 .. n - 1
    BY <1>1, <1>3, <2>1 DEF RotxPutInit, RandomUint, NextRead
  <2>3. Turn(n, reads, NextRead(s)) /\ Len(reads) = 0
    BY <1>1, <2>2, TurnBegins
  <2>4. TurnOk(s, reads)
    BY <1>1, <2>3 DEF TurnOk
  <2> QED  BY <1>1, <1>3, <2>4 DEF Before, CountOk
<1>4. CASE setting.workload = "probabilistic"
  BY <1>1, <1>4 DEF Before, CountOk, TurnOk, RoundRobins
<1> QED  BY <1>2, <1>3, <1>4, SettingType DEF Setting

\* Every step keeps the history in order.
LEMMA HistoryStep ==
    ASSUME IInv, HistoryOk, [Next]_vars
    PROVE  HistoryOk'
<1>1. setting \in Settings
  BY DEF IInv
<1>2. setting' = setting
  BY DEF Next, ClientInit, ClientTick, ClientResponse, vars
<1>3. /\ Partition' = Partition
      /\ TurnOk(state_data, reads)' <=> TurnOk(state_data', reads')
      /\ CountOk(state_data, gets, puts)' <=> CountOk(state_data', gets', puts')
      /\ RequestOk(request, gets)' <=> RequestOk(request', gets')
  BY <1>2 DEF Partition, NumPartitions, TurnOk, CountOk, RequestOk, RoundRobins, NextRead
<1>4. ASSUME NEW s, Data(s), Before(s), Tick(s)
      PROVE  HistoryOk'
  <2>1. After
    BY <1>1, <1>4, TickHistory
  <2>2. state_data' # <<>>
    <3>1. Data(state_data')
      BY <1>1, <1>4, TickStep
    <3> QED  BY <1>1, <3>1, DataNotEmpty
  <2> QED  BY <1>3, <2>1, <2>2 DEF After, HistoryOk
<1>5. CASE ClientInit
  <2>1. PICK s \in Fresh : Tick(s)
    BY <1>5 DEF ClientInit
  <2>2. reads = <<>> /\ gets = 0 /\ puts = 0
    BY <1>5 DEF ClientInit, HistoryOk
  <2>3. Data(s) /\ Before(s)
    BY <1>1, <2>2, FreshData, FreshHistory
  <2> QED  BY <1>4, <2>1, <2>3
<1>6. CASE ClientTick
  <2>1. Tick(state_data) /\ ticks = 1 /\ Data(state_data) /\ state_data # <<>>
    BY <1>6 DEF ClientTick, IInv
  <2>2. Before(state_data)
    BY <2>1 DEF HistoryOk, Before
  <2> QED  BY <1>4, <2>1, <2>2
<1>7. CASE ClientResponse
  <2>1. /\ request # NoRequest /\ request' = NoRequest
        /\ reads' = reads /\ gets' = gets /\ puts' = puts
    BY <1>7 DEF ClientResponse
  <2>2. Data(state_data) /\ state_data # <<>> /\ state_data' # <<>>
    <3>1. Data(state_data) /\ state_data # <<>>
      BY <2>1 DEF IInv
    <3>2. IInv'
      BY IInvStep
    <3>3. ticks' = 1 \/ state_data' # <<>>
      BY <1>7, <2>1 DEF ClientResponse, IInv
    <3> QED  BY <3>1, <3>2, <3>3 DEF IInv
  <2>3. TurnOk(state_data, reads) /\ CountOk(state_data, gets, puts)
    BY <2>2 DEF HistoryOk
  <2>4. TurnOk(state_data', reads) /\ CountOk(state_data', gets, puts)
    <3>1. CASE setting.workload = "get_put_rr"
      <4>1. state_data' = state_data
        BY <1>7, <3>1 DEF ClientResponse, GetPutResponse
      <4> QED  BY <2>3, <4>1
    <3>2. CASE setting.workload = "rotx_put_rr"
      <4>1. state_data' = [state_data EXCEPT !.state = "SLEEPING"] /\ state_data \in RotxPutData
        BY <1>7, <2>2, <3>2 DEF ClientResponse, RotxPutResponse, Data
      <4>2. state_data'.rotx_partition = state_data.rotx_partition
        BY <4>1 DEF RotxPutData
      <4> QED  BY <2>3, <3>2, <4>2 DEF TurnOk, CountOk, NextRead
    <3>3. CASE setting.workload = "probabilistic"
      BY <3>3 DEF TurnOk, CountOk, RoundRobins
    <3> QED  BY <1>1, <3>1, <3>2, <3>3, SettingType DEF Setting
  <2>5. RequestOk(request', gets')
    <3>1. request'.keys = <<>> /\ request'.at = <<>> /\ request'.op = "none"
      BY <2>1 DEF NoRequest
    <3> QED  BY <3>1 DEF RequestOk
  <2> QED  BY <1>3, <2>1, <2>2, <2>4, <2>5 DEF HistoryOk
<1>8. CASE UNCHANGED vars
  <2>1. /\ request' = request /\ reads' = reads /\ gets' = gets /\ puts' = puts
        /\ state_data' = state_data
    BY <1>8 DEF vars
  <2> QED  BY <1>3, <2>1 DEF HistoryOk
<1> QED  BY <1>5, <1>6, <1>7, <1>8 DEF Next

LEMMA HistoryHolds == Spec => []HistoryOk
<1>1. Init => HistoryOk
  <2> SUFFICES ASSUME Init PROVE HistoryOk
    OBVIOUS
  <2>1. NoRequest.keys = <<>> /\ NoRequest.at = <<>> /\ NoRequest.op = "none"
    BY DEF NoRequest
  <2>2. UintMax \in Nat
    BY Widths
  <2> QED  BY <2>1, <2>2 DEF Init, HistoryOk, RequestOk
<1>2. IInv /\ HistoryOk /\ [Next]_vars => HistoryOk'
  BY HistoryStep
<1> QED  BY <1>1, <1>2, Inductive, PTL DEF Spec

\* Every variable keeps its type; in particular every key that is sent is a
\* gr_key and every partition that a workload remembers exists.
THEOREM TypeCorrect ==
    Spec => []TypeOK
<1>1. ASSUME IInv, HistoryOk PROVE TypeOK
  <2>1. setting \in Setting
    BY <1>1, SettingType DEF IInv
  <2>2. request_time \in BOOLEAN
    BY <1>1, Zenon DEF IInv
  <2>5. ticks \in Nat
    <3>1. ticks = 0 \/ ticks = 1
      BY <1>1 DEF IInv
    <3> QED  BY <3>1
  <2>3. \A i \in DOMAIN reads : reads[i] \in Partition
    BY <1>1 DEF HistoryOk
  <2>4. state_data # <<>> /\ setting.workload = "rotx_put_rr" =>
            state_data.rotx_partition \in Partition /\ state_data.put_partition \in Partition
    BY <1>1 DEF IInv, Data, RotxPutData
  <2> QED  BY <1>1, <2>1, <2>2, <2>3, <2>4, <2>5 DEF TypeOK, HistoryOk, RequestOk
<1> QED  BY <1>1, Inductive, HistoryHolds, PTL

\* The round-robin workloads read the partitions in turn, whatever random
\* partition they start from and however many keys a transaction has, and
\* get_put_rr puts exactly after one get of each (get_put_rr.c:26-52,
\* rotx_put_rr.c:39-48).
THEOREM PartitionsTakeTurns ==
    Spec => []ReadsInTurn
<1>1. ASSUME IInv, HistoryOk PROVE ReadsInTurn
  <2> SUFFICES ASSUME RoundRobins
               PROVE  /\ \A i, j \in DOMAIN reads : reads[i] = reads[j] => i = j
                      /\ setting.workload = "get_put_rr" /\ request.op = "put" =>
                            gets = NumPartitions
    BY DEF ReadsInTurn
  <2>1. NumPartitions \in Nat \ {0} /\ \A p \in Partition : p \in Nat
    BY <1>1, SettingType DEF IInv
  <2>2. reads \in Seq(Nat) /\ DOMAIN reads = 1 .. Len(reads)
    BY <1>1, <2>1 DEF HistoryOk
  <2>3. ASSUME NEW i \in 1 .. Len(reads), NEW j \in 1 .. Len(reads), reads[i] = reads[j]
        PROVE  i = j
    <3>1. state_data # <<>>
      BY <1>1, <2>2 DEF HistoryOk
    <3>2. Len(reads) <= NumPartitions /\ Turn(NumPartitions, reads, NextRead(state_data))
      BY <1>1, <3>1 DEF HistoryOk, TurnOk
    <3> QED  BY <2>1, <2>2, <2>3, <3>2, TurnIsInjective
  <2> QED  BY <1>1, <2>2, <2>3 DEF HistoryOk, RequestOk
<1> QED  BY <1>1, Inductive, HistoryHolds, PTL
=============================================================================
