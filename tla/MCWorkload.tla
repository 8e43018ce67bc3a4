----------------------------- MODULE MCWorkload -----------------------------
EXTENDS Workload

Base == [workload |-> "get_put_rr", key_distribution |-> "uniform",
         num_partitions |-> 3, num_keys |-> 5, keys_per_rotx |-> 2,
         num_rotx |-> 2, num_put |-> 1]

\* A range of keys that is not a multiple of the partitions, one with a key
\* less than partitions, and the one that stands for all keys.
KeyRanges == {[Base EXCEPT !.num_keys = n] : n \in {2, 5, UintMax}}

GetPutSettings == KeyRanges \cup {[Base EXCEPT !.num_partitions = n] : n \in {1, 2}}

\* One put and two, and transactions that go round more than once.
RotxPutSettings ==
    {[s EXCEPT !.workload = "rotx_put_rr", !.num_put = n] : s \in KeyRanges, n \in 1 .. 2}
    \cup {[Base EXCEPT !.workload = "rotx_put_rr", !.num_partitions = 2,
                       !.num_keys = 3, !.keys_per_rotx = 3]}

OtherSettings ==
    {[Base EXCEPT !.workload = "probabilistic", !.key_distribution = d] :
        d \in {"uniform", "zipfian"}}
    \cup {[Base EXCEPT !.workload = w, !.key_distribution = "zipfian"] :
        w \in {"get_put_rr", "rotx_put_rr"}}

AllSettings == GetPutSettings \cup RotxPutSettings \cup OtherSettings
=============================================================================
