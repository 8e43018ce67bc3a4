-------------------------- MODULE GrSessionProofs --------------------------
(***************************************************************************)
(* Proofs about what a client of GentleRain sees, for any number of        *)
(* clients, partitions and keys, any requests and any history of the other *)
(* data centre.                                                            *)
(*                                                                         *)
(* Every GST there is, applied, handed out or fixed as a snapshot time, is *)
(* safe: no version up to it is put any more, here or in the other data    *)
(* centre.  With one core per server none is still to be stored either;    *)
(* with several an update may wait below a GST, and what is left is said   *)
(* of the keys of this data centre and of what the client has been shown   *)
(* (Covered, Known).  What a client depends on exists, and what its next   *)
(* read must show is up to a time that the read waits for.                 *)
(***************************************************************************)
EXTENDS GrSession, WellFoundedInduction, TLAPS

Version == [ut : Time, here : BOOLEAN, deps : [Key -> Time]]

Reply == [value : Version, gst : Time]

Stages   == {"idle", "sent", "locking", "locked", "waiting", "snapshot",
             "slicing", "answered"}
HasValue == {"reply", "reply_locking", "reply_locked"}

ReqType   == [op : {"none", "get", "put", "rotx"}, keys : SUBSET Key,
              at : Partition \cup {0}, stage : Stages, time : Time]
SliceType == [stage : {"none", "sent", "locking", "locked"} \cup HasValue,
              value : Version, gst : Time]

Types ==
    /\ clock \in [Partition -> Time]
    /\ other \in [Partition -> Time]
    /\ applied \in [Partition -> Time]
    /\ gst \in [Partition -> Time]
    /\ store \in [Key -> Seq(Version)]
    /\ remote \in RemoteLogs
    /\ single_core \in BOOLEAN
    /\ dt \in [Client -> Time]
    /\ cgst \in [Client -> Time]
    /\ past \in [Client -> [Key -> Time]]
    /\ seen \in [Client -> [Key -> Time]]
    /\ req \in [Client -> ReqType]
    /\ slice \in [Client -> [Key -> SliceType]]
    /\ DOMAIN reply = Client
    /\ \A c \in Client :
        DOMAIN reply[c] \subseteq Key /\ \A k \in DOMAIN reply[c] : reply[c][k] \in Reply

-----------------------------------------------------------------------------
(***************************************************************************)
(* The servers.  x and y are states of theirs, as Srv gives the present    *)
(* one.                                                                    *)
(***************************************************************************)
Srv == [clock |-> clock, other |-> other, applied |-> applied, gst |-> gst,
        store |-> store, log |-> remote, one |-> single_core]

Servers == [clock : [Partition -> Time], other : [Partition -> Time],
            applied : [Partition -> Time], gst : [Partition -> Time],
            store : [Key -> Seq(Version)], log : RemoteLogs, one : BOOLEAN]

\* No version with time t or less is still to come: none is put here, and the
\* other data centre has promised that it sends none.
Safe(x, t) == \A p \in Partition : t <= x.clock[p] /\ t <= x.other[p]

\* A version of k with time t is in the store.
Has(x, k, t) == \E i \in DOMAIN x.store[k] : x.store[k][i].ut = t

\* A version of k with time t exists, here or in the other data centre.
Real(x, k, t) == t = 0 \/ Has(x, k, t) \/ (t \in DOMAIN x.log /\ x.log[t] = k)

\* CoveredKeys, of a state of the servers
Covered(x) == IF x.one THEN Key ELSE LocalKeys

\* A version of k with time t is in the store, or will be as soon as its time
\* is safe.
Known(x, k, t) ==
    \/ t = 0
    \/ Has(x, k, t)
    \/ k \in Covered(x) /\ t \in DOMAIN x.log /\ x.log[t] = k

\* v is a version of k, or none, and what it depends on exists and is older.
Genuine(x, k, v) ==
    /\ v.ut = 0 \/ Has(x, k, v.ut)
    /\ v.here => k \in LocalKeys
    /\ \A j \in Key : Real(x, j, v.deps[j]) /\ v.deps[j] <= v.ut

Sorted(chain) == \A i, j \in DOMAIN chain : i < j => chain[j].ut < chain[i].ut

\* The times that the chain of k has reached
Reached(x, k) ==
    IF k \in LocalKeys THEN x.clock[PartitionFor(k)] ELSE x.applied[PartitionFor(k)]

\* An update with time t is stored at p: with one core per server the version
\* vector does not go past the updates that wait.
Due(x, p, t) == t <= x.applied[p] \/ (x.one /\ t <= x.other[p])

\* The chain of k is sorted, has no more than its server knows, and all of
\* the other data centre that is due.
ChainOK(x, k) ==
    /\ Sorted(x.store[k])
    /\ \A i \in DOMAIN x.store[k] :
        LET v == x.store[k][i]
        IN  /\ Genuine(x, k, v)
            /\ \A j \in Key : v.deps[j] < v.ut
            /\ v.here <=> k \in LocalKeys
            /\ v.ut <= Reached(x, k)
    /\ \A t \in DOMAIN x.log :
        x.log[t] = k /\ Due(x, PartitionFor(k), t) => Has(x, k, t)

ServersOK(x) ==
    /\ \A p \in Partition : Safe(x, x.gst[p])
    /\ \A k \in Key : ChainOK(x, k)

\* v is what the chain of k has at time t.
IsSlice(x, k, t, v) ==
    \/ /\ v = NoVersion
       /\ \A i \in DOMAIN x.store[k] : x.store[k][i].ut > t
    \/ \E i \in DOMAIN x.store[k] :
        /\ v = x.store[k][i]
        /\ v.ut <= t
        /\ \A j \in DOMAIN x.store[k] : x.store[k][j].ut <= t => x.store[k][j].ut <= v.ut

\* A new version v of k is later than anything that was safe, if k is covered.
Late(x, k, v) == k \in Covered(x) => \A t \in Time : Safe(x, t) => t < v.ut

\* From x to y nothing is lost, and what is new is late.
Grown(x, y) ==
    /\ \A p \in Partition :
        /\ x.clock[p] <= y.clock[p] /\ x.other[p] <= y.other[p]
        /\ x.applied[p] <= y.applied[p] /\ x.gst[p] <= y.gst[p]
    /\ \A k \in Key :
        \/ y.store[k] = x.store[k]
        \/ \E v \in Version : y.store[k] = <<v>> \o x.store[k] /\ Late(x, k, v)
    /\ y.log = x.log
    /\ y.one = x.one

-----------------------------------------------------------------------------
(***************************************************************************)
(* The clients.  m is the state of one, as Cli gives the present one.      *)
(***************************************************************************)
Cli(c) == [req |-> req[c], slice |-> slice[c], reply |-> reply[c], dt |-> dt[c],
           cgst |-> cgst[c], past |-> past[c], seen |-> seen[c]]

\* What the client knows exists, and what its gets count on is below its GST.
SessionOK(x, m) ==
    /\ Safe(x, m.cgst)
    /\ \A k \in Key :
        /\ Real(x, k, m.past[k]) /\ m.past[k] <= m.dt
        /\ Known(x, k, m.seen[k]) /\ m.seen[k] <= m.dt
        /\ k \in RemoteKeys => m.seen[k] <= m.cgst

\* How far its request got
RequestOK(x, m) ==
    LET r == m.req
    IN  /\ r.stage = "idle" => r = Idle
        /\ r.stage # "idle" => r.at \in Partition /\ r.op # "none"
        /\ r.op \in {"get", "put"} =>
            \E k \in Key :
                /\ r.keys = {k}
                /\ r.op = "put" => k \in LocalKeys
                /\ r.stage \in {"locking", "locked"} => r.at = PartitionFor(k)
        /\ r.op = "get" /\ r.stage = "locked" => m.cgst <= x.gst[r.at]
        /\ r.op = "get" /\ r.stage = "answered" => DOMAIN m.reply = r.keys
        /\ r.op = "put" /\ r.stage = "locking" => m.dt <= r.time
        /\ r.op # "put" => Safe(x, r.time)
        /\ r.op = "rotx" /\ r.stage = "snapshot" => m.dt <= x.gst[r.at]
        /\ r.op = "rotx" /\ r.stage \in {"locked", "slicing", "answered"} => m.dt <= r.time

\* A value that has come back for k, and the GST that came with it
ValueOK(x, m, k, v, g) ==
    /\ Genuine(x, k, v)
    /\ Safe(x, g)
    /\ m.req.op # "put" => v.ut >= m.seen[k]
    /\ m.req.op = "get" => (~v.here => v.ut <= g)
    /\ m.req.op = "put" => v.here
    /\ m.req.op = "rotx" =>
        /\ v.ut <= m.req.time /\ m.req.time <= g
        /\ k \in Covered(x) => IsSlice(x, k, m.req.time, v)

ReplyOK(x, m) ==
    /\ DOMAIN m.reply \subseteq m.req.keys
    /\ DOMAIN m.reply # {} =>
        \/ m.req.stage \in {"slicing", "answered"}
        \/ m.req.op = "put" /\ m.req.stage = "locked"
    /\ \A k \in DOMAIN m.reply : ValueOK(x, m, k, m.reply[k].value, m.reply[k].gst)

\* The slices of its transaction
SliceOK(x, m) ==
    \A k \in Key :
        LET r == m.req
            s == m.slice[k]
        IN  /\ s.stage # "none" =>
                r.op = "rotx" /\ r.stage = "slicing" /\ k \in r.keys /\ k \notin DOMAIN m.reply
            /\ s.stage = "locked" => r.time <= x.gst[PartitionFor(k)]
            /\ s.stage \in HasValue => ValueOK(x, m, k, s.value, s.gst)

ClientOK(x, m) == SessionOK(x, m) /\ RequestOK(x, m) /\ ReplyOK(x, m) /\ SliceOK(x, m)

\* The inductive invariant
IInv ==
    /\ Types
    /\ ServersOK(Srv)
    /\ \A c \in Client : ClientOK(Srv, Cli(c))

-----------------------------------------------------------------------------
(***************************************************************************)
(* Data                                                                    *)
(***************************************************************************)
\* Times are numbers from 0 to MaxTime.
LEMMA TimeFacts ==
    /\ MaxTime \in Nat
    /\ Time \subseteq Nat
    /\ 0 \in Time
    /\ \A t \in Time : t \in Int /\ t \in Nat /\ t <= MaxTime /\ 0 <= t
  BY SessionAssumption DEF Time

\* The fields of versions, values and chains
LEMMA VersionFacts ==
    /\ \A v \in Version : /\ v.ut \in Time /\ v.ut \in Int /\ v.here \in BOOLEAN
                         /\ \A k \in Key : v.deps[k] \in Time /\ v.deps[k] \in Int
    /\ \A r \in Reply : r.value \in Version /\ r.gst \in Time /\ r.gst \in Int
    /\ \A chain \in Seq(Version) :
        DOMAIN chain \subseteq Nat /\ \A i \in DOMAIN chain : chain[i] \in Version
<1>1. \A v \in Version : /\ v.ut \in Time /\ v.here \in BOOLEAN
                        /\ \A k \in Key : v.deps[k] \in Time
  BY DEF Version
<1>2. \A r \in Reply : r.value \in Version /\ r.gst \in Time
  BY DEF Reply
<1>3. Time \subseteq Int
  BY TimeFacts
<1>4. \A chain \in Seq(Version) :
        DOMAIN chain \subseteq Nat /\ \A i \in DOMAIN chain : chain[i] \in Version
  OBVIOUS
<1> QED  BY <1>1, <1>2, <1>3, <1>4

\* The least of a set of numbers
LEMMA Least ==
    ASSUME NEW S, S \subseteq Nat, S # {}
    PROVE  \E m \in S : \A x \in S : m <= x
<1>1. PICK m \in S : \A y \in S : ~(<<y, m>> \in OpToRel(<, Nat))
  BY NatLessThanWellFounded, WFMin
<1>2. ASSUME NEW y \in S, y < m PROVE FALSE
  <2>1. <<y, m>> \in OpToRel(<, Nat)
    BY <1>2 DEF OpToRel
  <2> QED  BY <1>1, <2>1
<1> QED  BY <1>2

\* MaxOf returns the greatest of a set of times.
LEMMA MaxOfIs ==
    ASSUME NEW S, S \subseteq Time, S # {}
    PROVE  /\ MaxOf(S) \in S
           /\ MaxOf(S) \in Time
           /\ \A x \in S : x <= MaxOf(S)
<1> DEFINE D == {MaxTime - x : x \in S}
<1>1. S \subseteq Int /\ MaxTime \in Nat /\ \A x \in S : MaxTime - x \in Nat
  BY TimeFacts
<1>2. D \subseteq Nat /\ D # {}
  BY <1>1
<1>3. PICK d \in D : \A e \in D : d <= e
  BY <1>2, Least
<1>4. PICK m \in S : d = MaxTime - m
  OBVIOUS
<1>5. \A x \in S : x <= m
  <2> TAKE x \in S
  <2>1. MaxTime - m <= MaxTime - x
    BY <1>3, <1>4
  <2> QED  BY <1>1, <2>1
<1> QED  BY <1>5 DEF MaxOf

\* Max2 returns the greater of two times.
LEMMA Max2Is ==
    ASSUME NEW a \in Time, NEW b \in Time
    PROVE  Max2(a, b) \in Time /\ a <= Max2(a, b) /\ b <= Max2(a, b) /\ Max2(a, b) \in {a, b}
  BY SessionAssumption DEF Max2, Time

\* Every key has a partition and writers in one data centre only.
LEMMA KeyFacts ==
    /\ \A k \in Key : k \in Int /\ k # NoKey /\ PartitionFor(k) \in Partition
    /\ \A k \in Key : k \in RemoteKeys <=> k \notin LocalKeys
    /\ \A c \in Client : Home[c] \in Partition
    /\ LocalKeys \subseteq Key /\ RemoteKeys \subseteq Key
<1>1. \A k \in Key : k \in Int /\ k # NoKey
  BY SessionAssumption DEF Key, NoKey
<1> QED  BY <1>1, SessionAssumption DEF Key, Partition

\* The history of the other data centre has no key of this one.
LEMMA LogFacts ==
    ASSUME NEW log \in RemoteLogs, NEW t \in DOMAIN log
    PROVE  t \in Nat \ {0} /\ \A k \in Key : log[t] = k => k \in RemoteKeys
  BY KeyFacts, SessionAssumption

\* The first visible version of a sorted chain is the newest of them.
LEMMA FirstVisible ==
    ASSUME NEW chain \in Seq(Version), Sorted(chain),
           NEW visible, visible \subseteq DOMAIN chain, visible # {}
    PROVE  \E i \in visible :
            /\ GetValueAt(chain, visible) = chain[i]
            /\ \A j \in visible : chain[j].ut <= chain[i].ut
<1>1. visible \subseteq Nat
  OBVIOUS
<1>2. \E i \in visible : \A j \in visible : i <= j
  BY <1>1, Least
<1> DEFINE i == CHOOSE i \in visible : \A j \in visible : i <= j
<1>3. i \in visible /\ \A j \in visible : i <= j
  BY <1>2
<1>4. GetValueAt(chain, visible) = chain[i]
  BY DEF GetValueAt
<1> HIDE DEF i
<1>5. \A j \in visible : chain[j].ut <= chain[i].ut
  <2> TAKE j \in visible
  <2>1. chain[j].ut \in Int /\ chain[i].ut \in Int
    BY <1>3, VersionFacts
  <2>2. CASE i = j
    BY <2>1, <2>2
  <2>3. CASE i < j
    BY <1>3, <2>1, <2>3 DEF Sorted
  <2> QED  BY <1>1, <1>3, <2>2, <2>3
<1> QED  BY <1>3, <1>4, <1>5

\* NoVersion stands for a version that depends on nothing.
LEMMA NoVersionFacts ==
    /\ NoVersion \in Version
    /\ NoVersion.ut = 0 /\ NoVersion.here = FALSE
    /\ \A k \in Key : NoVersion.deps[k] = 0
  BY TimeFacts DEF NoVersion, NoDeps, Version

\* Srv gives the present state of the servers.
LEMMA SrvType ==
    ASSUME Types
    PROVE  /\ Srv \in Servers
           /\ Srv.clock = clock /\ Srv.other = other /\ Srv.gst = gst
           /\ Srv.store = store /\ Srv.log = remote
           /\ Srv.applied = applied /\ Srv.one = single_core /\ Covered(Srv) = CoveredKeys
  BY DEF Types, Srv, Servers, Covered, CoveredKeys

\* GetSlice reads what the chain has at time t, and nothing else does.
LEMMA SliceIs ==
    ASSUME Types, NEW k \in Key, ChainOK(Srv, k), NEW t \in Time
    PROVE  /\ IsSlice(Srv, k, t, GetSlice(k, t))
           /\ \A v : IsSlice(Srv, k, t, v) => v = GetSlice(k, t)
<1> DEFINE visible == {i \in DOMAIN store[k] : store[k][i].ut <= t}
<1>1. /\ store[k] \in Seq(Version) /\ Sorted(store[k]) /\ Srv.store[k] = store[k]
      /\ visible \subseteq DOMAIN store[k]
      /\ \A i \in DOMAIN store[k] : store[k][i] \in Version /\ store[k][i].ut \in Int
      /\ DOMAIN store[k] \subseteq Int
      /\ t \in Int
  <2>1. store[k] \in Seq(Version) /\ Srv.store[k] = store[k]
    BY SrvType DEF Types
  <2> QED  BY <2>1, VersionFacts, TimeFacts DEF ChainOK
<1>2. GetSlice(k, t) = GetValueAt(store[k], visible)
  BY DEF GetSlice
<1>3. CASE visible = {}
  <2>1. GetSlice(k, t) = NoVersion
    BY <1>2, <1>3 DEF GetValueAt
  <2>2. \A i \in DOMAIN store[k] : store[k][i].ut > t
    BY <1>1, <1>3
  <2> QED  BY <1>1, <2>1, <2>2 DEF IsSlice
<1>4. CASE visible # {}
  <2>1. PICK i \in visible : /\ GetSlice(k, t) = store[k][i]
                             /\ \A j \in visible : store[k][j].ut <= store[k][i].ut
    BY <1>1, <1>2, <1>4, FirstVisible
  <2>2. IsSlice(Srv, k, t, GetSlice(k, t))
    BY <1>1, <2>1 DEF IsSlice
  <2>3. ASSUME NEW v, IsSlice(Srv, k, t, v) PROVE v = store[k][i]
    <3>1. PICK j \in DOMAIN store[k] :
            /\ v = store[k][j] /\ v.ut <= t
            /\ \A n \in DOMAIN store[k] : store[k][n].ut <= t => store[k][n].ut <= v.ut
      BY <1>1, <2>1, <2>3 DEF IsSlice
    <3>2. store[k][j].ut <= store[k][i].ut /\ store[k][i].ut <= store[k][j].ut
      BY <1>1, <2>1, <3>1
    <3>3. ~(i < j) /\ ~(j < i)
      BY <1>1, <3>2 DEF Sorted
    <3> QED  BY <1>1, <3>1, <3>3
  <2> QED  BY <2>1, <2>2, <2>3
<1> QED  BY <1>3, <1>4

-----------------------------------------------------------------------------
(***************************************************************************)
(* What holds goes on to hold                                              *)
(***************************************************************************)
\* The fields of a state of the servers
LEMMA ServersFacts ==
    ASSUME NEW x \in Servers
    PROVE  /\ \A p \in Partition : /\ x.clock[p] \in Int /\ x.other[p] \in Int
                                   /\ x.gst[p] \in Int /\ x.gst[p] \in Time
                                   /\ x.applied[p] \in Int
           /\ \A k \in Key : /\ x.store[k] \in Seq(Version)
                             /\ DOMAIN x.store[k] \subseteq Nat
                             /\ \A i \in DOMAIN x.store[k] :
                                    x.store[k][i] \in Version /\ x.store[k][i].ut \in Int
                             /\ Reached(x, k) \in Int
           /\ x.log \in RemoteLogs
<1>1. \A p \in Partition : /\ x.clock[p] \in Int /\ x.other[p] \in Int
                           /\ x.gst[p] \in Int /\ x.gst[p] \in Time
                           /\ x.applied[p] \in Int
  <2>1. \A p \in Partition : /\ x.clock[p] \in Time /\ x.other[p] \in Time
                             /\ x.gst[p] \in Time /\ x.applied[p] \in Time
    BY DEF Servers
  <2>2. Time \subseteq Int
    BY TimeFacts
  <2> QED  BY <2>1, <2>2
<1>2. \A k \in Key : x.store[k] \in Seq(Version)
  BY DEF Servers
<1>3. \A k \in Key : Reached(x, k) \in Int
  BY <1>1, KeyFacts DEF Reached
<1>4. x.log \in RemoteLogs
  BY DEF Servers
<1> QED  BY <1>1, <1>2, <1>3, <1>4, VersionFacts

\* A new version goes in front, where the others keep their order.
LEMMA InFront ==
    ASSUME NEW chain \in Seq(Version), NEW v \in Version
    PROVE  LET new == <<v>> \o chain
           IN  /\ new \in Seq(Version)
               /\ new[1] = v /\ 1 \in DOMAIN new
               /\ \A i \in DOMAIN chain : i + 1 \in DOMAIN new /\ new[i + 1] = chain[i]
               /\ \A i \in DOMAIN new :
                    i # 1 => i - 1 \in DOMAIN chain /\ new[i] = chain[i - 1]
  OBVIOUS

\* From x to y, what is safe stays safe, what exists goes on to exist, and what
\* the chain of a covered key has at a safe time stays the same.
LEMMA Kept ==
    ASSUME NEW x \in Servers, NEW y \in Servers, Grown(x, y)
    PROVE  /\ \A t \in Time : Safe(x, t) => Safe(y, t)
           /\ \A k \in Key : \A t : Real(x, k, t) => Real(y, k, t)
           /\ \A k \in Key : \A t : Has(x, k, t) => Has(y, k, t)
           /\ \A k \in Key : \A t : Known(x, k, t) => Known(y, k, t)
           /\ Covered(y) = Covered(x)
           /\ \A k \in Key, v \in Version : Genuine(x, k, v) => Genuine(y, k, v)
           /\ \A k \in Key, t \in Time, v \in Version :
                k \in Covered(x) /\ Safe(x, t) /\ IsSlice(x, k, t, v) => IsSlice(y, k, t, v)
<1>1. \A t \in Time : Safe(x, t) => Safe(y, t)
  <2> SUFFICES ASSUME NEW t \in Time, Safe(x, t), NEW p \in Partition
               PROVE  t <= y.clock[p] /\ t <= y.other[p]
    BY DEF Safe
  <2>1. t <= x.clock[p] /\ t <= x.other[p] /\ x.clock[p] <= y.clock[p] /\ x.other[p] <= y.other[p]
    BY DEF Safe, Grown
  <2>2. /\ x.clock[p] \in Int /\ x.other[p] \in Int /\ y.clock[p] \in Int /\ y.other[p] \in Int
        /\ t \in Int
    BY ServersFacts, TimeFacts
  <2> QED  BY <2>1, <2>2
<1>2. \A k \in Key : \A t : Has(x, k, t) => Has(y, k, t)
  <2> SUFFICES ASSUME NEW k \in Key, NEW t, Has(x, k, t) PROVE Has(y, k, t)
    OBVIOUS
  <2>1. PICK i \in DOMAIN x.store[k] : x.store[k][i].ut = t
    BY DEF Has
  <2>2. CASE y.store[k] = x.store[k]
    BY <2>1, <2>2 DEF Has
  <2>3. CASE \E v \in Version : y.store[k] = <<v>> \o x.store[k]
    <3>1. PICK v \in Version : y.store[k] = <<v>> \o x.store[k]
      BY <2>3
    <3>2. i + 1 \in DOMAIN y.store[k] /\ y.store[k][i + 1] = x.store[k][i]
      BY <3>1, InFront, ServersFacts
    <3> QED  BY <2>1, <3>2 DEF Has
  <2> QED  BY <2>2, <2>3 DEF Grown
<1>3. \A k \in Key : \A t : Real(x, k, t) => Real(y, k, t)
  BY <1>2 DEF Real, Grown
<1>4. \A k \in Key, v \in Version : Genuine(x, k, v) => Genuine(y, k, v)
  BY <1>2, <1>3 DEF Genuine
<1>5. Covered(y) = Covered(x)
  BY DEF Covered, Grown
<1>6. \A k \in Key : \A t : Known(x, k, t) => Known(y, k, t)
  BY <1>2, <1>5 DEF Known, Grown
<1>7. ASSUME NEW k \in Key, NEW t \in Time, NEW w \in Version,
             k \in Covered(x), Safe(x, t), IsSlice(x, k, t, w)
      PROVE  IsSlice(y, k, t, w)
  <2>1. CASE y.store[k] = x.store[k]
    BY <1>7, <2>1 DEF IsSlice
  <2>2. CASE \E v \in Version : y.store[k] = <<v>> \o x.store[k] /\ Late(x, k, v)
    <3>1. PICK v \in Version : y.store[k] = <<v>> \o x.store[k] /\ Late(x, k, v)
      BY <2>2
    <3>2. v.ut > t
      <4>1. t < v.ut
        BY <1>7, <3>1 DEF Late
      <4>2. t \in Int /\ v.ut \in Int
        BY TimeFacts, VersionFacts
      <4> QED  BY <4>1, <4>2
    <3>3. \A j \in DOMAIN y.store[k] :
            j = 1 \/ (j - 1 \in DOMAIN x.store[k] /\ y.store[k][j] = x.store[k][j - 1])
      BY <3>1, InFront, ServersFacts
    <3>4. y.store[k][1] = v
      BY <3>1, InFront, ServersFacts
    <3>5. v.ut \in Int /\ t \in Int /\ ~(v.ut <= t)
      BY <3>2, TimeFacts, VersionFacts
    <3>6. CASE w = NoVersion /\ \A i \in DOMAIN x.store[k] : x.store[k][i].ut > t
      BY <3>2, <3>3, <3>4, <3>6 DEF IsSlice
    <3>7. ASSUME NEW i \in DOMAIN x.store[k],
                 w = x.store[k][i], w.ut <= t,
                 \A j \in DOMAIN x.store[k] : x.store[k][j].ut <= t => x.store[k][j].ut <= w.ut
          PROVE  IsSlice(y, k, t, w)
      <4>1. i + 1 \in DOMAIN y.store[k] /\ y.store[k][i + 1] = w
        BY <3>1, <3>7, InFront, ServersFacts
      <4>2. \A j \in DOMAIN y.store[k] : y.store[k][j].ut <= t => y.store[k][j].ut <= w.ut
        BY <3>3, <3>4, <3>5, <3>7
      <4> QED  BY <3>7, <4>1, <4>2 DEF IsSlice
    <3> QED  BY <1>7, <3>6, <3>7 DEF IsSlice
  <2> QED  BY <2>1, <2>2 DEF Grown
<1> QED  BY <1>1, <1>2, <1>3, <1>4, <1>5, <1>6, <1>7

\* The types of what a client has, as its operators use them
ClientType(m) ==
    /\ m.req \in ReqType
    /\ m.slice \in [Key -> SliceType]
    /\ DOMAIN m.reply \subseteq Key
    /\ \A k \in DOMAIN m.reply : m.reply[k] \in Reply
    /\ m.dt \in Time /\ m.cgst \in Time
    /\ m.past \in [Key -> Time] /\ m.seen \in [Key -> Time]

\* Cli gives the present state of a client.
LEMMA CliType ==
    ASSUME Types, NEW c \in Client
    PROVE  /\ ClientType(Cli(c))
           /\ Cli(c).req = req[c] /\ Cli(c).slice = slice[c] /\ Cli(c).reply = reply[c]
           /\ Cli(c).dt = dt[c] /\ Cli(c).cgst = cgst[c]
           /\ Cli(c).past = past[c] /\ Cli(c).seen = seen[c]
<1>1. /\ Cli(c).req = req[c] /\ Cli(c).slice = slice[c] /\ Cli(c).reply = reply[c]
      /\ Cli(c).dt = dt[c] /\ Cli(c).cgst = cgst[c]
      /\ Cli(c).past = past[c] /\ Cli(c).seen = seen[c]
  BY DEF Cli
<1>2. /\ req[c] \in ReqType /\ slice[c] \in [Key -> SliceType]
      /\ DOMAIN reply[c] \subseteq Key /\ \A k \in DOMAIN reply[c] : reply[c][k] \in Reply
      /\ dt[c] \in Time /\ cgst[c] \in Time
      /\ past[c] \in [Key -> Time] /\ seen[c] \in [Key -> Time]
  BY DEF Types
<1> QED  BY <1>1, <1>2 DEF ClientType

\* A client that does nothing is all right whatever the servers do.
LEMMA ClientKept ==
    ASSUME NEW x \in Servers, NEW y \in Servers, Grown(x, y),
           NEW m, ClientType(m), ClientOK(x, m)
    PROVE  ClientOK(y, m)
<1>1. /\ m.cgst \in Time /\ m.req.time \in Time /\ m.req.op \in {"none", "get", "put", "rotx"}
      /\ \A k \in Key : m.slice[k].gst \in Time /\ m.slice[k].value \in Version
      /\ \A k \in DOMAIN m.reply : /\ k \in Key
                                   /\ m.reply[k].gst \in Time /\ m.reply[k].value \in Version
  BY VersionFacts DEF ClientType, ReqType, SliceType
<1>3. SessionOK(y, m)
  <2>1. SessionOK(x, m)
    BY DEF ClientOK
  <2> QED  BY <1>1, <2>1, Kept DEF SessionOK
<1>4. RequestOK(x, m)
  BY DEF ClientOK
<1>5. \A p \in Partition : \A t \in Time : t <= x.gst[p] => t <= y.gst[p]
  <2> TAKE p \in Partition
  <2> TAKE t \in Time
  <2>1. x.gst[p] <= y.gst[p]
    BY DEF Grown
  <2> QED  BY <2>1, ServersFacts, TimeFacts
<1>6. RequestOK(y, m)
  <2>1. m.req.stage # "idle" => m.req.at \in Partition
    BY <1>4 DEF RequestOK
  <2>2. m.dt \in Time
    BY DEF ClientType
  <2>3. m.req.op # "put" => Safe(y, m.req.time)
    BY <1>1, <1>4, Kept DEF RequestOK
  <2> QED  BY <1>1, <1>4, <1>5, <2>1, <2>2, <2>3 DEF RequestOK
<1>7. \A k \in Key : \A v \in Version : \A g \in Time :
        ValueOK(x, m, k, v, g) => ValueOK(y, m, k, v, g)
  <2> TAKE k \in Key
  <2> TAKE v \in Version
  <2> TAKE g \in Time
  <2>1. m.req.op = "rotx" => Safe(x, m.req.time)
    BY <1>4 DEF RequestOK
  <2> QED  BY <1>1, <2>1, Kept DEF ValueOK
<1>8. ReplyOK(y, m)
  <2>1. ReplyOK(x, m)
    BY DEF ClientOK
  <2> QED  BY <1>1, <1>7, <2>1 DEF ReplyOK
<1>9. SliceOK(y, m)
  <2>1. SliceOK(x, m)
    BY DEF ClientOK
  <2> QED  BY <1>1, <1>5, <1>7, <2>1, KeyFacts DEF SliceOK
<1> QED  BY <1>3, <1>6, <1>8, <1>9 DEF ClientOK

\* Before its answers come in, a request has neither values nor slices.
LEMMA NothingYet ==
    ASSUME NEW x \in Servers, NEW m, ClientOK(x, m),
           m.req.stage \notin {"slicing", "answered"},
           ~(m.req.op = "put" /\ m.req.stage = "locked")
    PROVE  DOMAIN m.reply = {} /\ \A k \in Key : m.slice[k].stage = "none"
  BY DEF ClientOK, ReplyOK, SliceOK

\* Such a request goes on.
LEMMA RequestGoesOn ==
    ASSUME NEW x \in Servers, NEW m, NEW n, ClientOK(x, m),
           m.req.stage \notin {"slicing", "answered"},
           ~(m.req.op = "put" /\ m.req.stage = "locked"),
           n.slice = m.slice, n.reply = m.reply,
           n.dt = m.dt, n.cgst = m.cgst, n.past = m.past, n.seen = m.seen,
           RequestOK(x, n)
    PROVE  ClientOK(x, n)
<1>1. DOMAIN n.reply = {} /\ \A k \in Key : n.slice[k].stage = "none"
  BY NothingYet
<1>2. SessionOK(x, n)
  BY DEF ClientOK, SessionOK
<1>3. ReplyOK(x, n)
  BY <1>1 DEF ReplyOK
<1>4. SliceOK(x, n)
  BY <1>1 DEF SliceOK, HasValue
<1> QED  BY <1>2, <1>3, <1>4 DEF ClientOK

\* What the invariant says about the servers and one client
LEMMA Mine ==
    ASSUME IInv, NEW c \in Client
    PROVE  /\ Types /\ Srv \in Servers /\ ServersOK(Srv)
           /\ ClientType(Cli(c)) /\ ClientOK(Srv, Cli(c))
  BY SrvType, CliType DEF IInv

\* The key of a request of one key
LEMMA TheKeyIs ==
    ASSUME NEW c \in Client, NEW k, req[c].keys = {k}
    PROVE  TheKey(c) = k
  BY DEF TheKey

\* It is enough to look at one client when the servers do nothing...
LEMMA OneClient ==
    ASSUME IInv, Types', UNCHANGED <<servers, remote, single_core>>,
           NEW c \in Client, \A d \in Client \ {c} : Cli(d)' = Cli(d),
           ClientOK(Srv, Cli(c)')
    PROVE  IInv'
<1>1. Srv' = Srv
  BY DEF Srv, servers
<1> QED  BY <1>1 DEF IInv

\* ... and at the servers and one client when they do.
LEMMA Step ==
    ASSUME IInv, Types', Grown(Srv, Srv'), ServersOK(Srv'),
           \A d \in Client : \/ Cli(d)' = Cli(d)
                             \/ ClientOK(Srv', Cli(d)')
    PROVE  IInv'
<1>1. Srv' \in Servers
  BY DEF Types, Srv, Servers
<1>2. ASSUME NEW d \in Client PROVE ClientOK(Srv', Cli(d)')
  BY <1>1, ClientKept, Mine
<1> QED  BY <1>2 DEF IInv

-----------------------------------------------------------------------------
(***************************************************************************)
(* Requests that go on while the servers do nothing                        *)
(***************************************************************************)
\* What such a step leaves alone
LEMMA OnlyReq ==
    ASSUME IInv, NEW c \in Client, NEW r \in ReqType,
           req' = [req EXCEPT ![c] = r], UNCHANGED <<servers, session, slice, reply, remote, single_core>>,
           req[c].stage \notin {"slicing", "answered"},
           ~(req[c].op = "put" /\ req[c].stage = "locked"),
           \A n : /\ n.req = r
                  /\ n.dt = dt[c] /\ n.cgst = cgst[c]
                  => RequestOK(Srv, n)
    PROVE  IInv'
<1> USE Mine
<1>1. Types'
  BY DEF Types, servers, session
<1>2. \A d \in Client \ {c} : Cli(d)' = Cli(d)
  BY DEF Types, Cli, servers, session
<1>3. /\ Cli(c)'.req = r
      /\ Cli(c)'.slice = Cli(c).slice /\ Cli(c)'.reply = Cli(c).reply
      /\ Cli(c)'.dt = Cli(c).dt /\ Cli(c)'.cgst = Cli(c).cgst
      /\ Cli(c)'.past = Cli(c).past /\ Cli(c)'.seen = Cli(c).seen
  BY DEF Types, Cli, session
<1>4. Cli(c).req = req[c] /\ Cli(c).dt = dt[c] /\ Cli(c).cgst = cgst[c]
  BY CliType
<1>5. RequestOK(Srv, Cli(c)')
  BY <1>3, <1>4
<1>6. ClientOK(Srv, Cli(c)')
  BY <1>3, <1>4, <1>5, RequestGoesOn
<1> QED  BY <1>1, <1>2, <1>6, OneClient

\* What is known about the request of c
LEMMA MyRequest ==
    ASSUME IInv, NEW c \in Client
    PROVE  /\ req[c] \in ReqType
           /\ dt[c] \in Time /\ cgst[c] \in Time
           /\ req[c].stage # "idle" => req[c].at \in Partition /\ req[c].op # "none"
           /\ req[c].op \in {"get", "put"} =>
                /\ TheKey(c) \in Key /\ req[c].keys = {TheKey(c)}
                /\ req[c].op = "put" => TheKey(c) \in LocalKeys
                /\ req[c].stage \in {"locking", "locked"} => req[c].at = PartitionFor(TheKey(c))
           /\ req[c].op = "get" /\ req[c].stage = "locked" => cgst[c] <= gst[req[c].at]
           /\ req[c].op = "put" /\ req[c].stage = "locking" => dt[c] <= req[c].time
           /\ req[c].op # "put" => Safe(Srv, req[c].time)
           /\ req[c].op = "rotx" /\ req[c].stage = "snapshot" => dt[c] <= gst[req[c].at]
           /\ req[c].op = "rotx" /\ req[c].stage \in {"locked", "slicing", "answered"} =>
                dt[c] <= req[c].time
<1>1. RequestOK(Srv, Cli(c)) /\ Srv.gst = gst
  BY Mine, SrvType DEF ClientOK
<1>2. Cli(c).req = req[c] /\ Cli(c).dt = dt[c] /\ Cli(c).cgst = cgst[c]
  BY Mine, CliType
<1>3. req[c] \in ReqType /\ dt[c] \in Time /\ cgst[c] \in Time
  BY Mine DEF Types
<1>4. req[c].op \in {"get", "put"} =>
                /\ TheKey(c) \in Key /\ req[c].keys = {TheKey(c)}
                /\ req[c].op = "put" => TheKey(c) \in LocalKeys
                /\ req[c].stage \in {"locking", "locked"} => req[c].at = PartitionFor(TheKey(c))
  BY <1>1, <1>2, TheKeyIs DEF RequestOK
<1> QED  BY <1>1, <1>2, <1>3, <1>4 DEF RequestOK

\* A request keeps its type when its stage, time or server changes.
LEMMA ReqFields ==
    ASSUME NEW r \in ReqType
    PROVE  /\ \A s \in Stages : [r EXCEPT !.stage = s] \in ReqType
           /\ \A s \in Stages, t \in Time : [r EXCEPT !.stage = s, !.time = t] \in ReqType
           /\ \A p \in Partition : [r EXCEPT !.at = p] \in ReqType
           /\ r.time \in Time
  BY DEF ReqType

\* The client sends a request.
LEMMA ClientRequestStep ==
    ASSUME IInv, NEW c \in Client, NEW q \in Request, ClientRequest(c, q)
    PROVE  IInv'
<1> DEFINE r == [op |-> q.op, keys |-> q.keys, at |-> Home[c], stage |-> "sent", time |-> 0]
<1>1. /\ q.op \in {"get", "put", "rotx"} /\ q.keys \in SUBSET Key
      /\ q.op \in {"get", "put"} =>
            \E k \in Key : q.keys = {k} /\ (q.op = "put" => k \in LocalKeys)
  <2>1. q \in Request
    OBVIOUS
  <2>2. CASE q \in [op : {"get"}, keys : {{k} : k \in Key}]
    BY <2>2
  <2>3. CASE q \in [op : {"put"}, keys : {{k} : k \in LocalKeys}]
    BY <2>3, KeyFacts
  <2>4. CASE q \in [op : {"rotx"}, keys : SUBSET Key]
    BY <2>4
  <2> QED  BY <2>1, <2>2, <2>3, <2>4 DEF Request
<1>2. r \in ReqType
  BY <1>1, KeyFacts, TimeFacts DEF ReqType, Stages
<1>3. req' = [req EXCEPT ![c] = r] /\ req[c] = Idle
  BY DEF ClientRequest, ClientLpidFor
<1>4. Safe(Srv, 0)
  BY Mine, ServersFacts, TimeFacts DEF Safe, Servers
<1>5. \A n : n.req = r => RequestOK(Srv, n)
  BY <1>1, <1>4, KeyFacts DEF RequestOK
<1>6. req[c].stage = "idle" /\ req[c].op = "none"
  BY <1>3 DEF Idle
<1>7. UNCHANGED <<servers, session, slice, reply, remote, single_core>>
  BY DEF ClientRequest, fixed
<1> HIDE DEF r
<1> QED  BY <1>2, <1>3, <1>5, <1>6, <1>7, OnlyReq

\* The request is forwarded to the partition of its key.
LEMMA ForwardRequestStep ==
    ASSUME IInv, NEW c \in Client, ForwardRequest(c)
    PROVE  IInv'
<1> DEFINE r == [req[c] EXCEPT !.at = PartitionFor(TheKey(c))]
<1>1. req[c].op \in {"get", "put"} /\ req[c].stage = "sent" /\ TheKey(c) \in Key
  BY MyRequest DEF ForwardRequest
<1>2. PartitionFor(TheKey(c)) \in Partition
  BY <1>1, KeyFacts
<1>3. r \in ReqType
  BY <1>2, MyRequest, ReqFields
<1>4. req' = [req EXCEPT ![c] = r] /\ UNCHANGED <<servers, session, slice, reply, remote, single_core>>
  BY DEF ForwardRequest, fixed
<1>5. r.op = req[c].op /\ r.keys = req[c].keys /\ r.stage = "sent" /\ r.time = req[c].time
      /\ r.at \in Partition
  BY <1>1, <1>2, MyRequest DEF ReqType
<1> HIDE DEF r
<1>6. \A n : n.req = r => RequestOK(Srv, n)
  BY <1>1, <1>5, MyRequest DEF RequestOK
<1> QED  BY <1>1, <1>3, <1>4, <1>6, OnlyReq

\* The put waits until the clock has passed its dependency time.
LEMMA PutRequestStep ==
    ASSUME IInv, NEW c \in Client, PutRequest(c)
    PROVE  IInv'
<1> DEFINE t == Max2(clock[req[c].at], dt[c])
           r == [req[c] EXCEPT !.stage = "locking", !.time = t]
<1>1. req[c].op = "put" /\ req[c].stage = "sent" /\ PartitionFor(TheKey(c)) = req[c].at
  BY DEF PutRequest, Arrived, At
<1>2. /\ TheKey(c) \in LocalKeys /\ TheKey(c) \in Key /\ req[c].keys = {TheKey(c)}
      /\ req[c].at \in Partition /\ dt[c] \in Time /\ req[c] \in ReqType
  BY <1>1, MyRequest
<1>3. t \in Time /\ dt[c] <= t
  BY <1>2, Mine, Max2Is DEF Types
<1>4. req' = [req EXCEPT ![c] = r] /\ UNCHANGED <<servers, session, slice, reply, remote, single_core>>
  BY DEF PutRequest, fixed
<1> HIDE DEF t
<1>5. r \in ReqType
  BY <1>2, <1>3, ReqFields DEF Stages
<1>6. r.op = "put" /\ r.keys = req[c].keys /\ r.stage = "locking" /\ r.time = t /\ r.at = req[c].at
  BY <1>1, <1>2 DEF ReqType
<1> HIDE DEF r
<1>7. \A n : n.req = r /\ n.dt = dt[c] => RequestOK(Srv, n)
  BY <1>1, <1>2, <1>3, <1>6 DEF RequestOK
<1> QED  BY <1>1, <1>4, <1>5, <1>7, OnlyReq

\* A transaction asks for its snapshot, or waits for the GST.
LEMMA RotxRequestStep ==
    ASSUME IInv, NEW c \in Client, RotxRequest(c)
    PROVE  IInv'
<1> DEFINE s == IF dt[c] <= gst[req[c].at] THEN "snapshot" ELSE "waiting"
           r == [req[c] EXCEPT !.stage = s]
<1>1. req[c].op = "rotx" /\ req[c].stage = "sent"
  BY DEF RotxRequest, At
<1>2. req' = [req EXCEPT ![c] = r] /\ UNCHANGED <<servers, session, slice, reply, remote, single_core>>
  BY DEF RotxRequest, Stage, fixed
<1>3. s \in {"snapshot", "waiting"} /\ (s = "snapshot" => dt[c] <= gst[req[c].at])
  OBVIOUS
<1> HIDE DEF s
<1>4. r \in ReqType
  BY <1>3, MyRequest, ReqFields DEF Stages
<1>5. r.op = "rotx" /\ r.keys = req[c].keys /\ r.stage = s /\ r.time = req[c].time /\ r.at = req[c].at
  BY <1>1, MyRequest DEF ReqType
<1> HIDE DEF r
<1>6. Srv.gst = gst
  BY DEF Srv
<1>7. \A n : n.req = r /\ n.dt = dt[c] => RequestOK(Srv, n)
  BY <1>1, <1>3, <1>5, <1>6, MyRequest DEF RequestOK
<1> QED  BY <1>1, <1>2, <1>4, <1>7, OnlyReq

-----------------------------------------------------------------------------
(***************************************************************************)
(* Gets                                                                    *)
(***************************************************************************)
\* What exists of a covered key is known.
LEMMA RealIsKnown ==
    ASSUME NEW x, NEW k \in Covered(x), NEW t, Real(x, k, t)
    PROVE  Known(x, k, t)
  BY DEF Real, Known

\* What is known is in the store as soon as its server has reached its time.
LEMMA HasArrived ==
    ASSUME NEW x \in Servers, NEW k \in Key, ChainOK(x, k),
           NEW t, Known(x, k, t), t # 0,
           k \in LocalKeys \/ t <= x.other[PartitionFor(k)]
    PROVE  Has(x, k, t)
<1>1. CASE Has(x, k, t)
  BY <1>1
<1>2. CASE k \in Covered(x) /\ t \in DOMAIN x.log /\ x.log[t] = k
  <2>1. k \in RemoteKeys
    BY <1>2, LogFacts, ServersFacts
  <2>2. x.one
    BY <1>2, <2>1, KeyFacts DEF Covered
  <2>3. Due(x, PartitionFor(k), t)
    BY <2>1, <2>2, KeyFacts DEF Due
  <2> QED  BY <1>2, <2>3 DEF ChainOK
<1> QED  BY <1>1, <1>2 DEF Known

\* GetValue returns the newest version that is visible, or none.
LEMMA GetValueIs ==
    ASSUME Types, NEW k \in Key, ChainOK(Srv, k), NEW g \in Time
    PROVE  /\ GetValue(k, g) \in Version
           /\ Genuine(Srv, k, GetValue(k, g))
           /\ ~GetValue(k, g).here => GetValue(k, g).ut <= g
           /\ \A i \in DOMAIN store[k] :
                store[k][i].here \/ store[k][i].ut <= g => store[k][i].ut <= GetValue(k, g).ut
<1> DEFINE visible == {i \in DOMAIN store[k] : store[k][i].here \/ store[k][i].ut <= g}
<1>1. /\ store[k] \in Seq(Version) /\ Sorted(store[k]) /\ Srv.store[k] = store[k]
      /\ \A i \in DOMAIN store[k] : store[k][i] \in Version /\ Genuine(Srv, k, store[k][i])
      /\ visible \subseteq DOMAIN store[k]
  <2>1. store[k] \in Seq(Version) /\ Srv.store[k] = store[k]
    BY SrvType DEF Types
  <2> QED  BY <2>1, VersionFacts DEF ChainOK
<1>2. GetValue(k, g) = GetValueAt(store[k], visible)
  BY DEF GetValue
<1>3. CASE visible = {}
  <2>1. GetValue(k, g) = NoVersion
    BY <1>2, <1>3 DEF GetValueAt
  <2>2. Genuine(Srv, k, NoVersion)
    BY NoVersionFacts DEF Genuine, Real
  <2> QED  BY <1>3, <2>1, <2>2, NoVersionFacts, TimeFacts
<1>4. CASE visible # {}
  <2>1. PICK i \in visible : /\ GetValue(k, g) = store[k][i]
                             /\ \A j \in visible : store[k][j].ut <= store[k][i].ut
    BY <1>1, <1>2, <1>4, FirstVisible
  <2> QED  BY <1>1, <2>1
<1> QED  BY <1>3, <1>4

\* A get under a GST that covers the client's own shows what it must.
LEMMA SeenIsRead ==
    ASSUME IInv, NEW c \in Client, NEW k \in Key, cgst[c] <= gst[PartitionFor(k)]
    PROVE  GetValue(k, gst[PartitionFor(k)]).ut >= seen[c][k]
<1> DEFINE p == PartitionFor(k)
           g == gst[p]
           t == seen[c][k]
           v == GetValue(k, g)
<1>1. p \in Partition
  BY KeyFacts
<1>2. /\ t \in Time /\ g \in Time /\ cgst[c] \in Time /\ other[p] \in Time
      /\ t \in Int /\ g \in Int /\ cgst[c] \in Int /\ other[p] \in Int
  <2>1. t \in Time /\ g \in Time /\ cgst[c] \in Time /\ other[p] \in Time
    BY <1>1, Mine DEF Types
  <2> QED  BY <2>1, TimeFacts
<1>3. /\ ChainOK(Srv, k) /\ Safe(Srv, g) /\ Types /\ Srv \in Servers
      /\ Srv.other = other /\ Srv.store = store
  BY <1>1, Mine, SrvType DEF ServersOK
<1>4. v \in Version /\ v.ut \in Int /\ v.ut >= 0
  BY <1>2, <1>3, GetValueIs, VersionFacts, TimeFacts
<1>5. Known(Srv, k, t) /\ (k \in RemoteKeys => t <= cgst[c])
  <2>1. SessionOK(Srv, Cli(c)) /\ Cli(c).seen = seen[c] /\ Cli(c).cgst = cgst[c]
    BY Mine, CliType DEF ClientOK
  <2> QED  BY <2>1 DEF SessionOK
<1>6. k \in LocalKeys \/ (t <= g /\ t <= other[p])
  <2>1. k \in RemoteKeys => t <= g
    BY <1>2, <1>5
  <2>2. g <= other[p]
    BY <1>1, <1>3 DEF Safe
  <2> QED  BY <1>2, <2>1, <2>2, KeyFacts
<1>7. CASE t = 0
  BY <1>4, <1>7
<1>8. CASE t # 0
  <2>1. Has(Srv, k, t)
    BY <1>3, <1>5, <1>6, <1>8, HasArrived
  <2>2. PICK i \in DOMAIN store[k] : store[k][i].ut = t
    BY <1>3, <2>1 DEF Has
  <2>3. store[k][i].here \/ store[k][i].ut <= g
    BY <1>3, <1>6, <2>2 DEF ChainOK
  <2>4. store[k][i].ut <= v.ut
    BY <1>2, <1>3, <2>3, GetValueIs
  <2> QED  BY <1>2, <1>4, <2>2, <2>4
<1> QED  BY <1>7, <1>8

\* The types of an answer of one value
LEMMA AnswerType ==
    ASSUME Types, NEW c \in Client, TheKey(c) \in Key,
           NEW v \in Version, NEW g \in Time, Answer(c, v, g)
    PROVE  /\ DOMAIN reply' = Client
           /\ \A d \in Client :
                /\ DOMAIN reply'[d] \subseteq Key
                /\ \A k \in DOMAIN reply'[d] : reply'[d][k] \in Reply
           /\ \A d \in Client \ {c} : reply'[d] = reply[d]
           /\ DOMAIN reply'[c] = {TheKey(c)}
           /\ reply'[c][TheKey(c)].value = v
           /\ reply'[c][TheKey(c)].gst = g
<1> DEFINE a == [k \in {TheKey(c)} |-> [value |-> v, gst |-> g]]
<1>1. reply' = [reply EXCEPT ![c] = a]
  BY DEF Answer
<1>2. DOMAIN a = {TheKey(c)} /\ a[TheKey(c)] = [value |-> v, gst |-> g]
  OBVIOUS
<1>3. [value |-> v, gst |-> g] \in Reply
  BY DEF Reply
<1> HIDE DEF a
<1>4. DOMAIN reply' = Client /\ reply'[c] = a /\ \A d \in Client \ {c} : reply'[d] = reply[d]
  BY <1>1 DEF Types
<1>5. \A d \in Client : DOMAIN reply'[d] \subseteq Key /\ \A k \in DOMAIN reply'[d] : reply'[d][k] \in Reply
  <2> TAKE d \in Client
  <2>1. CASE d = c
    BY <1>2, <1>3, <1>4, <2>1
  <2>2. CASE d # c
    BY <1>4, <2>2 DEF Types
  <2> QED  BY <2>1, <2>2
<1> QED  BY <1>2, <1>4, <1>5

\* A get is answered.
LEMMA GetAnswered ==
    ASSUME IInv, NEW c \in Client, req[c].op = "get",
           req[c].stage \in {"sent", "locked"},
           req[c].at = PartitionFor(TheKey(c)), cgst[c] <= gst[req[c].at],
           req' = Stage(c, "answered"),
           Answer(c, GetValue(TheKey(c), gst[req[c].at]), gst[req[c].at]),
           UNCHANGED <<servers, session, slice, remote, single_core>>
    PROVE  IInv'
<1> DEFINE k == TheKey(c)
           g == gst[req[c].at]
           v == GetValue(k, g)
           r == [req[c] EXCEPT !.stage = "answered"]
           n == Cli(c)'
<1>1. k \in Key /\ req[c].keys = {k} /\ req[c] \in ReqType /\ PartitionFor(k) \in Partition
      /\ Safe(Srv, req[c].time) /\ req[c].at \in Partition
  BY MyRequest, KeyFacts
<1>2. Types /\ Srv \in Servers /\ ServersOK(Srv) /\ ClientOK(Srv, Cli(c))
  BY Mine
<1>3. g \in Time /\ Safe(Srv, g) /\ ChainOK(Srv, k)
  BY <1>1, <1>2, SrvType DEF Types, ServersOK
<1>4. v \in Version /\ Genuine(Srv, k, v) /\ (~v.here => v.ut <= g)
  BY <1>1, <1>2, <1>3, GetValueIs
<1>5. v.ut >= seen[c][k]
  BY <1>1, SeenIsRead
<1> HIDE DEF k, v, g
<1>6. Answer(c, v, g) /\ TheKey(c) = k
  BY DEF k, v, g
<1>7. /\ DOMAIN reply' = Client
      /\ \A d \in Client :
            DOMAIN reply'[d] \subseteq Key /\ \A j \in DOMAIN reply'[d] : reply'[d][j] \in Reply
      /\ \A d \in Client \ {c} : reply'[d] = reply[d]
      /\ DOMAIN reply'[c] = {k} /\ reply'[c][k].value = v /\ reply'[c][k].gst = g
  BY <1>1, <1>2, <1>3, <1>4, <1>6, AnswerType
<1>8. r \in ReqType
  BY <1>1, ReqFields DEF Stages
<1>9. req' = [req EXCEPT ![c] = r] /\ req \in [Client -> ReqType]
  BY <1>2 DEF Stage, Types
<1>10. r.op = "get" /\ r.stage = "answered" /\ r.keys = {k} /\ r.time = req[c].time
       /\ r.at = req[c].at
  BY <1>1 DEF ReqType
<1> HIDE DEF r
<1>11. Types'
  BY <1>2, <1>7, <1>8, <1>9 DEF Types, servers, session
<1>12. \A d \in Client \ {c} : Cli(d)' = Cli(d)
  BY <1>2, <1>7, <1>9 DEF Cli, servers, session
<1>13. /\ n.req = r /\ n.reply = reply'[c] /\ n.slice = Cli(c).slice
       /\ n.dt = Cli(c).dt /\ n.cgst = Cli(c).cgst
       /\ n.past = Cli(c).past /\ n.seen = Cli(c).seen /\ n.seen = seen[c]
  BY <1>9 DEF Cli, session
<1> HIDE DEF n
<1>14. SessionOK(Srv, n)
  BY <1>2, <1>13 DEF ClientOK, SessionOK
<1>15. RequestOK(Srv, n)
  BY <1>1, <1>7, <1>10, <1>13 DEF RequestOK
<1>16. ReplyOK(Srv, n)
  BY <1>3, <1>4, <1>5, <1>7, <1>10, <1>13 DEF ReplyOK, ValueOK
<1>17. SliceOK(Srv, n)
  <2>1. \A j \in Key : n.slice[j].stage = "none"
    BY <1>2, <1>13, NothingYet, CliType
  <2> QED  BY <2>1 DEF SliceOK, HasValue
<1> QED  BY <1>11, <1>12, <1>14, <1>15, <1>16, <1>17, OneClient DEF ClientOK, n

\* The get is answered at once or waits for the lock.
LEMMA GetRequestStep ==
    ASSUME IInv, NEW c \in Client, GetRequest(c)
    PROVE  IInv'
<1> DEFINE p == req[c].at
           r == [req[c] EXCEPT !.stage = "locking"]
<1>1. req[c].op = "get" /\ req[c].stage = "sent" /\ PartitionFor(TheKey(c)) = p
  BY DEF GetRequest, Arrived, At
<1>2. p \in Partition /\ req[c] \in ReqType /\ req[c].keys = {TheKey(c)} /\ TheKey(c) \in Key
  BY <1>1, MyRequest
<1>3. CASE NeedUpdate(p, cgst[c])
  <2>1. req' = [req EXCEPT ![c] = r] /\ UNCHANGED <<servers, session, slice, reply, remote, single_core>>
    BY <1>3 DEF GetRequest, Stage, fixed
  <2>2. r \in ReqType
    BY <1>2, ReqFields DEF Stages
  <2>3. r.op = "get" /\ r.stage = "locking" /\ r.keys = req[c].keys /\ r.time = req[c].time
        /\ r.at = p
    BY <1>1, <1>2 DEF ReqType
  <2> HIDE DEF r
  <2>4. \A n : n.req = r => RequestOK(Srv, n)
    BY <1>1, <1>2, <2>3, MyRequest DEF RequestOK
  <2> QED  BY <1>1, <2>1, <2>2, <2>4, OnlyReq
<1>4. CASE ~NeedUpdate(p, cgst[c])
  <2>1. /\ req' = Stage(c, "answered")
        /\ Answer(c, GetValue(TheKey(c), gst[p]), gst[p])
        /\ UNCHANGED <<servers, session, slice, remote, single_core>>
    BY <1>4 DEF GetRequest, fixed
  <2>2. cgst[c] <= gst[p]
    <3>1. gst[p] \in Int /\ cgst[c] \in Int
      BY <1>2, Mine, TimeFacts DEF Types
    <3> QED  BY <1>4, <3>1 DEF NeedUpdate
  <2> QED  BY <1>1, <2>1, <2>2, GetAnswered
<1> QED  BY <1>3, <1>4

\* The get is answered after it has raised the GST.
LEMMA GetRequestUnlockedStep ==
    ASSUME IInv, NEW c \in Client, GetRequestUnlocked(c)
    PROVE  IInv'
<1>1. req[c].op = "get" /\ req[c].stage = "locked"
  BY DEF GetRequestUnlocked, At
<1>2. req[c].at = PartitionFor(TheKey(c)) /\ cgst[c] <= gst[req[c].at]
  BY <1>1, MyRequest
<1> QED  BY <1>1, <1>2, GetAnswered DEF GetRequestUnlocked, fixed

-----------------------------------------------------------------------------
(***************************************************************************)
(* The GST rises                                                           *)
(***************************************************************************)
\* A GST rises to one that is safe, and the transactions that waited for it go on.
LEMMA GstRises ==
    ASSUME IInv, NEW p \in Partition, NEW g \in Time, Safe(Srv, g),
           NEW reqs \in [Client -> ReqType], UpdateGst(p, g, reqs),
           UNCHANGED <<clock, other, applied, store, remote, single_core>>
    PROVE  /\ gst' \in [Partition -> Time] /\ g <= gst'[p]
           /\ Srv' \in Servers /\ Srv'.gst = gst'
           /\ Grown(Srv, Srv') /\ ServersOK(Srv')
           /\ req' \in [Client -> ReqType]
           /\ \A d \in Client :
                \/ req'[d] = reqs[d]
                \/ /\ reqs[d].stage = "waiting" /\ reqs[d].at = p /\ dt[d] <= gst'[p]
                   /\ req'[d] = [reqs[d] EXCEPT !.stage = "snapshot"]
<1> DEFINE G == Max2(gst[p], g)
<1>1. Types /\ Srv \in Servers /\ ServersOK(Srv) /\ gst \in [Partition -> Time]
  BY Mine, SrvType DEF IInv, Types
<1>2. gst[p] \in Time /\ G \in Time /\ gst[p] <= G /\ g <= G /\ G \in {gst[p], g}
  BY <1>1, Max2Is
<1>3. gst' = [gst EXCEPT ![p] = G]
  BY <1>1 DEF UpdateGst
<1> HIDE DEF G
<1>4. gst' \in [Partition -> Time] /\ gst'[p] = G /\ \A q \in Partition \ {p} : gst'[q] = gst[q]
  BY <1>1, <1>2, <1>3
<1>5. /\ Srv'.clock = Srv.clock /\ Srv'.other = Srv.other /\ Srv'.gst = gst' /\ Srv.gst = gst
      /\ Srv'.store = Srv.store /\ Srv'.log = Srv.log
      /\ Srv'.applied = Srv.applied /\ Srv'.one = Srv.one
  BY DEF Srv
<1>6. Srv' \in Servers
  BY <1>1, <1>4 DEF Srv, Servers, Types
<1>7. Grown(Srv, Srv')
  <2>1. ASSUME NEW q \in Partition PROVE gst[q] <= gst'[q]
    <3>1. gst[q] \in Int
      BY <1>1, TimeFacts
    <3>2. CASE q = p
      BY <1>2, <1>4, <3>2
    <3>3. CASE q # p
      BY <1>4, <3>1, <3>3
    <3> QED  BY <3>2, <3>3
  <2>2. ASSUME NEW q \in Partition
        PROVE  /\ Srv.clock[q] <= Srv.clock[q] /\ Srv.other[q] <= Srv.other[q]
               /\ Srv.applied[q] <= Srv.applied[q]
    BY <1>1, ServersFacts
  <2> QED  BY <1>5, <2>1, <2>2 DEF Grown
<1>8. ServersOK(Srv')
  <2>1. \A k \in Key : ChainOK(Srv', k)
    BY <1>1, <1>5 DEF ServersOK, ChainOK, Genuine, Real, Has, Reached, Due
  <2>2. ASSUME NEW q \in Partition PROVE Safe(Srv, gst'[q])
    BY <1>1, <1>2, <1>4, <1>5 DEF ServersOK
  <2> QED  BY <1>5, <2>1, <2>2 DEF ServersOK, Safe
<1>9. ASSUME NEW d \in Client
      PROVE  /\ req'[d] \in ReqType
             /\ \/ req'[d] = reqs[d]
                \/ /\ reqs[d].stage = "waiting" /\ reqs[d].at = p /\ dt[d] <= gst'[p]
                   /\ req'[d] = [reqs[d] EXCEPT !.stage = "snapshot"]
  <2>1. CASE gst[p] < g /\ reqs[d].stage = "waiting" /\ reqs[d].at = p /\ dt[d] < g
    <3>1. req'[d] = [reqs[d] EXCEPT !.stage = "snapshot"]
      BY <2>1 DEF UpdateGst, Woken
    <3>2. dt[d] \in Int /\ g \in Int /\ G \in Int
      BY <1>1, <1>2, TimeFacts DEF Types
    <3>3. dt[d] <= gst'[p]
      BY <1>2, <1>4, <2>1, <3>2
    <3>4. req'[d] \in ReqType
      <4>1. reqs[d] \in ReqType /\ "snapshot" \in Stages
        BY DEF Stages
      <4>2. [reqs[d] EXCEPT !.stage = "snapshot"] \in ReqType
        BY <4>1, ReqFields
      <4> QED  BY <3>1, <4>2
    <3> QED  BY <2>1, <3>1, <3>3, <3>4
  <2>2. CASE ~(gst[p] < g /\ reqs[d].stage = "waiting" /\ reqs[d].at = p /\ dt[d] < g)
    <3>1. req'[d] = reqs[d]
      BY <2>2 DEF UpdateGst, Woken
    <3> QED  BY <3>1
  <2> QED  BY <2>1, <2>2
<1>10. req' \in [Client -> ReqType]
  <2>1. DOMAIN req' = Client /\ req' = [d \in Client |-> req'[d]]
    BY DEF UpdateGst, Woken
  <2> QED  BY <1>9, <2>1
<1> QED  BY <1>2, <1>4, <1>5, <1>6, <1>7, <1>8, <1>9, <1>10

\* A transaction that waited is woken.
LEMMA WokenOK ==
    ASSUME NEW x \in Servers, NEW m, NEW n, ClientType(m), ClientOK(x, m),
           m.req.stage = "waiting", m.dt <= x.gst[m.req.at],
           n.req = [m.req EXCEPT !.stage = "snapshot"],
           n.slice = m.slice, n.reply = m.reply,
           n.dt = m.dt, n.cgst = m.cgst, n.past = m.past, n.seen = m.seen
    PROVE  ClientOK(x, n)
<1>1. /\ n.req.op = m.req.op /\ n.req.keys = m.req.keys /\ n.req.at = m.req.at
      /\ n.req.time = m.req.time /\ n.req.stage = "snapshot"
  BY DEF ClientType, ReqType
<1>2. RequestOK(x, m)
  BY DEF ClientOK
<1>3. RequestOK(x, n)
  BY <1>1, <1>2 DEF RequestOK
<1> QED  BY <1>3, RequestGoesOn

\* It is enough to look at the client whose handler raises the GST.
LEMMA GstStep ==
    ASSUME IInv, NEW p \in Partition, NEW g \in Time, Safe(Srv, g),
           NEW reqs \in [Client -> ReqType], UpdateGst(p, g, reqs),
           UNCHANGED <<clock, other, applied, store, session, reply, remote, single_core>>,
           slice' \in [Client -> [Key -> SliceType]],
           \A d \in Client : \/ reqs[d] = req[d] /\ slice'[d] = slice[d]
                             \/ ClientOK(Srv', Cli(d)')
    PROVE  IInv'
<1>1. /\ gst' \in [Partition -> Time] /\ g <= gst'[p]
      /\ Srv' \in Servers /\ Srv'.gst = gst'
      /\ Grown(Srv, Srv') /\ ServersOK(Srv')
      /\ req' \in [Client -> ReqType]
      /\ \A d \in Client :
            \/ req'[d] = reqs[d]
            \/ /\ reqs[d].stage = "waiting" /\ reqs[d].at = p /\ dt[d] <= gst'[p]
               /\ req'[d] = [reqs[d] EXCEPT !.stage = "snapshot"]
  BY GstRises
<1>2. Types'
  BY <1>1, Mine DEF IInv, Types, session
<1>3. ASSUME NEW d \in Client, reqs[d] = req[d], slice'[d] = slice[d]
      PROVE  Cli(d)' = Cli(d) \/ ClientOK(Srv', Cli(d)')
  <2>1. CASE req'[d] = req[d]
    BY <1>3, <2>1 DEF Cli, session
  <2>2. CASE /\ req[d].stage = "waiting" /\ req[d].at = p /\ dt[d] <= gst'[p]
             /\ req'[d] = [req[d] EXCEPT !.stage = "snapshot"]
    <3> DEFINE m == Cli(d)
               n == Cli(d)'
    <3>1. ClientType(m) /\ ClientOK(Srv', m)
      BY <1>1, Mine, ClientKept
    <3>2. /\ m.req = req[d] /\ m.dt = dt[d]
          /\ n.req = req'[d]
          /\ n.slice = m.slice /\ n.reply = m.reply
          /\ n.dt = m.dt /\ n.cgst = m.cgst /\ n.past = m.past /\ n.seen = m.seen
      BY <1>3 DEF Cli, session
    <3> HIDE DEF m, n
    <3>3. ClientOK(Srv', n)
      BY <1>1, <2>2, <3>1, <3>2, WokenOK
    <3> QED  BY <3>3 DEF n
  <2> QED  BY <1>1, <1>3, <2>1, <2>2
<1> QED  BY <1>1, <1>2, <1>3, Step

\* A round of the GST ends, or a forwarded get brings a greater one.
LEMMA GstUpdateStep ==
    ASSUME IInv, NEW p \in Partition, NEW g \in Time, GstUpdate(p, g)
    PROVE  IInv'
<1>1. Safe(Srv, g)
  BY DEF GstUpdate, Safe, Srv
<1>2. UpdateGst(p, g, req) /\ UNCHANGED <<clock, other, applied, store, session, slice, reply, remote, single_core>>
  BY DEF GstUpdate, fixed
<1>3. req \in [Client -> ReqType] /\ slice \in [Client -> [Key -> SliceType]]
  BY DEF IInv, Types
<1> QED  BY <1>1, <1>2, <1>3, GstStep

\* The handler of a client's request raises the GST, and the request goes on.
LEMMA RequestRaises ==
    ASSUME IInv, NEW c \in Client, NEW g \in Time, Safe(Srv, g),
           req[c].at \in Partition, NEW r \in ReqType,
           r.stage # "waiting",
           req[c].stage \notin {"slicing", "answered"},
           ~(req[c].op = "put" /\ req[c].stage = "locked"),
           UpdateGst(req[c].at, g, [req EXCEPT ![c] = r]),
           UNCHANGED <<clock, other, applied, store, session, slice, reply, remote, single_core>>,
           \A n : /\ n.req = r /\ n.dt = dt[c] /\ n.cgst = cgst[c]
                  /\ Srv' \in Servers /\ Grown(Srv, Srv')
                  /\ Srv'.gst = gst' /\ g <= gst'[req[c].at]
                  => RequestOK(Srv', n)
    PROVE  IInv'
<1> DEFINE reqs == [req EXCEPT ![c] = r]
           p    == req[c].at
           m    == Cli(c)
           n    == Cli(c)'
<1>1. req \in [Client -> ReqType] /\ slice \in [Client -> [Key -> SliceType]]
  BY DEF IInv, Types
<1>2. reqs \in [Client -> ReqType] /\ reqs[c] = r /\ \A d \in Client \ {c} : reqs[d] = req[d]
  BY <1>1
<1>3. /\ UpdateGst(p, g, reqs) /\ p \in Partition
      /\ UNCHANGED <<clock, other, applied, store, remote, single_core>>
  OBVIOUS
<1> HIDE DEF reqs, p
<1>4. /\ g <= gst'[p] /\ Srv' \in Servers /\ Srv'.gst = gst' /\ Grown(Srv, Srv')
      /\ req'[c] = r
  <2>1. /\ g <= gst'[p] /\ Srv' \in Servers /\ Srv'.gst = gst' /\ Grown(Srv, Srv')
        /\ req'[c] = reqs[c] \/ reqs[c].stage = "waiting"
    <3>1. \A d \in Client :
            \/ req'[d] = reqs[d]
            \/ /\ reqs[d].stage = "waiting" /\ reqs[d].at = p /\ dt[d] <= gst'[p]
               /\ req'[d] = [reqs[d] EXCEPT !.stage = "snapshot"]
      BY <1>2, <1>3, GstRises
    <3>2. g <= gst'[p] /\ Srv' \in Servers /\ Srv'.gst = gst' /\ Grown(Srv, Srv')
      BY <1>2, <1>3, GstRises
    <3> QED  BY <3>1, <3>2
  <2> QED  BY <1>2, <2>1
<1>5. ClientOK(Srv', m)
  BY <1>4, Mine, ClientKept
<1>6. /\ m.req = req[c] /\ n.req = r
      /\ n.slice = m.slice /\ n.reply = m.reply /\ n.dt = dt[c] /\ n.cgst = cgst[c]
      /\ n.dt = m.dt /\ n.cgst = m.cgst /\ n.past = m.past /\ n.seen = m.seen
  BY <1>4 DEF Cli, session
<1> HIDE DEF m, n
<1>7. RequestOK(Srv', n)
  BY <1>4, <1>6 DEF p
<1>8. ClientOK(Srv', n)
  BY <1>4, <1>5, <1>6, <1>7, RequestGoesOn
<1> QED  BY <1>1, <1>2, <1>3, <1>8, GstStep DEF n, p

\* The get raises the server's GST to the client's.
LEMMA GetRequestLockedStep ==
    ASSUME IInv, NEW c \in Client, GetRequestLocked(c)
    PROVE  IInv'
<1> DEFINE r == [req[c] EXCEPT !.stage = "locked"]
<1>1. req[c].op = "get" /\ req[c].stage = "locking"
  BY DEF GetRequestLocked, At
<1>2. /\ req[c].at \in Partition /\ req[c] \in ReqType /\ cgst[c] \in Time
      /\ req[c].keys = {TheKey(c)} /\ TheKey(c) \in Key
      /\ req[c].at = PartitionFor(TheKey(c)) /\ Safe(Srv, req[c].time) /\ req[c].time \in Time
  BY <1>1, MyRequest, ReqFields
<1>3. UpdateGst(req[c].at, cgst[c], [req EXCEPT ![c] = r])
      /\ UNCHANGED <<clock, other, applied, store, session, slice, reply, remote, single_core>>
  BY DEF GetRequestLocked, Stage, fixed
<1>4. r \in ReqType
  BY <1>2, ReqFields DEF Stages
<1>5. r.op = "get" /\ r.stage = "locked" /\ r.keys = req[c].keys /\ r.time = req[c].time
      /\ r.at = req[c].at
  BY <1>1, <1>2 DEF ReqType
<1>6. Safe(Srv, cgst[c])
  BY Mine, CliType DEF ClientOK, SessionOK
<1> HIDE DEF r
<1>7. ASSUME NEW n, n.req = r, n.dt = dt[c], n.cgst = cgst[c],
             Srv' \in Servers, Grown(Srv, Srv'), Srv'.gst = gst', cgst[c] <= gst'[req[c].at]
      PROVE  RequestOK(Srv', n)
  <2>1. Safe(Srv', req[c].time)
    BY <1>2, <1>7, Kept, Mine
  <2> QED  BY <1>2, <1>5, <1>7, <2>1 DEF RequestOK
<1> QED  BY <1>1, <1>2, <1>3, <1>4, <1>5, <1>6, <1>7, RequestRaises

\* The snapshot's time is fixed: it is safe and covers the client's past.
LEMMA SnapshotRequestLockedStep ==
    ASSUME IInv, NEW c \in Client, SnapshotRequestLocked(c)
    PROVE  IInv'
<1> DEFINE p == req[c].at
           t == Max2(gst[p], cgst[c])
           r == [req[c] EXCEPT !.stage = "locked", !.time = t]
<1>1. req[c].op = "rotx" /\ req[c].stage = "snapshot"
  BY DEF SnapshotRequestLocked, At
<1>2. /\ p \in Partition /\ req[c] \in ReqType /\ cgst[c] \in Time /\ dt[c] \in Time
      /\ dt[c] <= gst[p] /\ gst[p] \in Time
  BY <1>1, MyRequest, Mine DEF Types
<1>3. UpdateGst(p, cgst[c], [req EXCEPT ![c] = r])
      /\ UNCHANGED <<clock, other, applied, store, session, slice, reply, remote, single_core>>
  BY DEF SnapshotRequestLocked, fixed
<1>4. t \in Time /\ gst[p] <= t /\ t \in {gst[p], cgst[c]}
  BY <1>2, Max2Is
<1>5. Safe(Srv, cgst[c]) /\ Safe(Srv, gst[p])
  BY <1>2, Mine, CliType, SrvType DEF ClientOK, SessionOK, ServersOK
<1>6. Safe(Srv, t) /\ dt[c] <= t
  <2>1. Safe(Srv, t)
    BY <1>4, <1>5
  <2>2. dt[c] \in Int /\ gst[p] \in Int /\ t \in Int
    BY <1>2, <1>4, TimeFacts
  <2>3. dt[c] <= t
    BY <1>2, <1>4, <2>2
  <2> QED  BY <2>1, <2>3
<1> HIDE DEF t
<1>7. r \in ReqType
  BY <1>2, <1>4, ReqFields DEF Stages
<1>8. r.op = "rotx" /\ r.stage = "locked" /\ r.keys = req[c].keys /\ r.time = t /\ r.at = p
  BY <1>1, <1>2 DEF ReqType
<1> HIDE DEF r
<1>9. ASSUME NEW n, n.req = r, n.dt = dt[c], Srv' \in Servers, Grown(Srv, Srv')
      PROVE  RequestOK(Srv', n)
  <2>1. Safe(Srv', t)
    BY <1>4, <1>6, <1>9, Kept, Mine
  <2> QED  BY <1>2, <1>6, <1>8, <1>9, <2>1 DEF RequestOK
<1> QED  BY <1>1, <1>2, <1>3, <1>5, <1>7, <1>8, <1>9, RequestRaises

-----------------------------------------------------------------------------
(***************************************************************************)
(* Clocks, heartbeats and new versions                                     *)
(***************************************************************************)
\* v may go in front of the chain of k when the servers go from x to y.
Fresh(x, y, k, v) ==
    /\ y.store[k] = <<v>> \o x.store[k]
    /\ v.ut > Reached(x, k) /\ v.ut <= Reached(y, k) /\ Late(x, k, v)
    /\ v.here <=> k \in LocalKeys
    /\ \A j \in Key : Real(x, j, v.deps[j]) /\ v.deps[j] < v.ut

\* A chain reaches no less than before.
LEMMA ReachedGrows ==
    ASSUME NEW x \in Servers, NEW y \in Servers, Grown(x, y), NEW k \in Key
    PROVE  Reached(x, k) <= Reached(y, k)
  BY KeyFacts DEF Reached, Grown

\* A version that is newer than all the server knows of is not dropped.
LEMMA PutInFront ==
    ASSUME NEW x \in Servers, NEW k \in Key, ChainOK(x, k),
           NEW v \in Version, v.ut > Reached(x, k)
    PROVE  PutValue(x.store[k], v) = <<v>> \o x.store[k]
<1>1. x.store[k] \in Seq(Version)
  BY ServersFacts
<1>2. CASE x.store[k] = <<>>
  BY <1>2 DEF PutValue
<1>3. CASE x.store[k] # <<>>
  <2>1. 1 \in DOMAIN x.store[k] /\ Head(x.store[k]) = x.store[k][1]
    BY <1>1, <1>3
  <2>2. x.store[k][1].ut <= Reached(x, k)
    BY <2>1 DEF ChainOK
  <2>3. x.store[k][1].ut \in Int /\ Reached(x, k) \in Int /\ v.ut \in Int
    BY <2>1, ServersFacts, VersionFacts
  <2>4. ~(Head(x.store[k]).ut > v.ut)
    BY <2>1, <2>2, <2>3
  <2> QED  BY <2>4 DEF PutValue
<1> QED  BY <1>2, <1>3

\* A chain stays all right when nothing, or a fresh version, goes in front.
LEMMA ChainGrows ==
    ASSUME NEW x \in Servers, NEW y \in Servers, Grown(x, y), NEW k \in Key, ChainOK(x, k),
           y.store[k] = x.store[k] \/ \E v \in Version : Fresh(x, y, k, v),
           \A t \in DOMAIN y.log :
                y.log[t] = k /\ Due(y, PartitionFor(k), t) =>
                    Due(x, PartitionFor(k), t) \/ Has(y, k, t)
    PROVE  ChainOK(y, k)
<1> DEFINE Fits(v) == /\ Genuine(y, k, v)
                      /\ \A j \in Key : v.deps[j] < v.ut
                      /\ v.here <=> k \in LocalKeys
                      /\ v.ut <= Reached(y, k)
<1>1. \A t \in DOMAIN y.log :
        y.log[t] = k /\ Due(y, PartitionFor(k), t) => Has(y, k, t)
  <2>1. y.log = x.log
    BY DEF Grown
  <2> QED  BY <2>1, Kept DEF ChainOK
<1>2. \A i \in DOMAIN x.store[k] : Fits(x.store[k][i])
  <2> TAKE i \in DOMAIN x.store[k]
  <2>1. x.store[k][i] \in Version /\ x.store[k][i].ut \in Int
    BY ServersFacts
  <2>2. Genuine(y, k, x.store[k][i])
    BY <2>1, Kept DEF ChainOK
  <2>3. x.store[k][i].ut <= Reached(x, k) /\ Reached(x, k) <= Reached(y, k)
    BY ReachedGrows DEF ChainOK
  <2>4. Reached(x, k) \in Int /\ Reached(y, k) \in Int
    BY ServersFacts
  <2>5. x.store[k][i].ut <= Reached(y, k)
    BY <2>1, <2>3, <2>4
  <2> QED  BY <2>2, <2>5 DEF ChainOK
<1>3. CASE y.store[k] = x.store[k]
  BY <1>1, <1>2, <1>3 DEF ChainOK
<1>4. CASE \E v \in Version : Fresh(x, y, k, v)
  <2>1. PICK v \in Version : Fresh(x, y, k, v)
    BY <1>4
  <2> DEFINE new == y.store[k]
             old == x.store[k]
  <2>2. /\ old \in Seq(Version)
        /\ new[1] = v /\ 1 \in DOMAIN new /\ DOMAIN new \subseteq Nat
        /\ \A i \in DOMAIN new : i # 1 => i - 1 \in DOMAIN old /\ new[i] = old[i - 1]
    BY <2>1, InFront, ServersFacts DEF Fresh
  <2>3. \A i \in DOMAIN old : old[i].ut < v.ut
    <3> TAKE i \in DOMAIN old
    <3>1. old[i].ut <= Reached(x, k) /\ Reached(x, k) < v.ut
      BY <2>1 DEF ChainOK, Fresh
    <3>2. old[i].ut \in Int /\ Reached(x, k) \in Int /\ v.ut \in Int
      BY ServersFacts, VersionFacts
    <3> QED  BY <3>1, <3>2
  <2>4. Fits(v)
    <3>1. Has(y, k, v.ut)
      BY <2>2 DEF Has
    <3>2. \A j \in Key : Real(y, j, v.deps[j]) /\ v.deps[j] < v.ut /\ v.deps[j] <= v.ut
      <4> TAKE j \in Key
      <4>1. Real(x, j, v.deps[j]) /\ v.deps[j] < v.ut
        BY <2>1 DEF Fresh
      <4>2. v.deps[j] \in Int /\ v.ut \in Int
        BY VersionFacts
      <4> QED  BY <4>1, <4>2, Kept
    <3> QED  BY <2>1, <3>1, <3>2 DEF Genuine, Fresh
  <2>5. \A i \in DOMAIN new : Fits(new[i])
    <3> TAKE i \in DOMAIN new
    <3> HIDE DEF Fits
    <3> QED  BY <1>2, <2>2, <2>4
  <2>6. Sorted(new)
    <3> SUFFICES ASSUME NEW i \in DOMAIN new, NEW j \in DOMAIN new, i < j
                 PROVE  new[j].ut < new[i].ut
      BY DEF Sorted
    <3>1. DOMAIN new \subseteq Nat /\ 0 \notin DOMAIN new
      BY ServersFacts
    <3>2. j # 1 /\ j - 1 \in DOMAIN old /\ new[j] = old[j - 1]
      BY <2>2, <3>1
    <3>3. CASE i = 1
      BY <2>2, <2>3, <3>2, <3>3
    <3>4. CASE i # 1
      <4>1. i - 1 \in DOMAIN old /\ new[i] = old[i - 1] /\ i - 1 < j - 1
        BY <2>2, <3>1, <3>4
      <4> QED  BY <3>2, <4>1 DEF ChainOK, Sorted
    <3> QED  BY <3>3, <3>4
  <2> QED  BY <1>1, <2>5, <2>6 DEF ChainOK
<1> QED  BY <1>3, <1>4

\* The servers are all right when each chain has grown as it may.
LEMMA ServersGrow ==
    ASSUME NEW x \in Servers, NEW y \in Servers, ServersOK(x),
           y.gst = x.gst, y.log = x.log, y.one = x.one,
           \A p \in Partition : /\ x.clock[p] <= y.clock[p] /\ x.other[p] <= y.other[p]
                                /\ x.applied[p] <= y.applied[p],
           \A k \in Key :
                /\ y.store[k] = x.store[k] \/ \E v \in Version : Fresh(x, y, k, v)
                /\ \A t \in DOMAIN x.log :
                    x.log[t] = k /\ Due(y, PartitionFor(k), t) =>
                        Due(x, PartitionFor(k), t) \/ Has(y, k, t)
    PROVE  Grown(x, y) /\ ServersOK(y)
<1>1. Grown(x, y)
  <2>1. \A p \in Partition : x.gst[p] <= y.gst[p]
    BY ServersFacts
  <2>2. \A k \in Key :
        \/ y.store[k] = x.store[k]
        \/ \E v \in Version : y.store[k] = <<v>> \o x.store[k] /\ Late(x, k, v)
    BY DEF Fresh
  <2> QED  BY <2>1, <2>2 DEF Grown
<1>2. ASSUME NEW k \in Key PROVE ChainOK(y, k)
  <2>1. ChainOK(x, k)
    BY DEF ServersOK
  <2> QED  BY <1>1, <2>1, ChainGrows
<1>3. \A p \in Partition : Safe(y, y.gst[p])
  BY <1>1, Kept, ServersFacts DEF ServersOK
<1> QED  BY <1>1, <1>2, <1>3 DEF ServersOK

\* Nothing is due that was not when only clocks move on.
LEMMA SameDue ==
    ASSUME NEW x, NEW y, y.other = x.other, y.applied = x.applied, y.one = x.one
    PROVE  \A p, t : Due(y, p, t) => Due(x, p, t)
  BY DEF Due

\* A clock only moves on.
LEMMA ClockTickStep ==
    ASSUME IInv, NEW p \in Partition, NEW t \in Time, ClockTick(p, t)
    PROVE  IInv'
<1>1. /\ t > clock[p] /\ clock' = [clock EXCEPT ![p] = t]
      /\ UNCHANGED <<other, applied, gst, store, session, req, slice, reply, left, remote, single_core>>
  BY DEF ClockTick, fixed
<1>2. Types /\ Srv \in Servers /\ ServersOK(Srv)
  BY SrvType DEF IInv
<1>3. Types'
  BY <1>1, <1>2 DEF Types, session
<1>4. Srv' \in Servers
  BY <1>3 DEF Types, Srv, Servers
<1>5. /\ Srv'.clock = clock' /\ Srv.clock = clock /\ Srv'.other = Srv.other
      /\ Srv'.gst = Srv.gst /\ Srv'.store = Srv.store /\ Srv'.log = Srv.log
      /\ Srv'.applied = Srv.applied /\ Srv'.one = Srv.one
  BY <1>1 DEF Srv
<1>6. \A q \in Partition : /\ clock[q] <= clock'[q] /\ Srv.other[q] <= Srv.other[q]
                           /\ Srv.applied[q] <= Srv.applied[q]
  <2> TAKE q \in Partition
  <2>1. clock[q] \in Int /\ t \in Int /\ Srv.other[q] \in Int /\ Srv.applied[q] \in Int
    BY <1>2, TimeFacts, ServersFacts DEF Types
  <2>2. CASE q = p
    BY <1>1, <1>2, <2>1, <2>2 DEF Types
  <2>3. CASE q # p
    BY <1>1, <1>2, <2>1, <2>3 DEF Types
  <2> QED  BY <2>2, <2>3
<1>7. Grown(Srv, Srv') /\ ServersOK(Srv')
  <2>1. \A q, u : Due(Srv', q, u) => Due(Srv, q, u)
    BY <1>5, SameDue
  <2> QED  BY <1>2, <1>4, <1>5, <1>6, <2>1, ServersGrow
<1>8. \A d \in Client : Cli(d)' = Cli(d)
  BY <1>1 DEF Cli, session
<1> QED  BY <1>3, <1>7, <1>8, Step

\* What the other data centre does to the servers.
LEMMA OtherStep ==
    ASSUME IInv, NEW p \in Partition, NEW t \in Time, other[p] <= t,
           other' = [other EXCEPT ![p] = t],
           NEW a \in Time, applied[p] <= a, applied' = [applied EXCEPT ![p] = a],
           UNCHANGED <<clock, gst, session, req, slice, reply, remote, single_core>>,
           store' \in [Key -> Seq(Version)],
           \A k \in Key : store'[k] = store[k] \/ \E v \in Version : Fresh(Srv, Srv', k, v),
           \A u \in DOMAIN remote :
                /\ remote[u] \in Key /\ PartitionFor(remote[u]) = p
                /\ u <= a \/ (single_core /\ u <= t)
                => Due(Srv, p, u) \/ Has(Srv', remote[u], u)
    PROVE  IInv'
<1>2. Types /\ Srv \in Servers /\ ServersOK(Srv)
  BY SrvType DEF IInv
<1>3. Types'
  BY <1>2 DEF Types, session
<1>4. Srv' \in Servers
  BY <1>3 DEF Types, Srv, Servers
<1>5. /\ Srv'.other = other' /\ Srv.other = other /\ Srv'.clock = Srv.clock
      /\ Srv'.gst = Srv.gst /\ Srv'.store = store' /\ Srv.store = store
      /\ Srv'.log = Srv.log /\ Srv.log = remote
      /\ Srv'.applied = applied' /\ Srv.applied = applied
      /\ Srv'.one = single_core /\ Srv.one = single_core
  BY DEF Srv
<1>6. \A q \in Partition : /\ other[q] <= other'[q] /\ applied[q] <= applied'[q]
                           /\ Srv.clock[q] <= Srv.clock[q]
  <2> TAKE q \in Partition
  <2>1. other[q] \in Int /\ applied[q] \in Int /\ Srv.clock[q] \in Int
    BY <1>2, TimeFacts, ServersFacts DEF Types
  <2>2. CASE q = p
    BY <1>2, <2>1, <2>2 DEF Types
  <2>3. CASE q # p
    BY <1>2, <2>1, <2>3 DEF Types
  <2> QED  BY <2>2, <2>3
<1>7. ASSUME NEW k \in Key, NEW u \in DOMAIN remote, remote[u] = k,
             Due(Srv', PartitionFor(k), u)
      PROVE  Due(Srv, PartitionFor(k), u) \/ Has(Srv', k, u)
  <2>1. PartitionFor(k) \in Partition
    BY KeyFacts
  <2>2. CASE PartitionFor(k) = p
    <3>1. other'[p] = t /\ applied'[p] = a
      BY <1>2 DEF Types
    <3>2. u <= a \/ (single_core /\ u <= t)
      BY <1>5, <1>7, <2>2, <3>1 DEF Due
    <3> QED  BY <1>7, <2>2, <3>2
  <2>3. CASE PartitionFor(k) # p
    <3>1. other'[PartitionFor(k)] = other[PartitionFor(k)]
          /\ applied'[PartitionFor(k)] = applied[PartitionFor(k)]
      BY <1>2, <2>1, <2>3 DEF Types
    <3> QED  BY <1>5, <1>7, <3>1 DEF Due
  <2> QED  BY <2>2, <2>3
<1>8. Grown(Srv, Srv') /\ ServersOK(Srv')
  BY <1>2, <1>4, <1>5, <1>6, <1>7, ServersGrow
<1>9. \A d \in Client : Cli(d)' = Cli(d)
  BY DEF Cli, session
<1> QED  BY <1>3, <1>8, <1>9, Step

\* A heartbeat moves the version vector only: with one core per server to a
\* time up to which every update has been applied.
LEMMA HeartbeatStep ==
    ASSUME IInv, NEW p \in Partition, NEW t \in Time, Heartbeat(p, t)
    PROVE  IInv'
<1>1. /\ t > other[p] /\ (single_core => RemotePuts(p, applied[p], t) = {})
      /\ other' = [other EXCEPT ![p] = t]
      /\ UNCHANGED <<clock, applied, gst, store, session, req, slice, reply, remote, single_core>>
  BY DEF Heartbeat, fixed
<1>2. /\ store \in [Key -> Seq(Version)] /\ remote \in RemoteLogs
      /\ applied \in [Partition -> Time] /\ other \in [Partition -> Time]
  BY DEF IInv, Types
<1>3. applied[p] \in Time /\ applied[p] \in Int /\ other[p] \in Int /\ t \in Int
  BY <1>2, TimeFacts
<1>4. applied' = [applied EXCEPT ![p] = applied[p]]
  BY <1>1, <1>2
<1>5. ASSUME NEW u \in DOMAIN remote, remote[u] \in Key, PartitionFor(remote[u]) = p,
             u <= applied[p] \/ (single_core /\ u <= t)
      PROVE  Due(Srv, p, u)
  <2>1. u \in Int
    BY <1>2, LogFacts
  <2>2. u <= applied[p]
    <3>1. SUFFICES ASSUME single_core, u <= t, ~(u <= applied[p]) PROVE FALSE
      BY <1>5
    <3>2. remote[u] # NoKey
      BY <1>5, KeyFacts
    <3>3. u \in RemotePuts(p, applied[p], t)
      BY <1>3, <1>5, <2>1, <3>1, <3>2 DEF RemotePuts
    <3> QED  BY <1>1, <3>1, <3>3
  <2> QED  BY <2>2 DEF Due, Srv
<1>6. other[p] <= t /\ applied[p] <= applied[p]
  BY <1>1, <1>3
<1>7. UNCHANGED <<clock, gst, session, req, slice, reply, remote, single_core>> /\ store' = store
  BY <1>1
<1> QED  BY <1>1, <1>2, <1>3, <1>4, <1>5, <1>6, <1>7, OtherStep

\* What an update of the other data centre depends on has been put before,
\* there or here.
LEMMA RemoteVersionIs ==
    ASSUME IInv, NEW t \in Time, t \in DOMAIN remote
    PROVE  LET v == RemoteVersion(t)
           IN  /\ v \in Version /\ v.ut = t /\ v.here = FALSE
               /\ \A j \in Key : Real(Srv, j, v.deps[j]) /\ v.deps[j] < t
<1> DEFINE There(j)  == {u \in DOMAIN remote : u < t /\ remote[u] = j}
           Here(j)   == {u \in {store[j][i].ut : i \in DOMAIN store[j]} : u < t}
           Before(j) == There(j) \cup Here(j)
           deps == [j \in Key |-> MaxOf({0} \cup There(j) \cup Here(j))]
<1>1. remote \in RemoteLogs /\ Srv.log = remote /\ Srv.store = store /\ Srv \in Servers
  BY SrvType DEF IInv, Types
<1>2. \A u \in DOMAIN remote : u \in Nat
  BY <1>1, LogFacts
<1>3. t \in Nat /\ t # 0 /\ t <= MaxTime
  BY <1>1, LogFacts, TimeFacts
<1>4. ASSUME NEW j \in Key
      PROVE  LET m == MaxOf({0} \cup Before(j)) IN m \in Time /\ m < t /\ Real(Srv, j, m)
  <2>0. There(j) \subseteq Time
    BY <1>2, <1>3, TimeFacts DEF Time
  <2>1. Before(j) \subseteq Time
    <3>1. \A i \in DOMAIN store[j] : store[j][i] \in Version
      BY <1>1, ServersFacts
    <3>2. \A i \in DOMAIN store[j] : store[j][i].ut \in Time
      BY <3>1, VersionFacts
    <3> QED  BY <2>0, <3>2
  <2>2. {0} \cup Before(j) \subseteq Time
    BY <2>1, TimeFacts
  <2> DEFINE m == MaxOf({0} \cup Before(j))
  <2>3. m \in {0} \cup Before(j) /\ m \in Time
    BY <2>2, MaxOfIs
  <2> HIDE DEF m
  <2>4. CASE m = 0
    BY <1>3, <2>3, <2>4 DEF Real, m
  <2>5. CASE m \in There(j)
    BY <1>1, <2>3, <2>5 DEF Real, m
  <2>6. CASE m \in Here(j)
    <3>1. m < t /\ Has(Srv, j, m)
      BY <1>1, <2>6 DEF Has
    <3> QED  BY <2>3, <3>1 DEF Real, m
  <2> QED  BY <2>3, <2>4, <2>5, <2>6 DEF m
<1>5. deps \in [Key -> Time] /\ \A j \in Key : deps[j] < t /\ Real(Srv, j, deps[j])
  <2>1. \A j \in Key : {0} \cup Before(j) = {0} \cup There(j) \cup Here(j)
    OBVIOUS
  <2> HIDE DEF There, Here, Before
  <2> QED  BY <1>4, <2>1
<1>6. RemoteVersion(t) = [ut |-> t, here |-> FALSE, deps |-> deps]
  BY DEF RemoteVersion
<1> HIDE DEF deps
<1> QED  BY <1>5, <1>6 DEF Version

\* An update of the other data centre goes in front of its chain.
LEMMA ReplicaUpdateStep ==
    ASSUME IInv, NEW p \in Partition, NEW t \in Time, ReplicaUpdate(p, t)
    PROVE  IInv'
<1> DEFINE k == remote[t]
           v == RemoteVersion(t)
           b == Max2(other[p], t)
<1>1. /\ RemotePuts(p, applied[p], t) = {t}
      /\ store' = [store EXCEPT ![k] = PutValue(@, v)]
      /\ applied' = [applied EXCEPT ![p] = t]
      /\ other' = [other EXCEPT ![p] = b]
      /\ UNCHANGED <<clock, gst, session, req, slice, reply, remote, single_core>>
  <2>1. other \in [Partition -> Time]
    BY DEF IInv, Types
  <2> QED  BY <2>1 DEF ReplicaUpdate, fixed
<1>2. t \in DOMAIN remote /\ k # NoKey /\ PartitionFor(k) = p /\ applied[p] < t
  BY <1>1 DEF RemotePuts
<1>3. Types /\ Srv \in Servers /\ ServersOK(Srv)
  BY SrvType DEF IInv
<1>4. k \in RemoteKeys /\ k \in Key /\ k \notin LocalKeys
  <2>1. remote \in Seq(RemoteKeys \cup {NoKey})
    BY <1>3, SessionAssumption DEF Types
  <2>2. k \in RemoteKeys
    BY <1>2, <2>1
  <2> QED  BY <2>2, KeyFacts
<1>5. /\ v \in Version /\ v.ut = t /\ v.here = FALSE
      /\ \A j \in Key : Real(Srv, j, v.deps[j]) /\ v.deps[j] < t
  BY <1>2, RemoteVersionIs
<1> HIDE DEF v, b
<1>6. Reached(Srv, k) = applied[p]
  BY <1>2, <1>4 DEF Reached, Srv
<1>7. /\ store \in [Key -> Seq(Version)] /\ Srv.store = store
      /\ other \in [Partition -> Time] /\ applied \in [Partition -> Time]
      /\ other[p] \in Time /\ other[p] \in Int /\ applied[p] \in Int /\ t \in Int
  <2>1. /\ store \in [Key -> Seq(Version)] /\ Srv.store = store
        /\ other \in [Partition -> Time] /\ applied \in [Partition -> Time]
    BY <1>3, SrvType DEF Types
  <2> QED  BY <2>1, TimeFacts
<1>8. PutValue(store[k], v) = <<v>> \o store[k]
  <2>1. ChainOK(Srv, k)
    BY <1>3, <1>4 DEF ServersOK
  <2>2. v.ut > Reached(Srv, k)
    BY <1>2, <1>5, <1>6, <1>7
  <2> QED  BY <1>3, <1>4, <1>5, <1>7, <2>1, <2>2, PutInFront
<1>9. /\ store' = [store EXCEPT ![k] = <<v>> \o store[k]]
      /\ <<v>> \o store[k] \in Seq(Version)
  BY <1>1, <1>4, <1>5, <1>7, <1>8
<1> HIDE DEF k
<1>10. /\ store' \in [Key -> Seq(Version)] /\ store'[k] = <<v>> \o store[k]
       /\ \A j \in Key \ {k} : store'[j] = store[j]
  BY <1>4, <1>7, <1>9
<1>11. Fresh(Srv, Srv', k, v)
  <2>1. Reached(Srv', k) = t
    BY <1>1, <1>2, <1>4, <1>7 DEF Reached, Srv
  <2>2. Srv'.store[k] = <<v>> \o Srv.store[k]
    BY <1>10 DEF Srv
  <2>3. t <= t /\ t > applied[p]
    BY <1>2, <1>7
  <2>4. Late(Srv, k, v)
    <3> SUFFICES ASSUME k \in Covered(Srv), NEW u \in Time, Safe(Srv, u) PROVE u < t
      BY <1>5 DEF Late
    <3>1. single_core
      BY <1>4 DEF Covered, Srv
    <3>2. ~(t <= other[p])
      <4> SUFFICES ASSUME t <= other[p] PROVE FALSE
        OBVIOUS
      <4>1. Due(Srv, p, t)
        BY <3>1 DEF Due, Srv
      <4>2. ChainOK(Srv, k) /\ t \in DOMAIN Srv.log /\ Srv.log[t] = k
        BY <1>2, <1>3, <1>4, SrvType DEF ServersOK, k
      <4>3. PICK i \in DOMAIN Srv.store[k] : Srv.store[k][i].ut = t
        BY <1>2, <4>1, <4>2 DEF ChainOK, Has
      <4>4. t <= applied[p]
        BY <1>6, <4>2, <4>3 DEF ChainOK
      <4> QED  BY <1>7, <2>3, <4>4
    <3>3. u <= other[p] /\ u \in Int
      BY TimeFacts DEF Safe, Srv
    <3> QED  BY <1>7, <3>2, <3>3
  <2> QED  BY <1>4, <1>5, <1>6, <2>1, <2>2, <2>3, <2>4 DEF Fresh
<1>12. Has(Srv', remote[t], t)
  <2>1. 1 \in DOMAIN store'[k] /\ store'[k][1] = v
    BY <1>4, <1>5, <1>7, <1>10, InFront
  <2>2. Srv'.store = store'
    BY DEF Srv
  <2> QED  BY <1>5, <2>1, <2>2 DEF Has, k
<1>13. \A j \in Key : store'[j] = store[j] \/ \E w \in Version : Fresh(Srv, Srv', j, w)
  BY <1>5, <1>10, <1>11
<1>14. b \in Time /\ other[p] <= b /\ t <= b /\ b \in {other[p], t}
  BY <1>7, Max2Is DEF b
<1>15. ASSUME NEW u \in DOMAIN remote, remote[u] \in Key, PartitionFor(remote[u]) = p,
              u <= t \/ (single_core /\ u <= b)
       PROVE  Due(Srv, p, u) \/ Has(Srv', remote[u], u)
  <2>1. u \in Int /\ remote[u] # NoKey
    BY <1>3, <1>15, LogFacts, KeyFacts DEF Types
  <2>2. CASE u <= t /\ ~(u <= applied[p])
    <3>1. u \in RemotePuts(p, applied[p], t)
      BY <1>7, <1>15, <2>1, <2>2 DEF RemotePuts
    <3>2. u = t
      BY <1>1, <3>1
    <3> QED  BY <1>12, <3>2
  <2>3. CASE u <= applied[p] \/ (single_core /\ u <= other[p])
    BY <2>3 DEF Due, Srv
  <2> QED  BY <1>14, <1>15, <2>2, <2>3
<1>16. applied[p] <= t
  BY <1>2, <1>7
<1> QED  BY <1>1, <1>10, <1>13, <1>14, <1>15, <1>16, OtherStep

-----------------------------------------------------------------------------
(***************************************************************************)
(* Puts                                                                    *)
(***************************************************************************)
\* The put gets a time after everything the client depends on, so its version
\* is fresh.
LEMMA PutRequestLockedStep ==
    ASSUME IInv, NEW c \in Client, NEW t \in Time, PutRequestLocked(c, t)
    PROVE  IInv'
<1> DEFINE p == req[c].at
           k == TheKey(c)
           v == [ut |-> t, here |-> TRUE, deps |-> past[c]]
           r == [req[c] EXCEPT !.stage = "locked"]
           m == Cli(c)
           n == Cli(c)'
<1>1. /\ req[c].op = "put" /\ req[c].stage = "locking"
      /\ t > clock[p] /\ t > req[c].time
      /\ clock' = [clock EXCEPT ![p] = t]
      /\ store' = [store EXCEPT ![k] = PutValue(@, v)]
      /\ Answer(c, v, 0)
      /\ req' = [req EXCEPT ![c] = r]
      /\ UNCHANGED <<other, applied, gst, session, slice, left, remote, single_core>>
  BY DEF PutRequestLocked, At, Stage, fixed
<1>2. /\ p \in Partition /\ k \in Key /\ k \in LocalKeys /\ req[c].keys = {k}
      /\ p = PartitionFor(k) /\ req[c] \in ReqType /\ dt[c] \in Time /\ dt[c] <= req[c].time
      /\ req[c].time \in Time
  BY <1>1, MyRequest, ReqFields
<1>3. Types /\ Srv \in Servers /\ ServersOK(Srv) /\ ClientOK(Srv, m) /\ ClientType(m)
  BY Mine
<1>4. /\ clock \in [Partition -> Time] /\ store \in [Key -> Seq(Version)]
      /\ req \in [Client -> ReqType] /\ past[c] \in [Key -> Time]
      /\ Srv.clock = clock /\ Srv.store = store
  BY <1>3, SrvType DEF Types
<1>5. v \in Version /\ v.ut = t /\ v.here = TRUE /\ v.deps = past[c]
  BY <1>4 DEF Version
<1>6. r \in ReqType
  BY <1>2, ReqFields DEF Stages
<1>7. r.op = "put" /\ r.stage = "locked" /\ r.keys = {k} /\ r.at = p
  BY <1>1, <1>2 DEF ReqType
<1> HIDE DEF v, r
<1>8. \A j \in Key : Real(Srv, j, v.deps[j]) /\ v.deps[j] < t
  <2> TAKE j \in Key
  <2>1. Real(Srv, j, past[c][j]) /\ past[c][j] <= dt[c]
    BY <1>3, CliType DEF ClientOK, SessionOK
  <2>2. past[c][j] \in Int /\ dt[c] \in Int /\ req[c].time \in Int /\ t \in Int
    <3>1. past[c][j] \in Time
      BY <1>4
    <3> QED  BY <1>2, <3>1, TimeFacts
  <2>3. past[c][j] < t
    BY <1>1, <1>2, <2>1, <2>2
  <2> QED  BY <1>5, <2>1, <2>3
<1>9. Reached(Srv, k) = clock[p]
  BY <1>2, <1>4 DEF Reached
<1>10. PutValue(store[k], v) = <<v>> \o store[k]
  <2>1. ChainOK(Srv, k)
    BY <1>2, <1>3 DEF ServersOK
  <2> QED  BY <1>1, <1>2, <1>3, <1>4, <1>5, <1>9, <2>1, PutInFront
<1>11. store' = [store EXCEPT ![k] = <<v>> \o store[k]] /\ <<v>> \o store[k] \in Seq(Version)
  BY <1>1, <1>2, <1>4, <1>5, <1>10
<1>12. /\ DOMAIN reply' = Client
       /\ \A d \in Client :
            DOMAIN reply'[d] \subseteq Key /\ \A j \in DOMAIN reply'[d] : reply'[d][j] \in Reply
       /\ \A d \in Client \ {c} : reply'[d] = reply[d]
       /\ DOMAIN reply'[c] = {k} /\ reply'[c][k].value = v /\ reply'[c][k].gst = 0
  BY <1>1, <1>2, <1>3, <1>5, AnswerType, TimeFacts
<1> HIDE DEF k
<1>13. /\ store' \in [Key -> Seq(Version)] /\ store'[k] = <<v>> \o store[k]
       /\ \A j \in Key \ {k} : store'[j] = store[j]
  BY <1>2, <1>4, <1>11
<1>14. Types'
  <2>1. clock' \in [Partition -> Time] /\ req' \in [Client -> ReqType]
    BY <1>1, <1>2, <1>4, <1>6
  <2> QED  BY <1>1, <1>3, <1>12, <1>13, <2>1 DEF Types, session
<1>15. Srv' \in Servers
  BY <1>14 DEF Types, Srv, Servers
<1>16. /\ Srv'.clock = clock' /\ Srv'.other = Srv.other
       /\ Srv'.gst = Srv.gst /\ Srv'.store = store' /\ Srv'.log = Srv.log
       /\ Srv'.applied = Srv.applied /\ Srv'.one = Srv.one
  BY <1>1 DEF Srv
<1>17. \A q \in Partition : /\ clock[q] <= clock'[q] /\ Srv.other[q] <= Srv.other[q]
                            /\ Srv.applied[q] <= Srv.applied[q]
  <2> TAKE q \in Partition
  <2>1. clock[q] \in Int /\ t \in Int /\ Srv.other[q] \in Int /\ Srv.applied[q] \in Int
    BY <1>3, <1>4, TimeFacts, ServersFacts
  <2>2. CASE q = p
    BY <1>1, <1>4, <2>1, <2>2
  <2>3. CASE q # p
    BY <1>1, <1>4, <2>1, <2>3
  <2> QED  BY <2>2, <2>3
<1>18. Fresh(Srv, Srv', k, v)
  <2>1. Reached(Srv', k) = t
    BY <1>1, <1>2, <1>4, <1>16 DEF Reached
  <2>2. t <= t
    BY TimeFacts
  <2>3. Late(Srv, k, v)
    <3> SUFFICES ASSUME NEW u \in Time, Safe(Srv, u) PROVE u < t
      BY <1>5 DEF Late
    <3>1. u <= clock[p] /\ u \in Int /\ clock[p] \in Int /\ t \in Int
      BY <1>2, <1>4, TimeFacts DEF Safe
    <3> QED  BY <1>1, <3>1
  <2> QED  BY <1>1, <1>2, <1>4, <1>5, <1>8, <1>9, <1>13, <1>16, <2>1, <2>2, <2>3 DEF Fresh
<1>19. Grown(Srv, Srv') /\ ServersOK(Srv')
  <2>1. \A j \in Key : Srv'.store[j] = Srv.store[j] \/ \E w \in Version : Fresh(Srv, Srv', j, w)
    BY <1>4, <1>5, <1>13, <1>16, <1>18
  <2>2. \A q, u : Due(Srv', q, u) => Due(Srv, q, u)
    BY <1>16, SameDue
  <2> QED  BY <1>3, <1>4, <1>15, <1>16, <1>17, <2>1, <2>2, ServersGrow
<1>20. \A d \in Client \ {c} : Cli(d)' = Cli(d)
  BY <1>1, <1>4, <1>12 DEF Cli, session
<1>21. /\ n.req = r /\ n.reply = reply'[c] /\ n.slice = m.slice
       /\ n.dt = m.dt /\ n.cgst = m.cgst /\ n.past = m.past /\ n.seen = m.seen
       /\ m.req = req[c]
  BY <1>1, <1>4 DEF Cli, session
<1>22. ClientOK(Srv', m)
  BY <1>3, <1>15, <1>19, ClientKept
<1> HIDE DEF m, n
<1>23. SessionOK(Srv', n)
  BY <1>21, <1>22 DEF ClientOK, SessionOK
<1>24. RequestOK(Srv', n)
  BY <1>2, <1>7, <1>21 DEF RequestOK
<1>25. ReplyOK(Srv', n)
  <2>1. Genuine(Srv', k, v)
    <3>1. 1 \in DOMAIN Srv'.store[k] /\ Srv'.store[k][1] = v
      BY <1>2, <1>4, <1>5, <1>13, <1>16, InFront
    <3> QED  BY <1>2, <1>19, <3>1 DEF ServersOK, ChainOK
  <2>2. Safe(Srv', 0)
    BY <1>15, TimeFacts DEF Safe, Servers
  <2>3. ValueOK(Srv', n, k, v, 0)
    BY <1>5, <1>7, <1>21, <2>1, <2>2 DEF ValueOK
  <2> QED  BY <1>7, <1>12, <1>21, <2>3 DEF ReplyOK
<1>26. SliceOK(Srv', n)
  <2>1. \A j \in Key : n.slice[j].stage = "none"
    BY <1>1, <1>15, <1>21, <1>22, NothingYet
  <2> QED  BY <2>1 DEF SliceOK, HasValue
<1>27. ClientOK(Srv', Cli(c)')
  BY <1>23, <1>24, <1>25, <1>26 DEF ClientOK, n
<1> QED  BY <1>14, <1>19, <1>20, <1>27, Step

\* The answer to the put leaves.
LEMMA PutRequestUnlockedStep ==
    ASSUME IInv, NEW c \in Client, PutRequestUnlocked(c)
    PROVE  IInv'
<1> DEFINE r == [req[c] EXCEPT !.stage = "answered"]
           m == Cli(c)
           n == Cli(c)'
<1>1. /\ req[c].op = "put" /\ req[c].stage = "locked"
      /\ req' = [req EXCEPT ![c] = r]
      /\ UNCHANGED <<servers, session, slice, reply, left, remote, single_core>>
  BY DEF PutRequestUnlocked, At, Stage, fixed
<1>2. /\ req[c].at \in Partition /\ req[c] \in ReqType /\ TheKey(c) \in LocalKeys
      /\ TheKey(c) \in Key /\ req[c].keys = {TheKey(c)}
  BY <1>1, MyRequest
<1>3. Types /\ Srv \in Servers /\ ServersOK(Srv) /\ ClientOK(Srv, m)
  BY Mine
<1>4. r \in ReqType
  BY <1>2, ReqFields DEF Stages
<1>5. r.op = "put" /\ r.stage = "answered" /\ r.keys = req[c].keys /\ r.at = req[c].at
  BY <1>1, <1>2 DEF ReqType
<1> HIDE DEF r
<1>6. Types'
  BY <1>1, <1>3, <1>4 DEF Types, servers, session
<1>7. \A d \in Client \ {c} : Cli(d)' = Cli(d)
  BY <1>1, <1>3 DEF Types, Cli, session
<1>8. /\ n.req = r /\ n.reply = m.reply /\ n.slice = m.slice
      /\ n.dt = m.dt /\ n.cgst = m.cgst /\ n.past = m.past /\ n.seen = m.seen
      /\ m.req = req[c]
  BY <1>1, <1>3 DEF Types, Cli, session
<1> HIDE DEF m, n
<1>9. SessionOK(Srv, n)
  BY <1>3, <1>8 DEF ClientOK, SessionOK
<1>10. RequestOK(Srv, n)
  BY <1>2, <1>5, <1>8 DEF RequestOK
<1>11. ReplyOK(Srv, n)
  <2>1. \A k, v, g : ValueOK(Srv, m, k, v, g) => ValueOK(Srv, n, k, v, g)
    BY <1>1, <1>5, <1>8 DEF ValueOK
  <2> QED  BY <1>3, <1>5, <1>8, <2>1 DEF ClientOK, ReplyOK
<1>12. SliceOK(Srv, n)
  <2>1. \A j \in Key : n.slice[j].stage = "none"
    BY <1>1, <1>3, <1>8 DEF ClientOK, SliceOK
  <2> QED  BY <2>1 DEF SliceOK, HasValue
<1>13. ClientOK(Srv, Cli(c)')
  BY <1>9, <1>10, <1>11, <1>12 DEF ClientOK, n
<1> QED  BY <1>1, <1>6, <1>7, <1>13, OneClient

-----------------------------------------------------------------------------
(***************************************************************************)
(* Slices                                                                  *)
(***************************************************************************)
\* A slice that the request still waits for goes on.
LEMMA SliceGoesOn ==
    ASSUME NEW x \in Servers, NEW m, NEW n, ClientType(m), ClientOK(x, m),
           NEW k \in Key, NEW s, m.slice[k].stage # "none",
           n.slice = [m.slice EXCEPT ![k] = s], n.req = m.req, n.reply = m.reply,
           n.dt = m.dt, n.cgst = m.cgst, n.past = m.past, n.seen = m.seen,
           s.stage = "locked" => m.req.time <= x.gst[PartitionFor(k)],
           s.stage \in HasValue => ValueOK(x, m, k, s.value, s.gst)
    PROVE  ClientOK(x, n)
<1>1. n.slice[k] = s /\ \A j \in Key \ {k} : n.slice[j] = m.slice[j]
  BY DEF ClientType
<1>2. SessionOK(x, n)
  BY DEF ClientOK, SessionOK
<1>3. RequestOK(x, n)
  BY DEF ClientOK, RequestOK
<1>4. \A j, v, g : ValueOK(x, m, j, v, g) => ValueOK(x, n, j, v, g)
  BY DEF ValueOK
<1>5. ReplyOK(x, n)
  BY <1>4 DEF ClientOK, ReplyOK
<1>6. SliceOK(x, n)
  <2>1. SliceOK(x, m)
    BY DEF ClientOK
  <2>2. m.req.op = "rotx" /\ m.req.stage = "slicing" /\ k \in m.req.keys /\ k \notin DOMAIN m.reply
    BY <2>1 DEF SliceOK
  <2>3. ASSUME NEW j \in Key
        PROVE  /\ n.slice[j].stage # "none" =>
                    /\ n.req.op = "rotx" /\ n.req.stage = "slicing"
                    /\ j \in n.req.keys /\ j \notin DOMAIN n.reply
               /\ n.slice[j].stage = "locked" => n.req.time <= x.gst[PartitionFor(j)]
               /\ n.slice[j].stage \in HasValue =>
                    ValueOK(x, n, j, n.slice[j].value, n.slice[j].gst)
    <3>1. CASE j = k
      BY <1>1, <1>4, <2>2, <3>1
    <3>2. CASE j # k
      BY <1>1, <1>4, <2>1, <3>2 DEF SliceOK
    <3> QED  BY <3>1, <3>2
  <2> QED  BY <2>3 DEF SliceOK
<1> QED  BY <1>2, <1>3, <1>5, <1>6 DEF ClientOK

\* What is known about a slice of c
LEMMA MySlice ==
    ASSUME IInv, NEW c \in Client, NEW k \in Key, slice[c][k].stage # "none"
    PROVE  /\ req[c].op = "rotx" /\ req[c].stage = "slicing" /\ k \in req[c].keys
           /\ k \notin DOMAIN reply[c]
           /\ req[c].at \in Partition /\ req[c].time \in Time /\ Safe(Srv, req[c].time)
           /\ slice[c] \in [Key -> SliceType]
           /\ slice[c][k].stage = "locked" => req[c].time <= gst[PartitionFor(k)]
           /\ slice[c][k].stage \in HasValue =>
                ValueOK(Srv, Cli(c), k, slice[c][k].value, slice[c][k].gst)
<1>1. SliceOK(Srv, Cli(c)) /\ Srv.gst = gst
  BY Mine, SrvType DEF ClientOK
<1>2. Cli(c).req = req[c] /\ Cli(c).slice = slice[c] /\ Cli(c).reply = reply[c]
  BY Mine, CliType
<1>3. /\ req[c].op = "rotx" /\ req[c].stage = "slicing" /\ k \in req[c].keys
      /\ k \notin DOMAIN reply[c]
      /\ slice[c][k].stage = "locked" => req[c].time <= gst[PartitionFor(k)]
      /\ slice[c][k].stage \in HasValue =>
            ValueOK(Srv, Cli(c), k, slice[c][k].value, slice[c][k].gst)
  BY <1>1, <1>2 DEF SliceOK
<1>4. slice[c] \in [Key -> SliceType]
  BY Mine DEF Types
<1> QED  BY <1>3, <1>4, MyRequest, ReqFields

\* A slice keeps its type, value and GST when its stage changes.
LEMMA SliceFields ==
    ASSUME NEW s \in SliceType
    PROVE  /\ s.value \in Version /\ s.gst \in Time
           /\ \A g \in HasValue \cup {"locking", "locked"} :
                LET t == [s EXCEPT !.stage = g]
                IN  t \in SliceType /\ t.stage = g /\ t.value = s.value /\ t.gst = s.gst
  BY DEF SliceType, HasValue

\* A slice goes on while the servers do nothing.
LEMMA OneSlice ==
    ASSUME IInv, NEW c \in Client, NEW k \in Key, slice[c][k].stage # "none",
           NEW s \in SliceType, slice' = [slice EXCEPT ![c][k] = s],
           UNCHANGED <<servers, session, req, reply, remote, single_core>>,
           s.stage = "locked" => req[c].time <= gst[PartitionFor(k)],
           s.stage \in HasValue => ValueOK(Srv, Cli(c), k, s.value, s.gst)
    PROVE  IInv'
<1> DEFINE m == Cli(c)
           n == Cli(c)'
<1>1. Types /\ Srv \in Servers /\ ClientType(m) /\ ClientOK(Srv, m) /\ Srv.gst = gst
  BY Mine, SrvType
<1>2. slice \in [Client -> [Key -> SliceType]]
  BY <1>1 DEF Types
<1>3. slice' \in [Client -> [Key -> SliceType]] /\ slice'[c] = [slice[c] EXCEPT ![k] = s]
      /\ \A d \in Client \ {c} : slice'[d] = slice[d]
  BY <1>2
<1>4. Types'
  BY <1>1, <1>3 DEF Types, servers, session
<1>5. \A d \in Client \ {c} : Cli(d)' = Cli(d)
  BY <1>3 DEF Cli, session
<1>6. /\ m.req = req[c] /\ m.slice = slice[c]
      /\ n.slice = [m.slice EXCEPT ![k] = s] /\ n.req = m.req /\ n.reply = m.reply
      /\ n.dt = m.dt /\ n.cgst = m.cgst /\ n.past = m.past /\ n.seen = m.seen
  BY <1>3 DEF Cli, session
<1>7. s.stage \in HasValue => ValueOK(Srv, m, k, s.value, s.gst)
  OBVIOUS
<1> HIDE DEF m, n
<1>8. ClientOK(Srv, n)
  BY <1>1, <1>6, <1>7, SliceGoesOn
<1> QED  BY <1>4, <1>5, <1>8, OneClient DEF n

\* What the chain of k has at a safe time t is no older than any version of k
\* up to t that is known, even one that is known of only as a dependency.
LEMMA SliceCovers ==
    ASSUME NEW x \in Servers, NEW k \in Key, ChainOK(x, k), NEW t \in Time, Safe(x, t),
           NEW v \in Version, IsSlice(x, k, t, v), NEW u \in Time, Known(x, k, u), u <= t
    PROVE  u <= v.ut
<1>1. v.ut \in Int /\ 0 <= v.ut /\ u \in Int /\ t \in Int
  BY VersionFacts, TimeFacts
<1>2. CASE u = 0
  BY <1>1, <1>2
<1>3. CASE u # 0
  <2>1. PartitionFor(k) \in Partition
    BY KeyFacts
  <2>2. t <= x.other[PartitionFor(k)] /\ x.other[PartitionFor(k)] \in Int
    BY <2>1, ServersFacts DEF Safe
  <2>3. u <= x.other[PartitionFor(k)]
    BY <1>1, <2>2
  <2>4. Has(x, k, u)
    BY <1>3, <2>3, HasArrived
  <2>5. PICK i \in DOMAIN x.store[k] : x.store[k][i].ut = u
    BY <2>4 DEF Has
  <2>6. ~(x.store[k][i].ut > t)
    BY <1>1, <2>5
  <2> QED  BY <2>5, <2>6 DEF IsSlice
<1> QED  BY <1>2, <1>3

\* What a slice reads at a server whose GST has reached the snapshot time
LEMMA SendSliceStep ==
    ASSUME IInv, NEW c \in Client, NEW k \in Key, slice[c][k].stage # "none",
           req[c].time <= gst[PartitionFor(k)], SendSlice(c, k),
           UNCHANGED <<servers, session, req, reply, remote, single_core>>
    PROVE  IInv'
<1> DEFINE t == req[c].time
           g == gst[PartitionFor(k)]
           v == GetSlice(k, t)
           s == [stage |-> "reply", value |-> v, gst |-> g]
<1>1. Types /\ ServersOK(Srv) /\ Srv.gst = gst /\ Srv.store = store /\ Srv \in Servers
  BY Mine, SrvType
<1>2. /\ PartitionFor(k) \in Partition /\ req[c].op = "rotx" /\ t \in Time /\ Safe(Srv, t)
      /\ dt[c] <= t /\ dt[c] \in Time
  BY KeyFacts, MySlice, MyRequest
<1>3. g \in Time /\ Safe(Srv, g) /\ ChainOK(Srv, k)
  BY <1>1, <1>2 DEF Types, ServersOK
<1>4. IsSlice(Srv, k, t, v)
  BY <1>1, <1>2, <1>3, SliceIs
<1>5. v \in Version /\ Genuine(Srv, k, v)
  <2>1. CASE v = NoVersion
    BY <2>1, NoVersionFacts, TimeFacts DEF Genuine, Real
  <2>2. ASSUME NEW i \in DOMAIN Srv.store[k], v = Srv.store[k][i]
        PROVE  v \in Version /\ Genuine(Srv, k, v)
    BY <1>1, <1>3, <2>2, ServersFacts DEF ChainOK
  <2> QED  BY <1>4, <2>1, <2>2 DEF IsSlice
<1> HIDE DEF v, t, g
<1>6. s \in SliceType /\ s.stage = "reply" /\ s.value = v /\ s.gst = g
  BY <1>3, <1>5 DEF SliceType, HasValue
<1>7. slice' = [slice EXCEPT ![c][k] = s]
  BY DEF SendSlice, v, t, g
<1>8. ValueOK(Srv, Cli(c), k, v, g)
  <2>1. Cli(c).req = req[c] /\ Cli(c).seen = seen[c] /\ Cli(c).dt = dt[c]
    BY <1>1, CliType
  <2>2. v.ut <= t
    BY <1>2, <1>4, NoVersionFacts, TimeFacts DEF IsSlice
  <2>3. seen[c][k] \in Time /\ Known(Srv, k, seen[c][k]) /\ seen[c][k] <= dt[c]
    BY <1>1, <2>1, Mine DEF Types, ClientOK, SessionOK
  <2>4. seen[c][k] \in Int /\ dt[c] \in Int /\ t \in Int /\ v.ut \in Int
    BY <1>2, <1>5, <2>3, TimeFacts, VersionFacts
  <2>5. seen[c][k] <= t
    BY <1>2, <2>3, <2>4
  <2>6. seen[c][k] <= v.ut
    BY <1>1, <1>2, <1>3, <1>4, <1>5, <2>3, <2>5, SliceCovers
  <2>7. v.ut >= seen[c][k]
    BY <2>4, <2>6
  <2> QED  BY <1>2, <1>3, <1>4, <1>5, <2>1, <2>2, <2>7 DEF ValueOK, t, g
<1> HIDE DEF s
<1> QED  BY <1>6, <1>7, <1>8, OneSlice

\* The slice is read at once or waits for the lock.
LEMMA SliceRequestStep ==
    ASSUME IInv, NEW c \in Client, NEW k \in Key, SliceRequest(c, k)
    PROVE  IInv'
<1>1. slice[c][k].stage = "sent" /\ UNCHANGED <<servers, session, req, reply, left, remote, single_core>>
  BY DEF SliceRequest, fixed
<1>2. slice[c] \in [Key -> SliceType] /\ req[c].time \in Time /\ PartitionFor(k) \in Partition
  BY <1>1, MySlice, KeyFacts
<1>3. CASE NeedUpdate(PartitionFor(k), req[c].time) /\ slice' = [slice EXCEPT ![c][k].stage = "locking"]
  <2> DEFINE s == [slice[c][k] EXCEPT !.stage = "locking"]
  <2>1. slice[c][k] \in SliceType
    BY <1>2
  <2>2. s \in SliceType /\ s.stage = "locking"
    BY <2>1, SliceFields
  <2>3. slice' = [slice EXCEPT ![c][k] = s]
    BY <1>3
  <2>4. s.stage # "locked" /\ s.stage \notin HasValue
    BY <2>2 DEF HasValue
  <2> HIDE DEF s
  <2> QED  BY <1>1, <2>2, <2>3, <2>4, OneSlice
<1>4. CASE ~NeedUpdate(PartitionFor(k), req[c].time) /\ SendSlice(c, k)
  <2>1. gst[PartitionFor(k)] \in Int /\ req[c].time \in Int
    BY <1>2, Mine, TimeFacts DEF Types
  <2>2. req[c].time <= gst[PartitionFor(k)]
    BY <1>4, <2>1 DEF NeedUpdate
  <2> QED  BY <1>1, <1>4, <2>2, SendSliceStep
<1> QED  BY <1>3, <1>4 DEF SliceRequest

\* The slice is read after it has raised the GST.
LEMMA SliceRequestUnlockedStep ==
    ASSUME IInv, NEW c \in Client, NEW k \in Key, SliceRequestUnlocked(c, k)
    PROVE  IInv'
<1>1. /\ slice[c][k].stage = "locked" /\ SendSlice(c, k)
      /\ UNCHANGED <<servers, session, req, reply, left, remote, single_core>>
  BY DEF SliceRequestUnlocked, fixed
<1>2. req[c].time <= gst[PartitionFor(k)]
  BY <1>1, MySlice
<1> QED  BY <1>1, <1>2, SendSliceStep

\* The handler of a slice raises the GST, and the slice goes on.
LEMMA SliceRaises ==
    ASSUME IInv, NEW c \in Client, NEW k \in Key, slice[c][k].stage # "none",
           NEW q \in Partition, NEW g \in Time, Safe(Srv, g), UpdateGst(q, g, req),
           NEW s \in SliceType, slice' = [slice EXCEPT ![c][k] = s],
           UNCHANGED <<clock, other, applied, store, session, reply, remote, single_core>>,
           s.stage = "locked" => q = PartitionFor(k) /\ g = req[c].time,
           s.stage \in HasValue =>
                /\ slice[c][k].stage \in HasValue
                /\ s.value = slice[c][k].value /\ s.gst = slice[c][k].gst
    PROVE  IInv'
<1> DEFINE m == Cli(c)
           n == Cli(c)'
<1>1. req \in [Client -> ReqType] /\ slice \in [Client -> [Key -> SliceType]]
  BY DEF IInv, Types
<1>2. slice' \in [Client -> [Key -> SliceType]] /\ slice'[c] = [slice[c] EXCEPT ![k] = s]
      /\ \A d \in Client \ {c} : slice'[d] = slice[d]
  BY <1>1
<1>3. /\ g <= gst'[q] /\ Srv' \in Servers /\ Srv'.gst = gst' /\ Grown(Srv, Srv')
      /\ req'[c] = req[c]
  <2>1. g <= gst'[q] /\ Srv' \in Servers /\ Srv'.gst = gst' /\ Grown(Srv, Srv')
    BY <1>1, GstRises
  <2> DEFINE reqs == req
  <2>2. reqs \in [Client -> ReqType] /\ UpdateGst(q, g, reqs)
    BY <1>1
  <2> HIDE DEF reqs
  <2>3. \A d \in Client :
            \/ req'[d] = reqs[d]
            \/ /\ reqs[d].stage = "waiting" /\ reqs[d].at = q /\ dt[d] <= gst'[q]
               /\ req'[d] = [reqs[d] EXCEPT !.stage = "snapshot"]
    BY <2>2, GstRises
  <2>4. req'[c] = reqs[c] \/ reqs[c].stage = "waiting"
    BY <2>3
  <2>5. req[c].stage = "slicing"
    BY MySlice
  <2> QED  BY <2>1, <2>4, <2>5 DEF reqs
<1>4. ClientType(m) /\ ClientOK(Srv', m)
  BY <1>3, Mine, ClientKept
<1>5. /\ m.req = req[c] /\ m.slice = slice[c]
      /\ n.slice = [m.slice EXCEPT ![k] = s] /\ n.req = m.req /\ n.reply = m.reply
      /\ n.dt = m.dt /\ n.cgst = m.cgst /\ n.past = m.past /\ n.seen = m.seen
  BY <1>2, <1>3 DEF Cli, session
<1> HIDE DEF m, n
<1>6. s.stage \in HasValue => ValueOK(Srv', m, k, s.value, s.gst)
  BY <1>4, <1>5 DEF ClientOK, SliceOK
<1>7. s.stage = "locked" => m.req.time <= Srv'.gst[PartitionFor(k)]
  BY <1>3, <1>5
<1>8. ClientOK(Srv', n)
  BY <1>3, <1>4, <1>5, <1>6, <1>7, SliceGoesOn
<1> QED  BY <1>1, <1>2, <1>8, GstStep DEF n

\* The slice raises the GST of its server to the snapshot's time.
LEMMA SliceRequestLockedStep ==
    ASSUME IInv, NEW c \in Client, NEW k \in Key, SliceRequestLocked(c, k)
    PROVE  IInv'
<1> DEFINE s == [slice[c][k] EXCEPT !.stage = "locked"]
<1>1. /\ slice[c][k].stage = "locking" /\ UpdateGst(PartitionFor(k), req[c].time, req)
      /\ slice' = [slice EXCEPT ![c][k] = s]
      /\ UNCHANGED <<clock, other, applied, store, session, reply, left, remote, single_core>>
  BY DEF SliceRequestLocked, fixed
<1>2. /\ slice[c][k] \in SliceType /\ req[c].time \in Time /\ Safe(Srv, req[c].time)
      /\ PartitionFor(k) \in Partition
  BY <1>1, MySlice, KeyFacts
<1>3. s \in SliceType /\ s.stage = "locked"
  BY <1>2, SliceFields
<1> HIDE DEF s
<1>4. s.stage \notin HasValue
  BY <1>3 DEF HasValue
<1> QED  BY <1>1, <1>2, <1>3, <1>4, SliceRaises

\* The response to a slice raises the GST of the transaction's server.
LEMMA SliceResponseLockedStep ==
    ASSUME IInv, NEW c \in Client, NEW k \in Key, SliceResponseLocked(c, k)
    PROVE  IInv'
<1> DEFINE s == [slice[c][k] EXCEPT !.stage = "reply_locked"]
           g == slice[c][k].gst
<1>1. /\ slice[c][k].stage = "reply_locking" /\ UpdateGst(req[c].at, g, req)
      /\ slice' = [slice EXCEPT ![c][k] = s]
      /\ UNCHANGED <<clock, other, applied, store, session, reply, left, remote, single_core>>
  BY DEF SliceResponseLocked, fixed
<1>2. /\ slice[c][k] \in SliceType /\ req[c].at \in Partition
      /\ slice[c][k].stage \in HasValue
      /\ ValueOK(Srv, Cli(c), k, slice[c][k].value, g)
  BY <1>1, MySlice DEF HasValue
<1>3. Safe(Srv, g) /\ g \in Time
  BY <1>2, SliceFields DEF ValueOK
<1>4. /\ s \in SliceType /\ s.stage = "reply_locked"
      /\ s.value = slice[c][k].value /\ s.gst = slice[c][k].gst
  BY <1>2, SliceFields DEF HasValue
<1> HIDE DEF s
<1>5. s.stage # "locked"
  BY <1>4
<1> QED  BY <1>1, <1>2, <1>3, <1>4, <1>5, SliceRaises

\* The slice requests leave, one per key.
LEMMA SnapshotRequestUnlockedStep ==
    ASSUME IInv, NEW c \in Client, SnapshotRequestUnlocked(c)
    PROVE  IInv'
<1> DEFINE r == [req[c] EXCEPT !.stage = "slicing"]
           sent == [NoSlice EXCEPT !.stage = "sent"]
           s == [k \in Key |-> IF k \in req[c].keys THEN sent ELSE NoSlice]
           m == Cli(c)
           n == Cli(c)'
<1>1. /\ req[c].op = "rotx" /\ req[c].stage = "locked"
      /\ req' = [req EXCEPT ![c] = r] /\ slice' = [slice EXCEPT ![c] = s]
      /\ UNCHANGED <<servers, session, reply, left, remote, single_core>>
  BY DEF SnapshotRequestUnlocked, At, Stage, fixed
<1>2. /\ req[c].at \in Partition /\ req[c] \in ReqType /\ dt[c] <= req[c].time
      /\ Safe(Srv, req[c].time)
  BY <1>1, MyRequest
<1>3. Types /\ Srv \in Servers /\ ServersOK(Srv) /\ ClientOK(Srv, m)
  BY Mine
<1>4. r \in ReqType
  BY <1>2, ReqFields DEF Stages
<1>5. r.op = "rotx" /\ r.stage = "slicing" /\ r.keys = req[c].keys /\ r.at = req[c].at
      /\ r.time = req[c].time
  BY <1>1, <1>2 DEF ReqType
<1>6. NoSlice \in SliceType /\ NoSlice.stage = "none" /\ sent \in SliceType /\ sent.stage = "sent"
  BY NoVersionFacts, TimeFacts DEF NoSlice, SliceType
<1> HIDE DEF r, sent
<1>7. /\ s \in [Key -> SliceType]
      /\ \A k \in Key : s[k].stage = "none" \/ (s[k].stage = "sent" /\ k \in req[c].keys)
  BY <1>6
<1> HIDE DEF s
<1>8. Types'
  BY <1>1, <1>3, <1>4, <1>7 DEF Types, servers, session
<1>9. \A d \in Client \ {c} : Cli(d)' = Cli(d)
  BY <1>1, <1>3 DEF Types, Cli, session
<1>10. /\ n.req = r /\ n.reply = m.reply /\ n.slice = s
       /\ n.dt = m.dt /\ n.cgst = m.cgst /\ n.past = m.past /\ n.seen = m.seen
       /\ m.req = req[c] /\ m.dt = dt[c]
  BY <1>1, <1>3 DEF Types, Cli, session
<1> HIDE DEF m, n
<1>11. SessionOK(Srv, n)
  BY <1>3, <1>10 DEF ClientOK, SessionOK
<1>12. RequestOK(Srv, n)
  BY <1>2, <1>5, <1>10 DEF RequestOK
<1>13. DOMAIN n.reply = {}
  BY <1>1, <1>3, <1>10, NothingYet
<1>14. ReplyOK(Srv, n)
  BY <1>13 DEF ReplyOK
<1>15. SliceOK(Srv, n)
  BY <1>5, <1>7, <1>10, <1>13 DEF SliceOK, HasValue
<1>16. ClientOK(Srv, Cli(c)')
  BY <1>11, <1>12, <1>14, <1>15 DEF ClientOK, n
<1> QED  BY <1>1, <1>8, <1>9, <1>16, OneClient

\* A value of a slice is taken into the snapshot.
LEMMA TakeSliceStep ==
    ASSUME IInv, NEW c \in Client, NEW k \in Key, slice[c][k].stage \in HasValue,
           TakeSlice(c, k), UNCHANGED <<servers, session, remote, single_core>>
    PROVE  IInv'
<1> DEFINE a == [value |-> slice[c][k].value, gst |-> slice[c][k].gst]
           values == [j \in {k} \cup DOMAIN reply[c] |-> IF j = k THEN a ELSE reply[c][j]]
           r == IF DOMAIN values = req[c].keys THEN [req[c] EXCEPT !.stage = "answered"]
                ELSE req[c]
           m == Cli(c)
           n == Cli(c)'
<1>1. /\ slice' = [slice EXCEPT ![c][k] = NoSlice]
      /\ reply' = [reply EXCEPT ![c] = values]
  BY DEF TakeSlice
<1>2. slice[c][k].stage # "none"
  BY DEF HasValue
<1>3. /\ req[c].op = "rotx" /\ req[c].stage = "slicing" /\ k \in req[c].keys
      /\ k \notin DOMAIN reply[c] /\ req[c].at \in Partition /\ Safe(Srv, req[c].time)
      /\ slice[c] \in [Key -> SliceType]
      /\ ValueOK(Srv, m, k, slice[c][k].value, slice[c][k].gst)
  BY <1>2, MySlice
<1>4. req[c] \in ReqType /\ dt[c] <= req[c].time
  BY <1>3, MyRequest
<1>5. Types /\ Srv \in Servers /\ ServersOK(Srv) /\ ClientOK(Srv, m)
  BY Mine
<1>6. a \in Reply
  <2>1. slice[c][k].value \in Version /\ slice[c][k].gst \in Time
    BY <1>3, SliceFields
  <2> QED  BY <2>1 DEF Reply
<1>7. /\ DOMAIN values = {k} \cup DOMAIN reply[c] /\ values[k] = a
      /\ \A j \in DOMAIN reply[c] : values[j] = reply[c][j]
  BY <1>3
<1>8. ValueOK(Srv, m, k, a.value, a.gst)
  BY <1>3
<1> HIDE DEF a, values
<1>9. req' = [req EXCEPT ![c] = r]
  <2>1. req' = IF DOMAIN values = req[c].keys THEN Stage(c, "answered") ELSE req
    BY DEF TakeSlice, values, a
  <2>2. req = [req EXCEPT ![c] = req[c]]
    BY <1>5 DEF Types
  <2> QED  BY <2>1, <2>2 DEF Stage
<1>10. r \in ReqType
  <2>1. [req[c] EXCEPT !.stage = "answered"] \in ReqType
    BY <1>4, ReqFields DEF Stages
  <2> QED  BY <1>4, <2>1
<1>11. /\ r.op = "rotx" /\ r.keys = req[c].keys /\ r.at = req[c].at /\ r.time = req[c].time
       /\ \/ r.stage = "slicing"
          \/ r.stage = "answered" /\ DOMAIN values = req[c].keys
  <2> DEFINE b == [req[c] EXCEPT !.stage = "answered"]
  <2>1. /\ b.op = "rotx" /\ b.keys = req[c].keys /\ b.at = req[c].at /\ b.time = req[c].time
        /\ b.stage = "answered"
    BY <1>3, <1>4 DEF ReqType
  <2> HIDE DEF b
  <2>2. r = IF DOMAIN values = req[c].keys THEN b ELSE req[c]
    BY DEF b
  <2> QED  BY <1>3, <2>1, <2>2
<1> HIDE DEF r
<1>12. /\ slice' \in [Client -> [Key -> SliceType]]
       /\ slice'[c] = [slice[c] EXCEPT ![k] = NoSlice]
       /\ \A d \in Client \ {c} : slice'[d] = slice[d]
  <2>1. NoSlice \in SliceType
    BY NoVersionFacts, TimeFacts DEF NoSlice, SliceType
  <2> QED  BY <1>1, <1>5, <2>1 DEF Types
<1>13. /\ DOMAIN reply' = Client /\ reply'[c] = values
       /\ \A d \in Client \ {c} : reply'[d] = reply[d]
  BY <1>1, <1>5 DEF Types
<1>14. \A d \in Client :
        DOMAIN reply'[d] \subseteq Key /\ \A j \in DOMAIN reply'[d] : reply'[d][j] \in Reply
  <2> TAKE d \in Client
  <2>1. DOMAIN reply[d] \subseteq Key /\ \A j \in DOMAIN reply[d] : reply[d][j] \in Reply
    BY <1>5 DEF Types
  <2>2. CASE d = c
    BY <1>6, <1>7, <1>13, <2>1, <2>2
  <2>3. CASE d # c
    BY <1>13, <2>1, <2>3
  <2> QED  BY <2>2, <2>3
<1>15. Types'
  BY <1>5, <1>9, <1>10, <1>12, <1>13, <1>14 DEF Types, servers, session
<1>16. \A d \in Client \ {c} : Cli(d)' = Cli(d)
  BY <1>5, <1>9, <1>12, <1>13 DEF Types, Cli, session
<1>17. /\ n.req = r /\ n.reply = values /\ n.slice = [slice[c] EXCEPT ![k] = NoSlice]
       /\ n.dt = m.dt /\ n.cgst = m.cgst /\ n.past = m.past /\ n.seen = m.seen
       /\ m.req = req[c] /\ m.dt = dt[c] /\ m.reply = reply[c] /\ m.slice = slice[c]
  BY <1>5, <1>9, <1>12, <1>13 DEF Types, Cli, session
<1> HIDE DEF m, n
<1>18. SessionOK(Srv, n)
  BY <1>5, <1>17 DEF ClientOK, SessionOK
<1>19. RequestOK(Srv, n)
  BY <1>3, <1>4, <1>11, <1>17 DEF RequestOK
<1>20. \A j, v, g : ValueOK(Srv, m, j, v, g) => ValueOK(Srv, n, j, v, g)
  BY <1>3, <1>11, <1>17 DEF ValueOK
<1>21. ReplyOK(Srv, n)
  <2>1. ReplyOK(Srv, m)
    BY <1>5 DEF ClientOK
  <2>2. DOMAIN n.reply \subseteq n.req.keys
    BY <1>3, <1>7, <1>11, <1>17, <2>1 DEF ReplyOK
  <2>3. ASSUME NEW j \in DOMAIN n.reply PROVE ValueOK(Srv, n, j, n.reply[j].value, n.reply[j].gst)
    <3>1. CASE j = k
      BY <1>7, <1>8, <1>17, <1>20, <3>1
    <3>2. CASE j # k
      BY <1>7, <1>17, <1>20, <2>1, <3>2 DEF ReplyOK
    <3> QED  BY <3>1, <3>2
  <2> QED  BY <1>11, <1>17, <2>2, <2>3 DEF ReplyOK
<1>22. SliceOK(Srv, n)
  <2>1. SliceOK(Srv, m)
    BY <1>5 DEF ClientOK
  <2>2. n.slice[k].stage = "none" /\ \A j \in Key \ {k} : n.slice[j] = m.slice[j]
    BY <1>3, <1>17 DEF NoSlice
  <2>3. ASSUME NEW j \in Key
        PROVE  /\ n.slice[j].stage # "none" =>
                    /\ n.req.op = "rotx" /\ n.req.stage = "slicing"
                    /\ j \in n.req.keys /\ j \notin DOMAIN n.reply
               /\ n.slice[j].stage = "locked" => n.req.time <= Srv.gst[PartitionFor(j)]
               /\ n.slice[j].stage \in HasValue =>
                    ValueOK(Srv, n, j, n.slice[j].value, n.slice[j].gst)
    <3>1. CASE j = k
      BY <2>2, <3>1 DEF HasValue
    <3>2. CASE j # k
      <4>1. n.slice[j] = m.slice[j]
        BY <2>2, <3>2
      <4>2. n.slice[j].stage # "none" => j \in req[c].keys /\ j \notin DOMAIN values
        BY <1>7, <1>17, <2>1, <3>2, <4>1 DEF SliceOK
      <4> QED  BY <1>11, <1>17, <1>20, <2>1, <4>1, <4>2 DEF SliceOK
    <3> QED  BY <3>1, <3>2
  <2> QED  BY <2>3 DEF SliceOK
<1>23. ClientOK(Srv, Cli(c)')
  BY <1>18, <1>19, <1>21, <1>22 DEF ClientOK, n
<1> QED  BY <1>15, <1>16, <1>23, OneClient

\* The value of a slice is taken at once or waits for the lock.
LEMMA SliceResponseStep ==
    ASSUME IInv, NEW c \in Client, NEW k \in Key, SliceResponse(c, k)
    PROVE  IInv'
<1>1. slice[c][k].stage = "reply" /\ UNCHANGED <<servers, session, left, remote, single_core>>
  BY DEF SliceResponse, fixed
<1>2. slice[c][k].stage \in HasValue /\ slice[c][k].stage # "none"
  BY <1>1 DEF HasValue
<1>3. CASE slice' = [slice EXCEPT ![c][k].stage = "reply_locking"] /\ UNCHANGED <<req, reply>>
  <2> DEFINE s == [slice[c][k] EXCEPT !.stage = "reply_locking"]
  <2>1. slice[c][k] \in SliceType /\ ValueOK(Srv, Cli(c), k, slice[c][k].value, slice[c][k].gst)
    BY <1>2, MySlice
  <2>2. /\ s \in SliceType /\ s.stage = "reply_locking"
        /\ s.value = slice[c][k].value /\ s.gst = slice[c][k].gst
    BY <2>1, SliceFields DEF HasValue
  <2>3. slice' = [slice EXCEPT ![c][k] = s]
    BY <1>3
  <2> HIDE DEF s
  <2>4. s.stage # "locked"
    BY <2>2
  <2> QED  BY <1>1, <1>2, <1>3, <2>1, <2>2, <2>3, <2>4, OneSlice
<1>4. CASE TakeSlice(c, k)
  BY <1>1, <1>2, <1>4, TakeSliceStep
<1> QED  BY <1>3, <1>4 DEF SliceResponse

\* The value of a slice is taken after it has raised the GST.
LEMMA SliceResponseUnlockedStep ==
    ASSUME IInv, NEW c \in Client, NEW k \in Key, SliceResponseUnlocked(c, k)
    PROVE  IInv'
<1>1. slice[c][k].stage \in HasValue
  BY DEF SliceResponseUnlocked, HasValue
<1> QED  BY <1>1, TakeSliceStep DEF SliceResponseUnlocked, fixed

-----------------------------------------------------------------------------
(***************************************************************************)
(* Responses                                                               *)
(***************************************************************************)
\* What has come back: each value is genuine, and what the client's gets will
\* count on is below the GST that came with it.
LEMMA MyReply ==
    ASSUME IInv, NEW c \in Client, req[c].stage = "answered", NEW k \in DOMAIN reply[c]
    PROVE  LET v == reply[c][k].value
               g == reply[c][k].gst
           IN  /\ k \in Key /\ v \in Version /\ g \in Time
               /\ Genuine(Srv, k, v) /\ Safe(Srv, g)
               /\ req[c].op = "rotx" \/ ~v.here => v.ut <= g
<1> DEFINE v == reply[c][k].value
           g == reply[c][k].gst
<1>1. k \in Key /\ reply[c][k] \in Reply
  BY Mine DEF Types
<1>2. v \in Version /\ g \in Time
  BY <1>1, VersionFacts
<1>3. Cli(c).req = req[c] /\ Cli(c).reply = reply[c] /\ req[c] \in ReqType
  BY Mine, CliType DEF Types
<1>4. ValueOK(Srv, Cli(c), k, v, g)
  BY <1>3, Mine DEF ClientOK, ReplyOK
<1> HIDE DEF v, g
<1>5. Genuine(Srv, k, v) /\ Safe(Srv, g)
  BY <1>4 DEF ValueOK
<1>6. CASE req[c].op = "rotx"
  <2>1. v.ut <= req[c].time /\ req[c].time <= g
    BY <1>3, <1>4, <1>6 DEF ValueOK
  <2>2. req[c].time \in Time
    BY <1>3, ReqFields
  <2>3. v.ut \in Int /\ g \in Int /\ req[c].time \in Int
    BY <1>2, <2>2, VersionFacts, TimeFacts
  <2>4. v.ut <= g
    BY <2>1, <2>3
  <2> QED  BY <1>1, <1>2, <1>5, <2>4 DEF v, g
<1>7. CASE req[c].op = "get"
  <2>1. ~v.here => v.ut <= g
    BY <1>3, <1>4, <1>7 DEF ValueOK
  <2> QED  BY <1>1, <1>2, <1>5, <1>7, <2>1 DEF v, g
<1>8. CASE req[c].op = "put"
  <2>1. v.here
    BY <1>3, <1>4, <1>8 DEF ValueOK
  <2> QED  BY <1>1, <1>2, <1>5, <1>8, <2>1 DEF v, g
<1>9. req[c].op \in {"get", "put", "rotx"}
  <2>1. req[c].op \in {"none", "get", "put", "rotx"}
    BY <1>3 DEF ReqType
  <2>2. req[c].op # "none"
    BY MyRequest
  <2> QED  BY <2>1, <2>2
<1> QED  BY <1>6, <1>7, <1>8, <1>9

\* What Learn adds is a version that came back or one that such a version
\* depends on.
LEMMA LearnIs ==
    ASSUME IInv, NEW c \in Client, req[c].stage = "answered",
           NEW d \in [Key -> Time], NEW S \in SUBSET Values(c), NEW K \in SUBSET Key
    PROVE  /\ Learn(c, d, S, K) \in [Key -> Time]
           /\ \A k \in Key :
                \/ Learn(c, d, S, K)[k] = d[k]
                \/ k \in K /\ \E v \in S : Learn(c, d, S, K)[k] = v.deps[k]
                \/ k \in DOMAIN reply[c] /\ Learn(c, d, S, K)[k] = reply[c][k].value.ut
<1> DEFINE D(k) == {v.deps[k] : v \in {v \in S : k \in K}}
           U(k) == {reply[c][j].value.ut : j \in DOMAIN reply[c] \cap {k}}
           M(k) == MaxOf({d[k]} \cup D(k) \cup U(k))
<1>1. Learn(c, d, S, K) = [k \in Key |-> M(k)]
  BY DEF Learn
<1>2. ASSUME NEW k \in Key
      PROVE  /\ M(k) \in Time
             /\ \/ M(k) = d[k]
                \/ k \in K /\ \E v \in S : M(k) = v.deps[k]
                \/ k \in DOMAIN reply[c] /\ M(k) = reply[c][k].value.ut
  <2>1. D(k) \subseteq Time
    <3>1. \A v \in S : v \in Version
      BY MyReply DEF Values
    <3> QED  BY <3>1, VersionFacts
  <2>2. U(k) \subseteq Time
    <3>1. \A j \in DOMAIN reply[c] : reply[c][j].value \in Version
      BY MyReply
    <3> QED  BY <3>1, VersionFacts
  <2>3. d[k] \in Time
    OBVIOUS
  <2> DEFINE X == {d[k]} \cup D(k) \cup U(k)
  <2>4. X \subseteq Time /\ X # {}
    BY <2>1, <2>2, <2>3
  <2> HIDE DEF X
  <2>5. MaxOf(X) \in X /\ MaxOf(X) \in Time
    BY <2>4, MaxOfIs
  <2>6. M(k) = MaxOf(X)
    BY DEF X
  <2> HIDE DEF M
  <2>7. M(k) \in {d[k]} \cup D(k) \cup U(k)
    BY <2>5, <2>6 DEF X
  <2> QED  BY <2>5, <2>6, <2>7
<1> HIDE DEF M
<1> QED  BY <1>1, <1>2

\* The client learns from the values and the GSTs that have come back.
LEMMA ClientResponseStep ==
    ASSUME IInv, NEW c \in Client, ClientResponse(c)
    PROVE  IInv'
<1> DEFINE S  == {v \in Values(c) : req[c].op = "rotx" \/ ~v.here}
           D  == MaxOf({dt[c]} \cup Times(c))
           G  == MaxOf({cgst[c]} \cup Gsts(c))
           P  == Learn(c, past[c], Values(c), Key)
           Q  == Learn(c, seen[c], S, CoveredKeys)
           m  == Cli(c)
           n  == Cli(c)'
<1>1. /\ req[c].stage = "answered"
      /\ dt' = [dt EXCEPT ![c] = D] /\ cgst' = [cgst EXCEPT ![c] = G]
      /\ past' = [past EXCEPT ![c] = P] /\ seen' = [seen EXCEPT ![c] = Q]
      /\ req' = [req EXCEPT ![c] = Idle] /\ reply' = [reply EXCEPT ![c] = <<>>]
      /\ UNCHANGED <<servers, slice, left, remote, single_core>>
  BY DEF ClientResponse, fixed
<1>2. Types /\ Srv \in Servers /\ ServersOK(Srv) /\ ClientOK(Srv, m)
  BY Mine
<1>3. /\ dt[c] \in Time /\ cgst[c] \in Time
      /\ past[c] \in [Key -> Time] /\ seen[c] \in [Key -> Time]
  BY <1>2 DEF Types
<1>4. SessionOK(Srv, m) /\ m.dt = dt[c] /\ m.cgst = cgst[c] /\ m.past = past[c] /\ m.seen = seen[c]
  BY <1>2, CliType DEF ClientOK
<1>5. Times(c) \subseteq Time
  <2>1. \A k \in DOMAIN reply[c] : reply[c][k].value \in Version
    BY <1>1, MyReply
  <2> QED  BY <2>1, VersionFacts DEF Times
<1>6. D \in Time /\ dt[c] <= D /\ \A u \in Times(c) : u <= D
  <2>1. {dt[c]} \cup Times(c) \subseteq Time
    BY <1>3, <1>5
  <2> QED  BY <2>1, MaxOfIs
<1>7. Gsts(c) \subseteq Time /\ \A g \in Gsts(c) : Safe(Srv, g)
  BY <1>1, MyReply DEF Gsts
<1>8. G \in Time /\ cgst[c] <= G /\ (\A g \in Gsts(c) : g <= G) /\ G \in {cgst[c]} \cup Gsts(c)
  <2>1. {cgst[c]} \cup Gsts(c) \subseteq Time
    BY <1>3, <1>7
  <2> QED  BY <2>1, MaxOfIs
<1> HIDE DEF D, G
<1>9. Safe(Srv, G)
  BY <1>4, <1>7, <1>8 DEF SessionOK
<1>10. \A v \in Values(c) : \E j \in DOMAIN reply[c] : v = reply[c][j].value
  BY DEF Values
<1>11. /\ P \in [Key -> Time]
       /\ \A k \in Key :
            \/ P[k] = past[c][k]
            \/ \E v \in Values(c) : P[k] = v.deps[k]
            \/ k \in DOMAIN reply[c] /\ P[k] = reply[c][k].value.ut
  BY <1>1, <1>3, LearnIs
<1>12. /\ Q \in [Key -> Time]
       /\ \A k \in Key :
            \/ Q[k] = seen[c][k]
            \/ k \in CoveredKeys /\ \E v \in S : Q[k] = v.deps[k]
            \/ k \in DOMAIN reply[c] /\ Q[k] = reply[c][k].value.ut
  <2> DEFINE K == CoveredKeys
             s == seen[c]
             L == Learn(c, s, S, K)
  <2>1. S \in SUBSET Values(c) /\ K \in SUBSET Key /\ s \in [Key -> Time]
    BY <1>3, KeyFacts DEF CoveredKeys
  <2> HIDE DEF S, K, s
  <2>2. /\ L \in [Key -> Time]
        /\ \A k \in Key :
            \/ L[k] = s[k]
            \/ k \in K /\ \E v \in S : L[k] = v.deps[k]
            \/ k \in DOMAIN reply[c] /\ L[k] = reply[c][k].value.ut
    BY <1>1, <2>1, LearnIs
  <2> QED  BY <2>2 DEF K, s
<1>13. \A v \in S : /\ v \in Values(c)
                    /\ \E j \in DOMAIN reply[c] : v = reply[c][j].value /\ v.ut <= reply[c][j].gst
  BY <1>1, <1>10, MyReply
<1> HIDE DEF P, Q, S
<1>14. ASSUME NEW j \in DOMAIN reply[c], NEW k \in Key
       PROVE  LET v == reply[c][j].value
              IN  /\ Real(Srv, k, v.deps[k]) /\ v.deps[k] <= v.ut
                  /\ Known(Srv, j, v.ut) /\ Real(Srv, j, v.ut)
                  /\ v.ut \in Int /\ v.deps[k] \in Int /\ v.ut <= D
  <2> DEFINE v == reply[c][j].value
  <2>1. Genuine(Srv, j, v) /\ v \in Version
    BY <1>1, MyReply
  <2>2. v.ut \in Times(c)
    BY DEF Times
  <2> QED  BY <1>6, <2>1, <2>2, VersionFacts DEF Genuine, Known, Real
<1>15. ASSUME NEW k \in Key
       PROVE  Real(Srv, k, P[k]) /\ P[k] <= D
  <2>1. CASE P[k] = past[c][k]
    <3>1. Real(Srv, k, past[c][k]) /\ past[c][k] <= dt[c]
      BY <1>4 DEF SessionOK
    <3>2. past[c][k] \in Int /\ dt[c] \in Int /\ D \in Int
      BY <1>3, <1>6, TimeFacts
    <3>3. past[c][k] <= D
      BY <1>6, <3>1, <3>2
    <3> QED  BY <2>1, <3>1, <3>3
  <2>2. ASSUME NEW v \in Values(c), P[k] = v.deps[k] PROVE Real(Srv, k, P[k]) /\ P[k] <= D
    <3>1. PICK j \in DOMAIN reply[c] : v = reply[c][j].value
      BY <1>10
    <3>2. Real(Srv, k, v.deps[k]) /\ v.deps[k] <= v.ut /\ v.ut <= D /\ v.ut \in Int /\ v.deps[k] \in Int
      BY <1>14, <3>1
    <3>3. D \in Int
      BY <1>6, TimeFacts
    <3>4. v.deps[k] <= D
      BY <3>2, <3>3
    <3> QED  BY <2>2, <3>2, <3>4
  <2>3. CASE k \in DOMAIN reply[c] /\ P[k] = reply[c][k].value.ut
    BY <1>14, <2>3
  <2> QED  BY <1>11, <2>1, <2>2, <2>3
<1>16. ASSUME NEW k \in Key
       PROVE  Known(Srv, k, Q[k]) /\ Q[k] <= D /\ (k \in RemoteKeys => Q[k] <= G)
  <2>0. /\ G \in Int /\ cgst[c] \in Int /\ \A g \in Gsts(c) : g \in Int
        /\ D \in Int /\ dt[c] \in Int
    BY <1>3, <1>6, <1>7, <1>8, TimeFacts
  <2>1. CASE Q[k] = seen[c][k]
    <3>1. /\ Known(Srv, k, seen[c][k]) /\ seen[c][k] <= dt[c]
          /\ k \in RemoteKeys => seen[c][k] <= cgst[c]
      BY <1>4 DEF SessionOK
    <3>2. seen[c][k] \in Int
      BY <1>3, TimeFacts
    <3>3. k \in RemoteKeys => seen[c][k] <= G
      BY <1>8, <2>0, <3>1, <3>2
    <3>4. seen[c][k] <= D
      BY <1>6, <2>0, <3>1, <3>2
    <3> QED  BY <2>1, <3>1, <3>3, <3>4
  <2>2. ASSUME k \in CoveredKeys, NEW v \in S, Q[k] = v.deps[k]
        PROVE  Known(Srv, k, Q[k]) /\ Q[k] <= D /\ Q[k] <= G
    <3>1. PICK j \in DOMAIN reply[c] : v = reply[c][j].value /\ v.ut <= reply[c][j].gst
      BY <1>13
    <3>2. /\ Real(Srv, k, v.deps[k]) /\ v.deps[k] <= v.ut /\ v.ut \in Int /\ v.deps[k] \in Int
          /\ v.ut <= D
      BY <1>14, <3>1
    <3>3. reply[c][j].gst \in Gsts(c)
      BY DEF Gsts
    <3>4. reply[c][j].gst <= G /\ reply[c][j].gst \in Int
      BY <1>8, <2>0, <3>3
    <3>5. v.deps[k] <= G
      BY <2>0, <3>1, <3>2, <3>4
    <3>6. v.deps[k] <= D
      BY <2>0, <3>2
    <3>7. Known(Srv, k, v.deps[k])
      BY <1>2, <2>2, <3>2, SrvType, RealIsKnown
    <3> QED  BY <2>2, <3>5, <3>6, <3>7
  <2>3. CASE k \in DOMAIN reply[c] /\ Q[k] = reply[c][k].value.ut
    <3> DEFINE v == reply[c][k].value
               g == reply[c][k].gst
    <3>1. Known(Srv, k, v.ut) /\ v.ut \in Int /\ v.ut <= D
      BY <1>14, <2>3
    <3>2. g \in Gsts(c)
      BY <2>3 DEF Gsts
    <3>3. g <= G /\ g \in Int
      BY <1>8, <2>0, <3>2
    <3>4. /\ v.here => k \in LocalKeys
          /\ req[c].op = "rotx" \/ ~v.here => v.ut <= g
      BY <1>1, <2>3, MyReply DEF Genuine
    <3>5. k \in RemoteKeys => v.ut <= g
      BY <3>4, KeyFacts
    <3>6. k \in RemoteKeys => v.ut <= G
      BY <2>0, <3>1, <3>3, <3>5
    <3> QED  BY <2>3, <3>1, <3>6
  <2> QED  BY <1>12, <2>1, <2>2, <2>3
<1>17. Idle \in ReqType /\ Idle.stage = "idle" /\ Idle.op = "none" /\ Idle.time = 0
  BY TimeFacts DEF Idle, ReqType, Stages
<1>18. Types'
  <2>1. dt' \in [Client -> Time] /\ cgst' \in [Client -> Time]
    BY <1>1, <1>2, <1>6, <1>8 DEF Types
  <2>2. past' \in [Client -> [Key -> Time]] /\ seen' \in [Client -> [Key -> Time]]
    BY <1>1, <1>2, <1>11, <1>12 DEF Types
  <2>3. req' \in [Client -> ReqType]
    BY <1>1, <1>2, <1>17 DEF Types
  <2>4. DOMAIN reply' = Client /\ \A d \in Client : reply'[d] = IF d = c THEN <<>> ELSE reply[d]
    BY <1>1, <1>2 DEF Types
  <2>5. \A d \in Client :
            DOMAIN reply'[d] \subseteq Key /\ \A k \in DOMAIN reply'[d] : reply'[d][k] \in Reply
    <3> TAKE d \in Client
    <3>1. CASE d = c
      <4>1. reply'[d] = <<>>
        BY <2>4, <3>1
      <4>2. DOMAIN reply'[d] = {}
        BY <4>1
      <4> QED  BY <4>2
    <3>2. CASE d # c
      BY <1>2, <2>4, <3>2 DEF Types
    <3> QED  BY <3>1, <3>2
  <2> QED  BY <1>1, <1>2, <2>1, <2>2, <2>3, <2>4, <2>5 DEF Types, servers
<1>19. \A d \in Client \ {c} : Cli(d)' = Cli(d)
  BY <1>1, <1>2 DEF Types, Cli
<1>20. /\ n.req = Idle /\ n.reply = <<>> /\ n.slice = m.slice
       /\ n.dt = D /\ n.cgst = G /\ n.past = P /\ n.seen = Q /\ m.req = req[c]
  BY <1>1, <1>2 DEF Types, Cli
<1> HIDE DEF m, n
<1>21. SessionOK(Srv, n)
  BY <1>9, <1>15, <1>16, <1>20 DEF SessionOK
<1>22. RequestOK(Srv, n)
  <2>1. Safe(Srv, 0)
    BY <1>2, TimeFacts DEF Safe, Servers
  <2> QED  BY <1>17, <1>20, <2>1 DEF RequestOK
<1>23. DOMAIN n.reply = {}
  BY <1>20
<1>24. ReplyOK(Srv, n)
  BY <1>23 DEF ReplyOK
<1>25. SliceOK(Srv, n)
  <2>1. \A k \in Key : n.slice[k].stage = "none"
    BY <1>1, <1>2, <1>20 DEF ClientOK, SliceOK
  <2> QED  BY <2>1 DEF SliceOK, HasValue
<1>26. ClientOK(Srv, Cli(c)')
  BY <1>21, <1>22, <1>24, <1>25 DEF ClientOK, n
<1> QED  BY <1>1, <1>18, <1>19, <1>26, OneClient

-----------------------------------------------------------------------------
(***************************************************************************)
(* The invariant                                                           *)
(***************************************************************************)
\* The invariant holds at the start, ...
LEMMA InitIInv == Init => IInv
<1> SUFFICES ASSUME Init PROVE IInv
  OBVIOUS
<1>1. Idle \in ReqType /\ Idle.stage = "idle" /\ Idle.op = "none" /\ Idle.time = 0
  BY TimeFacts DEF Idle, ReqType, Stages
<1>2. NoSlice \in SliceType /\ NoSlice.stage = "none"
  BY NoVersionFacts, TimeFacts DEF NoSlice, SliceType
<1>3. NoDeps \in [Key -> Time] /\ \A k \in Key : NoDeps[k] = 0
  BY TimeFacts DEF NoDeps
<1>4. Types
  <2>1. /\ clock \in [Partition -> Time] /\ other \in [Partition -> Time]
        /\ applied \in [Partition -> Time] /\ single_core \in BOOLEAN
        /\ gst \in [Partition -> Time] /\ dt \in [Client -> Time] /\ cgst \in [Client -> Time]
    BY TimeFacts, SessionAssumption DEF Init
  <2>2. store \in [Key -> Seq(Version)]
    BY DEF Init
  <2>3. /\ past \in [Client -> [Key -> Time]] /\ seen \in [Client -> [Key -> Time]]
        /\ req \in [Client -> ReqType] /\ slice \in [Client -> [Key -> SliceType]]
    BY <1>1, <1>2, <1>3 DEF Init
  <2>4. DOMAIN reply = Client /\ \A c \in Client : DOMAIN reply[c] = {}
    BY DEF Init
  <2> QED  BY <2>1, <2>2, <2>3, <2>4 DEF Types, Init
<1>5. \A p \in Partition : /\ Srv.clock[p] = 0 /\ Srv.other[p] = 0 /\ Srv.gst[p] = 0
                           /\ Srv.applied[p] = 0
  BY DEF Init, Srv
<1>6. Safe(Srv, 0)
  BY <1>5 DEF Safe
<1>7. ServersOK(Srv)
  <2>1. ASSUME NEW k \in Key PROVE ChainOK(Srv, k)
    <3>1. Srv.store[k] = <<>> /\ DOMAIN Srv.store[k] = {}
      BY DEF Init, Srv
    <3>2. \A t \in DOMAIN Srv.log : ~Due(Srv, PartitionFor(k), t)
      <4> TAKE t \in DOMAIN Srv.log
      <4>1. Srv.log \in RemoteLogs
        BY <1>4, SrvType DEF Types
      <4>2. t \in Nat \ {0}
        BY <4>1, LogFacts
      <4> QED  BY <1>5, <4>2, KeyFacts DEF Due
    <3> QED  BY <3>1, <3>2 DEF ChainOK, Sorted
  <2> QED  BY <1>5, <1>6, <2>1 DEF ServersOK
<1>8. ASSUME NEW c \in Client PROVE ClientOK(Srv, Cli(c))
  <2> DEFINE m == Cli(c)
  <2>1. /\ m.req = Idle /\ DOMAIN m.reply = {} /\ m.slice = [k \in Key |-> NoSlice]
        /\ m.dt = 0 /\ m.cgst = 0 /\ m.past = NoDeps /\ m.seen = NoDeps
    BY DEF Init, Cli
  <2> HIDE DEF m
  <2>2. SessionOK(Srv, m)
    BY <1>3, <1>6, <2>1 DEF SessionOK, Real, Known
  <2>3. RequestOK(Srv, m)
    BY <1>1, <1>6, <2>1 DEF RequestOK
  <2>4. ReplyOK(Srv, m)
    BY <2>1 DEF ReplyOK
  <2>5. SliceOK(Srv, m)
    BY <1>2, <2>1 DEF SliceOK, HasValue
  <2> QED  BY <2>2, <2>3, <2>4, <2>5 DEF ClientOK, m
<1> QED  BY <1>4, <1>7, <1>8 DEF IInv

\* ... every step keeps it, ...
LEMMA NextIInv == IInv /\ [Next]_vars => IInv'
<1> SUFFICES ASSUME IInv, [Next]_vars PROVE IInv'
  OBVIOUS
<1>1. ASSUME NEW p \in Partition, Environment(p) PROVE IInv'
  <2>1. PICK t \in Time :
            ClockTick(p, t) \/ Heartbeat(p, t) \/ ReplicaUpdate(p, t) \/ GstUpdate(p, t)
    BY <1>1 DEF Environment
  <2> QED  BY <2>1, ClockTickStep, HeartbeatStep, ReplicaUpdateStep, GstUpdateStep
<1>2. ASSUME NEW c \in Client, NEW r \in Request, ClientRequest(c, r) PROVE IInv'
  BY <1>2, ClientRequestStep
<1>3. ASSUME NEW c \in Client, GetPut(c) PROVE IInv'
  BY <1>3, ForwardRequestStep, GetRequestStep, GetRequestLockedStep, GetRequestUnlockedStep,
     PutRequestStep, PutRequestLockedStep, PutRequestUnlockedStep DEF GetPut
<1>4. ASSUME NEW c \in Client, Rotx(c) PROVE IInv'
  BY <1>4, RotxRequestStep, SnapshotRequestLockedStep, SnapshotRequestUnlockedStep DEF Rotx
<1>5. ASSUME NEW c \in Client, NEW k \in Key, Slice(c, k) PROVE IInv'
  BY <1>5, SliceRequestStep, SliceRequestLockedStep, SliceRequestUnlockedStep,
     SliceResponseStep, SliceResponseLockedStep, SliceResponseUnlockedStep DEF Slice
<1>6. ASSUME NEW c \in Client, ClientResponse(c) PROVE IInv'
  BY <1>6, ClientResponseStep
<1>7. CASE UNCHANGED vars
  <2>1. /\ UNCHANGED <<clock, other, applied, gst, store, remote, dt, cgst, past, seen>>
        /\ UNCHANGED <<req, slice, reply, single_core>>
    BY <1>7 DEF vars, servers, session, fixed
  <2>2. Srv' = Srv /\ \A c \in Client : Cli(c)' = Cli(c)
    BY <2>1 DEF Srv, Cli
  <2>3. Types'
    BY <2>1 DEF IInv, Types
  <2> QED  BY <2>2, <2>3 DEF IInv
<1> QED  BY <1>1, <1>2, <1>3, <1>4, <1>5, <1>6, <1>7 DEF Next

\* ... so it holds always.
LEMMA InvariantHolds == Spec => []IInv
  BY InitIInv, NextIInv, PTL DEF Spec

-----------------------------------------------------------------------------
(***************************************************************************)
(* The theorems                                                            *)
(***************************************************************************)
\* Every variable has its type in every reachable state.
THEOREM TypeCorrect == Spec => []TypeOK
<1>1. IInv => TypeOK
  <2> SUFFICES ASSUME IInv PROVE TypeOK
    OBVIOUS
  <2>1. Types
    BY DEF IInv
  <2>2. \A k \in Key : \A i \in DOMAIN store[k] : store[k][i].ut \in Time
    BY <2>1, VersionFacts DEF Types
  <2>3. ASSUME NEW c \in Client
        PROVE  /\ req[c] # Idle => req[c].at \in Partition
               /\ req[c].time \in Time
               /\ DOMAIN reply[c] \subseteq req[c].keys
    <3>1. req[c].time \in Time
      BY MyRequest, ReqFields
    <3>2. DOMAIN reply[c] \subseteq req[c].keys
      BY <2>1, Mine, CliType DEF ClientOK, ReplyOK
    <3>3. req[c].stage = "idle" => req[c] = Idle
      <4>1. RequestOK(Srv, Cli(c)) /\ Cli(c).req = req[c]
        BY Mine, <2>1, CliType DEF ClientOK
      <4> QED  BY <4>1, <2>1 DEF RequestOK
    <3> QED  BY <3>1, <3>2, <3>3, MyRequest
  <2> QED  BY <2>1, <2>2, <2>3 DEF Types, TypeOK
<1> QED  BY <1>1, InvariantHolds, PTL

\* A get shows at least what the client has got or put, whatever partition it
\* asks and however late the GST is there; and what the versions of the other
\* data centre and the snapshots it has read depend on, with several cores per
\* server of the keys of this data centre only.
THEOREM OwnPastIsSeen == Spec => []GetsSeeOwnPast
<1>1. IInv => GetsSeeOwnPast
  <2> SUFFICES ASSUME IInv, NEW c \in Client, At(c, "get", "answered"), NEW k \in req[c].keys
               PROVE  reply[c][k].value.ut >= seen[c][k]
    BY DEF GetsSeeOwnPast
  <2>1. req[c].op = "get" /\ req[c].stage = "answered"
    BY DEF At
  <2>2. Cli(c).req = req[c] /\ Cli(c).reply = reply[c] /\ Cli(c).seen = seen[c]
    BY Mine, CliType
  <2>3. k \in DOMAIN reply[c]
    BY <2>1, <2>2, Mine DEF ClientOK, RequestOK
  <2>4. ValueOK(Srv, Cli(c), k, reply[c][k].value, reply[c][k].gst)
    BY <2>2, <2>3, Mine DEF ClientOK, ReplyOK
  <2> QED  BY <2>1, <2>2, <2>4 DEF ValueOK
<1> QED  BY <1>1, InvariantHolds, PTL

\* No value of a transaction is older than what the client was shown or put
\* before.  With one core per server a transaction reads a causal snapshot: no
\* value is older than what another one of its values, or anything the client
\* has read or written, depends on.  With several cores that is left of the keys
\* of this data centre.
THEOREM TransactionsAreCausal == Spec => []RotxIsCausal
<1>1. IInv => RotxIsCausal
  <2> SUFFICES ASSUME IInv, NEW c \in Client, req[c].op = "rotx", NEW k \in DOMAIN reply[c]
               PROVE  /\ reply[c][k].value.ut >= seen[c][k]
                      /\ k \in CoveredKeys =>
                            /\ reply[c][k].value.ut >= past[c][k]
                            /\ \A j \in DOMAIN reply[c] :
                                reply[c][k].value.ut >= reply[c][j].value.deps[k]
    BY DEF RotxIsCausal
  <2> DEFINE t == req[c].time
             m == Cli(c)
  <2>1. /\ Types /\ Srv \in Servers /\ ServersOK(Srv) /\ ClientOK(Srv, m)
        /\ m.req = req[c] /\ m.reply = reply[c] /\ m.past = past[c] /\ m.dt = dt[c]
        /\ m.seen = seen[c] /\ Covered(Srv) = CoveredKeys
    BY Mine, CliType, SrvType
  <2>2. ReplyOK(Srv, m)
    BY <2>1 DEF ClientOK
  <2>3. req[c].stage \in {"slicing", "answered"}
    BY <2>1, <2>2 DEF ReplyOK
  <2>4. t \in Time /\ Safe(Srv, t) /\ dt[c] <= t /\ dt[c] \in Time
    BY <2>3, MyRequest, ReqFields
  <2>5. ASSUME NEW j \in DOMAIN reply[c]
        PROVE  LET v == reply[c][j].value
               IN  /\ j \in Key /\ v \in Version
                   /\ Genuine(Srv, j, v) /\ v.ut <= t /\ v.ut >= seen[c][j]
                   /\ j \in CoveredKeys => IsSlice(Srv, j, t, v)
    <3> DEFINE v == reply[c][j].value
    <3>1. j \in Key /\ v \in Version
      BY <2>1, VersionFacts DEF Types
    <3>2. ValueOK(Srv, m, j, v, reply[c][j].gst)
      BY <2>1, <2>2 DEF ReplyOK
    <3> QED  BY <2>1, <3>1, <3>2 DEF ValueOK
  <2> HIDE DEF t
  <2> DEFINE v == reply[c][k].value
  <2>6. /\ k \in Key /\ v \in Version /\ ChainOK(Srv, k) /\ v.ut \in Int
        /\ k \in CoveredKeys => IsSlice(Srv, k, t, v)
    BY <2>1, <2>5, VersionFacts DEF ServersOK
  <2>7. ASSUME k \in CoveredKeys PROVE v.ut >= past[c][k]
    <3>1. past[c][k] \in Time /\ Real(Srv, k, past[c][k]) /\ past[c][k] <= dt[c]
      BY <2>1, <2>6 DEF Types, ClientOK, SessionOK
    <3>2. past[c][k] \in Int /\ dt[c] \in Int /\ t \in Int
      BY <2>4, <3>1, TimeFacts
    <3>3. past[c][k] <= t
      BY <2>4, <3>1, <3>2
    <3>4. Known(Srv, k, past[c][k])
      BY <2>1, <2>7, <3>1, RealIsKnown
    <3>5. past[c][k] <= v.ut
      BY <2>1, <2>4, <2>6, <2>7, <3>1, <3>3, <3>4, SliceCovers
    <3> QED  BY <2>6, <3>2, <3>5
  <2>8. ASSUME k \in CoveredKeys, NEW j \in DOMAIN reply[c]
        PROVE  v.ut >= reply[c][j].value.deps[k]
    <3> DEFINE w == reply[c][j].value
    <3>1. w \in Version /\ Genuine(Srv, j, w) /\ w.ut <= t
      BY <2>5
    <3>2. Real(Srv, k, w.deps[k]) /\ w.deps[k] <= w.ut
      BY <2>6, <3>1 DEF Genuine
    <3>3. w.deps[k] \in Time /\ w.deps[k] \in Int /\ w.ut \in Int /\ t \in Int
      BY <2>4, <2>6, <3>1, VersionFacts, TimeFacts
    <3>4. w.deps[k] <= t
      BY <3>1, <3>2, <3>3
    <3>5. Known(Srv, k, w.deps[k])
      BY <2>1, <2>8, <3>2, RealIsKnown
    <3>6. w.deps[k] <= v.ut
      BY <2>1, <2>4, <2>6, <2>8, <3>3, <3>4, <3>5, SliceCovers
    <3> QED  BY <2>6, <3>3, <3>6
  <2> QED  BY <2>5, <2>7, <2>8
<1> QED  BY <1>1, InvariantHolds, PTL

\* A snapshot stays what it was when its time was fixed: a value read by any
\* slice, at whatever moment, is what the chain still has at that time; with
\* several cores per server on the keys of this data centre only.
THEOREM SnapshotsAreStable == Spec => []SnapshotIsStable
<1>1. IInv => SnapshotIsStable
  <2> SUFFICES ASSUME IInv, NEW c \in Client, At(c, "rotx", "slicing"),
                      NEW k \in req[c].keys \cap CoveredKeys
               PROVE  /\ k \in DOMAIN reply[c] =>
                            reply[c][k].value = GetSlice(k, req[c].time)
                      /\ slice[c][k].stage \in HasValue =>
                            slice[c][k].value = GetSlice(k, req[c].time)
    BY DEF SnapshotIsStable, HasValue
  <2> DEFINE t == req[c].time
             m == Cli(c)
  <2>1. /\ Types /\ ServersOK(Srv) /\ ClientOK(Srv, m)
        /\ m.req = req[c] /\ m.reply = reply[c] /\ m.slice = slice[c]
        /\ Covered(Srv) = CoveredKeys
    BY Mine, CliType, SrvType
  <2>2. req[c].op = "rotx" /\ req[c] \in ReqType /\ t \in Time
    BY MyRequest, ReqFields DEF At
  <2>3. k \in Key
    BY <2>2 DEF ReqType
  <2>4. ChainOK(Srv, k)
    BY <2>1, <2>3 DEF ServersOK
  <2>5. \A v : IsSlice(Srv, k, t, v) => v = GetSlice(k, t)
    BY <2>1, <2>2, <2>3, <2>4, SliceIs
  <2>6. \A v, g : ValueOK(Srv, m, k, v, g) => IsSlice(Srv, k, t, v)
    BY <2>1, <2>2 DEF ValueOK
  <2>7. k \in DOMAIN reply[c] => ValueOK(Srv, m, k, reply[c][k].value, reply[c][k].gst)
    BY <2>1 DEF ClientOK, ReplyOK
  <2>8. slice[c][k].stage \in HasValue => ValueOK(Srv, m, k, slice[c][k].value, slice[c][k].gst)
    BY <2>1, <2>3 DEF ClientOK, SliceOK
  <2> QED  BY <2>5, <2>6, <2>7, <2>8
<1> QED  BY <1>1, InvariantHolds, PTL

\* Every version in a store is newer than each one it depends on, however the
\* clocks of the servers are skewed.
THEOREM VersionsFollowDependencies == Spec => []PutsFollowTheirDependencies
<1>1. IInv => PutsFollowTheirDependencies
  BY SrvType DEF IInv, ServersOK, ChainOK, PutsFollowTheirDependencies
<1> QED  BY <1>1, InvariantHolds, PTL
=============================================================================
