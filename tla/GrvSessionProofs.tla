------------------------- MODULE GrvSessionProofs -------------------------
(***************************************************************************)
(* Proofs about what a client of the vector protocol sees, for any number  *)
(* of clients, partitions, keys and data centres, any requests and any     *)
(* history of the other data centres.                                      *)
(*                                                                         *)
(* Every vector there is, of a server, of a client or of a transaction, is *)
(* safe: the version vector of every partition has reached it.  With one   *)
(* core per server what it covers is stored as well.  What the next read   *)
(* of a client must show is visible already at the server of its key, or,  *)
(* with one core, covered by the client's vector, which the read raises    *)
(* the server's vector to.                                                 *)
(***************************************************************************)
EXTENDS GrvSession, WellFoundedInduction, TLAPS

Vector == [Remote -> Time]

Version == [ut : Time, sr : DC, dep : [DC -> Time], deps : [Key -> Time]]

Reply == [value : Version, gst : Vector]

Stages == {"idle", "sent", "locking", "locked", "slicing", "answered"}

ReqType == [op : {"none", "get", "put", "rotx"}, keys : SUBSET Key,
            at : Partition \cup {0}, stage : Stages, time : Time, gst : Vector]

\* A slice and its values
SliceType(s) ==
    /\ s = [stage |-> s.stage, values |-> s.values]
    /\ s.stage \in {"none", "sent", "locking", "locked", "reply"}
    /\ DOMAIN s.values \subseteq Key
    /\ \A k \in DOMAIN s.values : s.values[k] \in Version

ReplyType(r) == DOMAIN r \subseteq Key /\ \A k \in DOMAIN r : r[k] \in Reply

Types ==
    /\ clock \in [Partition -> Time]
    /\ other \in [Partition -> Vector]
    /\ applied \in [Partition -> Vector]
    /\ gst_vector \in [Partition -> Vector]
    /\ store \in [Key -> Seq(Version)]
    /\ dependency_vector \in [Client -> [DC -> Time]]
    /\ client_gst \in [Client -> Vector]
    /\ past \in [Client -> [Key -> Time]]
    /\ seen \in [Client -> [Key -> Time]]
    /\ req \in [Client -> ReqType]
    /\ DOMAIN slice = Client
    /\ \A c \in Client :
        DOMAIN slice[c] = Partition /\ \A p \in Partition : SliceType(slice[c][p])
    /\ DOMAIN reply = Client
    /\ \A c \in Client : ReplyType(reply[c])
    /\ single_core \in BOOLEAN

-----------------------------------------------------------------------------
(***************************************************************************)
(* The servers.  x and y are states of theirs, as Srv gives the present    *)
(* one.                                                                    *)
(***************************************************************************)
Srv == [clock |-> clock, other |-> other, applied |-> applied, gst |-> gst_vector,
        store |-> store, one |-> single_core]

Servers == [clock : [Partition -> Time], other : [Partition -> Vector],
            applied : [Partition -> Vector], gst : [Partition -> Vector],
            store : [Key -> Seq(Version)], one : BOOLEAN]

\* The version vectors have reached g everywhere.
Safe(x, g) == \A p \in Partition : \A s \in Remote : g[s] <= x.other[p][s]

\* g covers a put of k with time u, and what that depends on.
Covered(k, u, g) ==
    \E s \in Remote : \E put \in Log[s] :
        put.key = k /\ put.ut = u /\ u <= g[s] /\ Leq(put.dep, g)

\* A version of k with time u is visible to gets at its server.
VisibleIn(x, k, u) ==
    \E i \in DOMAIN x.store[k] :
        x.store[k][i].ut = u /\ IsVisible(x.store[k][i], x.gst[PartitionFor(k)])

\* v is not older than what it depends on.  If it comes from another data
\* centre, that is a put that its dependency vector covers, or a version of
\* this data centre, which is visible.
Genuine(x, v) ==
    /\ \A k \in Key : v.deps[k] <= v.ut
    /\ v.sr # Here => \A k \in Key :
        v.deps[k] = 0 \/ Covered(k, v.deps[k], v.dep) \/ VisibleIn(x, k, v.deps[k])

\* An update of s with time u is stored at p: with one core per server the
\* version vector tells, with several only what has been applied.
Due(x, p, s, u) == u <= x.applied[p][s] \/ (x.one /\ u <= x.other[p][s])

\* v is the version of the put of s.
IsPut(v, s, put) == v.ut = put.ut /\ v.sr = s /\ \A d \in DC : v.dep[d] = put.dep[d]

\* It is in the chain of its key.
In(x, s, put) == \E i \in DOMAIN x.store[put.key] : IsPut(x.store[put.key][i], s, put)

Sorted(chain) == \A i, j \in DOMAIN chain : i < j => chain[j].ut <= chain[i].ut

\* v is a version of k that its server knows of.
StoredOK(x, k, v) ==
    /\ Genuine(x, v)
    /\ \A j \in Key : v.deps[j] < v.ut
    /\ v.sr = Here <=> k \in LocalKeys
    /\ v.sr = Here => v.ut <= x.clock[PartitionFor(k)]
    /\ v.sr # Here =>
        /\ \E put \in Log[v.sr] : put.key = k
        /\ \A put \in Log[v.sr] : put.key = k /\ put.ut = v.ut => IsPut(v, v.sr, put)
        /\ v.ut <= x.applied[PartitionFor(k)][v.sr]

\* The chain of k is sorted, has no more than its server knows of, and all of
\* the other data centres that is due.
ChainOK(x, k) ==
    /\ Sorted(x.store[k])
    /\ \A i \in DOMAIN x.store[k] : StoredOK(x, k, x.store[k][i])
    /\ \A s \in Remote : \A put \in Log[s] :
        put.key = k /\ Due(x, PartitionFor(k), s, put.ut) => In(x, s, put)

ServersOK(x) ==
    /\ \A p \in Partition : Safe(x, x.gst[p])
    /\ \A k \in Key : ChainOK(x, k)

\* From x to y nothing is lost.
Grown(x, y) ==
    /\ \A p \in Partition :
        /\ x.clock[p] <= y.clock[p]
        /\ \A s \in Remote : /\ x.other[p][s] <= y.other[p][s]
                             /\ x.applied[p][s] <= y.applied[p][s]
                             /\ x.gst[p][s] <= y.gst[p][s]
    /\ y.one = x.one
    /\ \A k \in Key :
        y.store[k] = x.store[k] \/ \E v \in Version : y.store[k] = <<v>> \o x.store[k]

-----------------------------------------------------------------------------
(***************************************************************************)
(* The clients.  m is the state of one, as Cli gives the present one.      *)
(***************************************************************************)
Cli(c) == [req |-> req[c], slice |-> slice[c], reply |-> reply[c],
           dv |-> dependency_vector[c], gst |-> client_gst[c],
           past |-> past[c], seen |-> seen[c]]

\* What the client depends on is not later than its dependency vector, and what
\* its reads count on is visible or, with one core, covered by its vector.
SessionOK(x, m) ==
    /\ Safe(x, m.gst)
    /\ \A k \in Key :
        /\ \E s \in DC : m.past[k] <= m.dv[s]
        /\ \/ m.seen[k] = 0
           \/ VisibleIn(x, k, m.seen[k])
           \/ x.one /\ Covered(k, m.seen[k], m.gst)

\* How far its request got
RequestOK(x, m) ==
    LET r == m.req
    IN  /\ r.stage = "idle" => r = Idle
        /\ r.stage # "idle" => r.at \in Partition /\ r.op # "none"
        /\ r.op \in {"get", "put"} =>
            \E k \in Key :
                /\ r.keys = {k}
                /\ r.op = "put" => k \in LocalKeys
                /\ r.stage \in {"locking", "locked"} => r.at = PartitionFor(k)
        /\ r.op \in {"get", "rotx"} /\ r.stage = "locked" => Leq(m.gst, x.gst[r.at])
        /\ r.op = "get" /\ r.stage = "answered" => DOMAIN m.reply = r.keys
        /\ r.op = "put" /\ r.stage = "locking" => \A s \in DC : m.dv[s] <= x.clock[r.at]
        /\ Safe(x, r.gst)
        /\ r.op = "rotx" /\ r.stage \in {"slicing", "answered"} => Leq(m.gst, r.gst)

\* v is not older than what the transaction must see of k, see RotxSeesRemotePast.
SeesRemote(m, k, v) ==
    \A s \in Remote : \A put \in Log[s] :
        put.key = k /\ put.ut = m.seen[k] /\ put.dep[Here] <= m.req.time => v.ut >= put.ut

\* A value that has come back for k, and the vector that came with it
ValueOK(x, m, k, v, g) ==
    /\ Genuine(x, v)
    /\ Safe(x, g)
    /\ v.ut = 0 \/ VisibleIn(x, k, v.ut)
    /\ v.sr # Here => Safe(x, v.dep)
    /\ m.req.op = "get" => v.ut >= m.seen[k] /\ (v.sr # Here => Leq(v.dep, g))
    /\ m.req.op = "rotx" => SeesRemote(m, k, v)

ReplyOK(x, m) ==
    /\ DOMAIN m.reply \subseteq m.req.keys
    /\ DOMAIN m.reply # {} =>
        \/ m.req.stage \in {"slicing", "answered"}
        \/ m.req.op = "put" /\ m.req.stage = "locked"
    /\ \A k \in DOMAIN m.reply : ValueOK(x, m, k, m.reply[k].value, m.reply[k].gst)

\* The keys of the transaction that are at p
KeysAt(m, p) == {k \in m.req.keys : PartitionFor(k) = p}

\* The slice of its transaction at p
SliceOK(x, m, p) ==
    LET r == m.req
        s == m.slice[p]
    IN  /\ s.stage # "none" =>
            /\ r.op = "rotx" /\ r.stage = "slicing"
            /\ KeysAt(m, p) # {} /\ \A k \in KeysAt(m, p) : k \notin DOMAIN m.reply
        /\ s.stage \in {"locking", "locked"} => r.time <= x.clock[p]
        /\ s.stage = "locked" => Leq(r.gst, x.gst[p])
        /\ DOMAIN s.values = IF s.stage = "reply" THEN KeysAt(m, p) ELSE {}
        /\ \A k \in DOMAIN s.values : ValueOK(x, m, k, s.values[k], NoTimes)

ClientOK(x, m) ==
    /\ SessionOK(x, m) /\ RequestOK(x, m) /\ ReplyOK(x, m)
    /\ \A p \in Partition : SliceOK(x, m, p)

\* The inductive invariant
IInv ==
    /\ Types
    /\ ServersOK(Srv)
    /\ \A c \in Client : ClientOK(Srv, Cli(c))

-----------------------------------------------------------------------------
(***************************************************************************)
(* Data                                                                    *)
(***************************************************************************)
\* Times are numbers from 0 to MaxTime.
LEMMA TimeFacts ==
    /\ MaxTime \in Nat
    /\ 0 \in Time
    /\ Time \subseteq Nat
    /\ \A t \in Time : t \in Int /\ t \in Nat /\ t <= MaxTime /\ 0 <= t
  BY SessionAssumption DEF Time

\* Their order
LEMMA TimeOrder ==
    /\ \A a \in Time : a <= a /\ 0 <= a /\ (a # 0 => 0 < a)
    /\ \A a, b \in Time : (a < b => a <= b) /\ (~(a <= b) => b < a) /\ (a < b => ~(b <= a))
  BY SessionAssumption DEF Time

\* The least of a set of numbers
LEMMA Least ==
    ASSUME NEW S, S \subseteq Nat, S # {}
    PROVE  \E m \in S : \A x \in S : m <= x
<1>1. PICK m \in S : \A y \in S : ~(<<y, m>> \in OpToRel(<, Nat))
  BY NatLessThanWellFounded, WFMin
<1>2. ASSUME NEW y \in S, y < m PROVE FALSE
  <2>1. <<y, m>> \in OpToRel(<, Nat)
    BY <1>2 DEF OpToRel
  <2> QED  BY <1>1, <2>1
<1> QED  BY <1>2

\* MaxOf returns the greatest of a set of times.
LEMMA MaxOfIs ==
    ASSUME NEW S, S \subseteq Time, S # {}
    PROVE  /\ MaxOf(S) \in S
           /\ MaxOf(S) \in Time
           /\ \A x \in S : x <= MaxOf(S)
<1> DEFINE D == {MaxTime - x : x \in S}
<1>1. S \subseteq Int /\ MaxTime \in Nat /\ \A x \in S : MaxTime - x \in Nat
  BY TimeFacts
<1>2. D \subseteq Nat /\ D # {}
  BY <1>1
<1>3. PICK d \in D : \A e \in D : d <= e
  BY <1>2, Least
<1>4. PICK m \in S : d = MaxTime - m
  OBVIOUS
<1>5. \A x \in S : x <= m
  <2> TAKE x \in S
  <2>1. MaxTime - m <= MaxTime - x
    BY <1>3, <1>4
  <2> QED  BY <1>1, <2>1
<1> QED  BY <1>5 DEF MaxOf

\* Every key has a partition and writers here or elsewhere.
LEMMA KeyFacts ==
    /\ \A k \in Key : PartitionFor(k) \in Partition
    /\ \A k \in Key : k \in RemoteKeys <=> k \notin LocalKeys
    /\ \A c \in Client : Home[c] \in Partition
    /\ LocalKeys \subseteq Key /\ RemoteKeys \subseteq Key
    /\ Here \in DC /\ Remote \subseteq DC /\ \A s \in DC : s # Here <=> s \in Remote
  BY SessionAssumption DEF Key, Partition, DC

\* The puts of the other data centres
LEMMA PutFacts ==
    ASSUME NEW s \in Remote, NEW put \in Log[s]
    PROVE  /\ put.key \in RemoteKeys /\ put.key \in Key
           /\ PartitionFor(put.key) \in Partition
           /\ put.ut \in Time /\ put.ut # 0
           /\ put.dep \in [DC -> Time]
           /\ \A d \in DC : put.dep[d] \in Time /\ put.dep[d] < put.ut
           /\ \A d \in Remote : put.dep[d] \in Time /\ put.dep[d] < put.ut
<1>1. put \in Put
  BY SessionAssumption
<1>2. /\ put.key \in RemoteKeys /\ put.ut \in Time /\ put.ut # 0 /\ put.dep \in [DC -> Time]
  BY <1>1 DEF Put
<1>3. \A d \in DC : put.dep[d] \in Time /\ put.dep[d] < put.ut
  BY <1>2, LogAssumption
<1> QED  BY <1>2, <1>3, KeyFacts

\* The fields of versions, values and chains
LEMMA VersionFacts ==
    /\ \A v \in Version : /\ v.ut \in Time /\ v.sr \in DC
                         /\ \A s \in DC : v.dep[s] \in Time
                         /\ \A k \in Key : v.deps[k] \in Time
    /\ \A r \in Reply : r.value \in Version /\ r.gst \in Vector
    /\ \A chain \in Seq(Version) :
        DOMAIN chain \subseteq Nat /\ \A i \in DOMAIN chain : chain[i] \in Version
    /\ \A g \in Vector : \A s \in Remote : g[s] \in Time
<1>1. \A v \in Version : /\ v.ut \in Time /\ v.sr \in DC
                        /\ \A s \in DC : v.dep[s] \in Time
                        /\ \A k \in Key : v.deps[k] \in Time
  BY DEF Version
<1>2. \A r \in Reply : r.value \in Version /\ r.gst \in Vector
  BY DEF Reply
<1>3. \A chain \in Seq(Version) :
        DOMAIN chain \subseteq Nat /\ \A i \in DOMAIN chain : chain[i] \in Version
  OBVIOUS
<1> QED  BY <1>1, <1>2, <1>3 DEF Vector

\* The order of vectors is transitive.
LEMMA LeqTransitive ==
    ASSUME NEW u, NEW v, NEW w, Leq(u, v), Leq(v, w),
           \A s \in Remote : u[s] \in Time /\ v[s] \in Time /\ w[s] \in Time
    PROVE  Leq(u, w)
<1> SUFFICES ASSUME NEW s \in Remote PROVE u[s] <= w[s]
  BY DEF Leq
<1>1. u[s] <= v[s] /\ v[s] <= w[s] /\ u[s] \in Int /\ v[s] \in Int /\ w[s] \in Int
  BY TimeFacts DEF Leq
<1> QED  BY <1>1

\* The maximum of two vectors
LEMMA MaxVectorIs ==
    ASSUME NEW v \in Vector, NEW w \in Vector
    PROVE  /\ MaxVector(v, w) \in Vector
           /\ Leq(v, MaxVector(v, w)) /\ Leq(w, MaxVector(v, w))
           /\ \A s \in Remote : MaxVector(v, w)[s] \in {v[s], w[s]}
<1>1. DOMAIN v = Remote
  BY DEF Vector
<1>2. ASSUME NEW s \in Remote
      PROVE  /\ MaxOf({v[s], w[s]}) \in Time /\ MaxOf({v[s], w[s]}) \in {v[s], w[s]}
             /\ v[s] <= MaxOf({v[s], w[s]}) /\ w[s] <= MaxOf({v[s], w[s]})
  <2>1. {v[s], w[s]} \subseteq Time /\ {v[s], w[s]} # {}
    BY DEF Vector
  <2> QED  BY <2>1, MaxOfIs
<1> QED  BY <1>1, <1>2 DEF MaxVector, Leq, Vector

\* The vector and the version of nothing
LEMMA NothingFacts ==
    /\ NoTimes \in Vector /\ \A s \in Remote : NoTimes[s] = 0
    /\ NoDeps \in [Key -> Time] /\ \A k \in Key : NoDeps[k] = 0
    /\ NoVersion \in Version
    /\ NoVersion.ut = 0 /\ NoVersion.sr = Here /\ \A k \in Key : NoVersion.deps[k] = 0
    /\ \A x : Genuine(x, NoVersion)
<1>1. NoTimes \in Vector /\ \A s \in Remote : NoTimes[s] = 0
  BY TimeFacts DEF NoTimes, Vector
<1>2. NoDeps \in [Key -> Time] /\ \A k \in Key : NoDeps[k] = 0
  BY TimeFacts DEF NoDeps
<1>3. /\ NoVersion \in Version
      /\ NoVersion.ut = 0 /\ NoVersion.sr = Here /\ \A k \in Key : NoVersion.deps[k] = 0
  BY <1>2, TimeFacts, KeyFacts DEF NoVersion, Version
<1>4. \A x : Genuine(x, NoVersion)
  BY <1>3 DEF Genuine
<1> QED  BY <1>1, <1>2, <1>3, <1>4

\* A greater vector covers what a smaller one covers.
LEMMA CoveredByMore ==
    ASSUME NEW k \in Key, NEW u \in Time, NEW g, NEW h, Leq(g, h), Covered(k, u, g),
           \A s \in Remote : g[s] \in Time /\ h[s] \in Time
    PROVE  Covered(k, u, h)
<1>0. PICK s \in Remote : \E put \in Log[s] :
        put.key = k /\ put.ut = u /\ u <= g[s] /\ Leq(put.dep, g)
  BY DEF Covered
<1>1. PICK put \in Log[s] : put.key = k /\ put.ut = u /\ u <= g[s] /\ Leq(put.dep, g)
  BY <1>0
<1>2. u <= h[s]
  <2>1. g[s] <= h[s] /\ g[s] \in Int /\ h[s] \in Int /\ u \in Int
    BY TimeFacts DEF Leq
  <2> QED  BY <1>1, <2>1
<1>3. \A d \in Remote : put.dep[d] \in Time
  BY PutFacts
<1>4. Leq(put.dep, h)
  BY <1>1, <1>3, LeqTransitive
<1> QED  BY <1>1, <1>2, <1>4 DEF Covered

\* The first visible version of a sorted chain is the newest of them.
LEMMA FirstVisible ==
    ASSUME NEW chain \in Seq(Version), Sorted(chain),
           NEW visible, visible \subseteq DOMAIN chain, visible # {}
    PROVE  \E i \in visible :
            /\ GetValueAt(chain, visible) = chain[i]
            /\ \A j \in visible : chain[j].ut <= chain[i].ut
<1>1. visible \subseteq Nat
  OBVIOUS
<1>2. \E i \in visible : \A j \in visible : i <= j
  BY <1>1, Least
<1> DEFINE i == CHOOSE i \in visible : \A j \in visible : i <= j
<1>3. i \in visible /\ \A j \in visible : i <= j
  BY <1>2
<1>4. GetValueAt(chain, visible) = chain[i]
  BY DEF GetValueAt
<1> HIDE DEF i
<1>5. \A j \in visible : chain[j].ut <= chain[i].ut
  <2> TAKE j \in visible
  <2>1. chain[j].ut \in Int /\ chain[i].ut \in Int
    BY <1>3, VersionFacts, TimeFacts
  <2>2. CASE i = j
    BY <2>1, <2>2
  <2>3. CASE i < j
    BY <1>3, <2>1, <2>3 DEF Sorted
  <2> QED  BY <1>1, <1>3, <2>2, <2>3
<1> QED  BY <1>3, <1>4, <1>5

-----------------------------------------------------------------------------
(***************************************************************************)
(* What holds goes on to hold                                              *)
(***************************************************************************)
\* The fields of a state of the servers
LEMMA ServersFacts ==
    ASSUME NEW x \in Servers
    PROVE  /\ \A p \in Partition : /\ x.clock[p] \in Time /\ x.other[p] \in Vector
                                   /\ x.applied[p] \in Vector /\ x.gst[p] \in Vector
           /\ \A p \in Partition : \A s \in Remote :
                x.other[p][s] \in Time /\ x.applied[p][s] \in Time /\ x.gst[p][s] \in Time
           /\ \A k \in Key : x.store[k] \in Seq(Version)
           /\ \A k \in Key : \A i \in DOMAIN x.store[k] : x.store[k][i] \in Version
<1>1. \A p \in Partition : /\ x.clock[p] \in Time /\ x.other[p] \in Vector
                           /\ x.applied[p] \in Vector /\ x.gst[p] \in Vector
  BY DEF Servers
<1>2. \A k \in Key : x.store[k] \in Seq(Version)
  BY DEF Servers
<1> QED  BY <1>1, <1>2, VersionFacts

\* Srv gives the present state of the servers.
LEMMA SrvType ==
    ASSUME Types
    PROVE  /\ Srv \in Servers
           /\ Srv.clock = clock /\ Srv.other = other /\ Srv.applied = applied
      /\ Srv.gst = gst_vector /\ Srv.store = store /\ Srv.one = single_core
  BY DEF Types, Srv, Servers

\* A new version goes in front, where the others keep their order.
LEMMA InFront ==
    ASSUME NEW chain \in Seq(Version), NEW v \in Version
    PROVE  LET new == <<v>> \o chain
           IN  /\ new \in Seq(Version)
               /\ new[1] = v /\ 1 \in DOMAIN new
               /\ \A i \in DOMAIN chain : i + 1 \in DOMAIN new /\ new[i + 1] = chain[i]
               /\ \A i \in DOMAIN new :
                    i # 1 => i - 1 \in DOMAIN chain /\ new[i] = chain[i - 1]
  OBVIOUS

\* A version is no less visible under a greater vector.
LEMMA VisibleByMore ==
    ASSUME NEW v \in Version, NEW g \in Vector, NEW h \in Vector, Leq(g, h), IsVisible(v, g)
    PROVE  IsVisible(v, h)
<1>1. \A s \in Remote : v.dep[s] \in Time /\ g[s] \in Time /\ h[s] \in Time
  BY VersionFacts, KeyFacts
<1> QED  BY <1>1, LeqTransitive DEF IsVisible

\* From x to y, what is safe stays safe, and what is visible stays visible.
LEMMA Kept ==
    ASSUME NEW x \in Servers, NEW y \in Servers, Grown(x, y)
    PROVE  /\ \A g : (\A s \in Remote : g[s] \in Time) /\ Safe(x, g) => Safe(y, g)
           /\ \A k \in Key : \A u : VisibleIn(x, k, u) => VisibleIn(y, k, u)
           /\ \A g \in Vector : \A p \in Partition : Leq(g, x.gst[p]) => Leq(g, y.gst[p])
           /\ \A p \in Partition, t \in Time : t <= x.clock[p] => t <= y.clock[p]
           /\ \A v : Genuine(x, v) => Genuine(y, v)
           /\ y.one = x.one
<1>1. ASSUME NEW g, \A s \in Remote : g[s] \in Time, Safe(x, g) PROVE Safe(y, g)
  <2> SUFFICES ASSUME NEW p \in Partition, NEW s \in Remote PROVE g[s] <= y.other[p][s]
    BY DEF Safe
  <2>1. g[s] <= x.other[p][s] /\ x.other[p][s] <= y.other[p][s]
    BY <1>1 DEF Safe, Grown
  <2>2. g[s] \in Int /\ x.other[p][s] \in Int /\ y.other[p][s] \in Int
    BY <1>1, ServersFacts, TimeFacts
  <2> QED  BY <2>1, <2>2
<1>2. ASSUME NEW k \in Key, NEW u, VisibleIn(x, k, u) PROVE VisibleIn(y, k, u)
  <2> DEFINE p == PartitionFor(k)
  <2>1. PICK i \in DOMAIN x.store[k] :
            x.store[k][i].ut = u /\ IsVisible(x.store[k][i], x.gst[p])
    BY <1>2 DEF VisibleIn
  <2>2. IsVisible(x.store[k][i], y.gst[p])
    <3>1. p \in Partition
      BY KeyFacts
    <3>2. Leq(x.gst[p], y.gst[p])
      BY <3>1 DEF Leq, Grown
    <3>3. x.store[k][i] \in Version /\ x.gst[p] \in Vector /\ y.gst[p] \in Vector
      BY <3>1, ServersFacts
    <3> QED  BY <2>1, <3>2, <3>3, VisibleByMore
  <2>3. CASE y.store[k] = x.store[k]
    BY <2>1, <2>2, <2>3 DEF VisibleIn
  <2>4. CASE \E v \in Version : y.store[k] = <<v>> \o x.store[k]
    <3>1. PICK v \in Version : y.store[k] = <<v>> \o x.store[k]
      BY <2>4
    <3>2. i + 1 \in DOMAIN y.store[k] /\ y.store[k][i + 1] = x.store[k][i]
      BY <3>1, InFront, ServersFacts
    <3> QED  BY <2>1, <2>2, <3>2 DEF VisibleIn
  <2> QED  BY <2>3, <2>4 DEF Grown
<1>3. ASSUME NEW g \in Vector, NEW p \in Partition, Leq(g, x.gst[p]) PROVE Leq(g, y.gst[p])
  <2>1. Leq(x.gst[p], y.gst[p])
    BY DEF Leq, Grown
  <2>2. \A s \in Remote : g[s] \in Time /\ x.gst[p][s] \in Time /\ y.gst[p][s] \in Time
    BY ServersFacts, VersionFacts
  <2> QED  BY <1>3, <2>1, <2>2, LeqTransitive
<1>4. ASSUME NEW p \in Partition, NEW t \in Time, t <= x.clock[p] PROVE t <= y.clock[p]
  <2>1. x.clock[p] <= y.clock[p]
    BY DEF Grown
  <2>2. t \in Int /\ x.clock[p] \in Int /\ y.clock[p] \in Int
    BY ServersFacts, TimeFacts
  <2> QED  BY <1>4, <2>1, <2>2
<1>5. \A v : Genuine(x, v) => Genuine(y, v)
  BY <1>2 DEF Genuine
<1>6. y.one = x.one
  BY DEF Grown
<1> QED  BY <1>1, <1>2, <1>3, <1>4, <1>5, <1>6

\* A version of k that is there stays all right.
LEMMA StoredKept ==
    ASSUME NEW x \in Servers, NEW y \in Servers, Grown(x, y), NEW k \in Key, NEW v \in Version,
           StoredOK(x, k, v)
    PROVE  StoredOK(y, k, v)
<1> DEFINE p == PartitionFor(k)
<1>1. p \in Partition /\ v.ut \in Time /\ v.sr \in DC
  BY KeyFacts, VersionFacts
<1>2. v.sr = Here => v.ut <= y.clock[p]
  <2>1. x.clock[p] <= y.clock[p] /\ x.clock[p] \in Int /\ y.clock[p] \in Int /\ v.ut \in Int
    BY <1>1, ServersFacts, TimeFacts DEF Grown
  <2> QED  BY <2>1 DEF StoredOK
<1>3. v.sr # Here => v.ut <= y.applied[p][v.sr]
  <2> SUFFICES ASSUME v.sr # Here PROVE v.ut <= y.applied[p][v.sr]
    OBVIOUS
  <2>1. v.sr \in Remote
    BY <1>1, KeyFacts
  <2>2. x.applied[p][v.sr] <= y.applied[p][v.sr] /\ v.ut <= x.applied[p][v.sr]
    BY <1>1, <2>1 DEF Grown, StoredOK
  <2>3. x.applied[p][v.sr] \in Int /\ y.applied[p][v.sr] \in Int /\ v.ut \in Int
    BY <1>1, <2>1, ServersFacts, TimeFacts
  <2> QED  BY <2>2, <2>3
<1>4. Genuine(y, v)
  BY Kept DEF StoredOK
<1> QED  BY <1>2, <1>3, <1>4 DEF StoredOK

\* A put that has arrived stays in its chain.
LEMMA InKept ==
    ASSUME NEW x \in Servers, NEW y \in Servers, Grown(x, y),
           NEW s \in Remote, NEW put \in Log[s], In(x, s, put)
    PROVE  In(y, s, put)
<1> DEFINE k == put.key
<1>1. k \in Key
  BY PutFacts
<1>2. PICK i \in DOMAIN x.store[k] : IsPut(x.store[k][i], s, put)
  BY DEF In
<1>3. \E j \in DOMAIN y.store[k] : y.store[k][j] = x.store[k][i]
  <2>1. CASE y.store[k] = x.store[k]
    BY <2>1
  <2>2. CASE \E v \in Version : y.store[k] = <<v>> \o x.store[k]
    <3>1. PICK v \in Version : y.store[k] = <<v>> \o x.store[k]
      BY <2>2
    <3>2. i + 1 \in DOMAIN y.store[k] /\ y.store[k][i + 1] = x.store[k][i]
      BY <1>1, <3>1, InFront, ServersFacts
    <3> QED  BY <3>2
  <2> QED  BY <1>1, <2>1, <2>2 DEF Grown
<1>4. PICK j \in DOMAIN y.store[k] : y.store[k][j] = x.store[k][i]
  BY <1>3
<1>5. IsPut(y.store[k][j], s, put)
  BY <1>2, <1>4
<1> QED  BY <1>5 DEF In

\* The chain of a key that is not written stays all right if no put of it
\* becomes due.
LEMMA ChainSame ==
    ASSUME NEW x \in Servers, NEW y \in Servers, Grown(x, y), NEW k \in Key,
           ChainOK(x, k), y.store[k] = x.store[k],
           \A s \in Remote : \A put \in Log[s] :
            put.key = k /\ Due(y, PartitionFor(k), s, put.ut) =>
                Due(x, PartitionFor(k), s, put.ut)
    PROVE  ChainOK(y, k)
<1>1. Sorted(y.store[k])
  BY DEF ChainOK
<1>2. ASSUME NEW i \in DOMAIN y.store[k] PROVE StoredOK(y, k, y.store[k][i])
  <2>1. x.store[k][i] \in Version /\ StoredOK(x, k, x.store[k][i])
    BY ServersFacts DEF ChainOK
  <2> QED  BY <2>1, StoredKept
<1>3. ASSUME NEW s \in Remote, NEW put \in Log[s],
             put.key = k, Due(y, PartitionFor(k), s, put.ut)
      PROVE  In(y, s, put)
  <2>1. In(x, s, put)
    BY <1>3 DEF ChainOK
  <2> QED  BY <2>1, InKept
<1> QED  BY <1>1, <1>2, <1>3 DEF ChainOK

\* The types of what a client has, as its operators use them
ClientType(m) ==
    /\ m.req \in ReqType
    /\ \A p \in Partition : SliceType(m.slice[p])
    /\ ReplyType(m.reply)
    /\ m.dv \in [DC -> Time] /\ m.gst \in Vector
    /\ m.past \in [Key -> Time] /\ m.seen \in [Key -> Time]

\* Cli gives the present state of a client.
LEMMA CliType ==
    ASSUME Types, NEW c \in Client
    PROVE  /\ ClientType(Cli(c))
           /\ Cli(c).req = req[c] /\ Cli(c).slice = slice[c] /\ Cli(c).reply = reply[c]
           /\ Cli(c).dv = dependency_vector[c] /\ Cli(c).gst = client_gst[c]
           /\ Cli(c).past = past[c] /\ Cli(c).seen = seen[c]
<1>1. /\ Cli(c).req = req[c] /\ Cli(c).slice = slice[c] /\ Cli(c).reply = reply[c]
      /\ Cli(c).dv = dependency_vector[c] /\ Cli(c).gst = client_gst[c]
      /\ Cli(c).past = past[c] /\ Cli(c).seen = seen[c]
  BY DEF Cli
<1>2. /\ req[c] \in ReqType /\ (\A p \in Partition : SliceType(slice[c][p]))
      /\ ReplyType(reply[c])
      /\ dependency_vector[c] \in [DC -> Time] /\ client_gst[c] \in Vector
      /\ past[c] \in [Key -> Time] /\ seen[c] \in [Key -> Time]
  BY DEF Types
<1> QED  BY <1>1, <1>2 DEF ClientType

\* The fields of what a client has
LEMMA ClientFacts ==
    ASSUME NEW m, ClientType(m)
    PROVE  /\ m.req.op \in {"none", "get", "put", "rotx"} /\ m.req.keys \subseteq Key
           /\ m.req.stage \in Stages /\ m.req.time \in Time /\ m.req.gst \in Vector
           /\ \A s \in Remote : m.req.gst[s] \in Time /\ m.gst[s] \in Time
           /\ \A s \in DC : m.dv[s] \in Time
           /\ \A k \in Key : m.past[k] \in Time /\ m.seen[k] \in Time
           /\ \A p \in Partition : \A k \in DOMAIN m.slice[p].values :
                k \in Key /\ m.slice[p].values[k] \in Version
           /\ \A k \in DOMAIN m.reply :
                k \in Key /\ m.reply[k].value \in Version /\ m.reply[k].gst \in Vector
<1>1. /\ m.req.op \in {"none", "get", "put", "rotx"} /\ m.req.keys \subseteq Key
      /\ m.req.stage \in Stages /\ m.req.time \in Time /\ m.req.gst \in Vector
  BY DEF ClientType, ReqType
<1>2. m.gst \in Vector
  BY DEF ClientType
<1>3. \A p \in Partition : \A k \in DOMAIN m.slice[p].values :
        k \in Key /\ m.slice[p].values[k] \in Version
  BY DEF ClientType, SliceType
<1>4. \A k \in DOMAIN m.reply : k \in Key /\ m.reply[k].value \in Version /\ m.reply[k].gst \in Vector
  BY VersionFacts DEF ClientType, ReplyType
<1>5. /\ \A s \in DC : m.dv[s] \in Time
      /\ \A k \in Key : m.past[k] \in Time /\ m.seen[k] \in Time
  BY DEF ClientType
<1> QED  BY <1>1, <1>2, <1>3, <1>4, <1>5, VersionFacts

\* A client that does nothing is all right whatever the servers do.
LEMMA ClientKept ==
    ASSUME NEW x \in Servers, NEW y \in Servers, Grown(x, y),
           NEW m, ClientType(m), ClientOK(x, m)
    PROVE  ClientOK(y, m)
<1> USE ClientFacts
<1>1. SessionOK(y, m)
  <2>1. SessionOK(x, m)
    BY DEF ClientOK
  <2>2. Safe(y, m.gst)
    BY <2>1, Kept DEF SessionOK
  <2> QED  BY <2>1, <2>2, Kept DEF SessionOK
<1>2. RequestOK(y, m)
  <2>1. RequestOK(x, m)
    BY DEF ClientOK
  <2>2. m.gst \in Vector
    BY DEF ClientType
  <2>3. m.req.stage # "idle" => m.req.at \in Partition
    BY <2>1 DEF RequestOK
  <2>4. Safe(y, m.req.gst)
    BY <2>1, Kept DEF RequestOK
  <2>5. m.req.op \in {"get", "rotx"} /\ m.req.stage = "locked" => Leq(m.gst, y.gst[m.req.at])
    BY <2>1, <2>2, <2>3, Kept DEF RequestOK
  <2>6. m.req.op = "put" /\ m.req.stage = "locking" => \A s \in DC : m.dv[s] <= y.clock[m.req.at]
    BY <2>1, <2>3, Kept DEF RequestOK
  <2> QED  BY <2>1, <2>4, <2>5, <2>6 DEF RequestOK
<1>3. ASSUME NEW k \in Key, NEW v \in Version, NEW g \in Vector, ValueOK(x, m, k, v, g)
      PROVE  ValueOK(y, m, k, v, g)
  <2>1. \A s \in Remote : g[s] \in Time /\ v.dep[s] \in Time
    BY VersionFacts, KeyFacts
  <2>2. Safe(y, g) /\ (v.sr # Here => Safe(y, v.dep))
    BY <1>3, <2>1, Kept DEF ValueOK
  <2>3. (v.ut = 0 \/ VisibleIn(y, k, v.ut)) /\ Genuine(y, v)
    BY <1>3, Kept DEF ValueOK
  <2> QED  BY <1>3, <2>2, <2>3 DEF ValueOK
<1>4. ReplyOK(y, m)
  <2>1. ReplyOK(x, m)
    BY DEF ClientOK
  <2> QED  BY <1>3, <2>1 DEF ReplyOK
<1>5. ASSUME NEW p \in Partition PROVE SliceOK(y, m, p)
  <2>1. SliceOK(x, m, p)
    BY DEF ClientOK
  <2>2. /\ m.slice[p].stage = "locked" => Leq(m.req.gst, y.gst[p])
        /\ m.slice[p].stage \in {"locking", "locked"} => m.req.time <= y.clock[p]
    BY <2>1, Kept DEF SliceOK
  <2>3. \A k \in DOMAIN m.slice[p].values : ValueOK(y, m, k, m.slice[p].values[k], NoTimes)
    BY <1>3, <2>1, NothingFacts DEF SliceOK
  <2> QED  BY <2>1, <2>2, <2>3 DEF SliceOK
<1> QED  BY <1>1, <1>2, <1>4, <1>5 DEF ClientOK

\* Before its answers come in, a request has neither values nor slices.
LEMMA NothingYet ==
    ASSUME NEW x, NEW m, ClientOK(x, m),
           m.req.stage \notin {"slicing", "answered"},
           ~(m.req.op = "put" /\ m.req.stage = "locked")
    PROVE  /\ DOMAIN m.reply = {}
           /\ \A p \in Partition : m.slice[p].stage = "none" /\ DOMAIN m.slice[p].values = {}
<1>1. DOMAIN m.reply = {}
  BY DEF ClientOK, ReplyOK
<1>2. \A p \in Partition : SliceOK(x, m, p)
  BY DEF ClientOK
<1> QED  BY <1>1, <1>2 DEF SliceOK

\* Only a transaction has slices.
LEMMA NoSlices ==
    ASSUME NEW x, NEW m, ClientOK(x, m), ~(m.req.op = "rotx" /\ m.req.stage = "slicing")
    PROVE  \A p \in Partition : m.slice[p].stage = "none" /\ DOMAIN m.slice[p].values = {}
<1>1. \A p \in Partition : SliceOK(x, m, p)
  BY DEF ClientOK
<1> QED  BY <1>1 DEF SliceOK

\* A client without slices has nothing wrong with them.
LEMMA EmptySlices ==
    ASSUME NEW x, NEW m,
           \A p \in Partition : m.slice[p].stage = "none" /\ DOMAIN m.slice[p].values = {}
    PROVE  \A p \in Partition : SliceOK(x, m, p)
  BY DEF SliceOK

\* Such a request goes on.
LEMMA RequestGoesOn ==
    ASSUME NEW x, NEW m, NEW n, ClientOK(x, m),
           m.req.stage \notin {"slicing", "answered"},
           ~(m.req.op = "put" /\ m.req.stage = "locked"),
           n.slice = m.slice, n.reply = m.reply,
           n.dv = m.dv, n.gst = m.gst, n.past = m.past, n.seen = m.seen,
           RequestOK(x, n)
    PROVE  ClientOK(x, n)
<1>1. /\ DOMAIN n.reply = {}
      /\ \A p \in Partition : n.slice[p].stage = "none" /\ DOMAIN n.slice[p].values = {}
  BY NothingYet
<1>2. SessionOK(x, n)
  BY DEF ClientOK, SessionOK
<1>3. ReplyOK(x, n)
  BY <1>1 DEF ReplyOK
<1>4. \A p \in Partition : SliceOK(x, n, p)
  BY <1>1, EmptySlices
<1> QED  BY <1>2, <1>3, <1>4 DEF ClientOK

\* What the invariant says about the servers and one client
LEMMA Mine ==
    ASSUME IInv, NEW c \in Client
    PROVE  /\ Types /\ Srv \in Servers /\ ServersOK(Srv)
           /\ ClientType(Cli(c)) /\ ClientOK(Srv, Cli(c))
  BY SrvType, CliType DEF IInv

\* It is enough to look at one client when the servers do nothing...
LEMMA OneClient ==
    ASSUME IInv, Types', UNCHANGED <<servers, single_core>>,
           NEW c \in Client, \A d \in Client \ {c} : Cli(d)' = Cli(d),
           ClientOK(Srv, Cli(c)')
    PROVE  IInv'
<1>1. Srv' = Srv
  BY DEF Srv, servers
<1> QED  BY <1>1 DEF IInv

\* ... and at the servers and the clients that do something when they do.
LEMMA Step ==
    ASSUME IInv, Types', Grown(Srv, Srv'), ServersOK(Srv'),
           \A d \in Client : \/ Cli(d)' = Cli(d)
                             \/ ClientOK(Srv', Cli(d)')
    PROVE  IInv'
<1>1. Srv' \in Servers
  BY DEF Types, Srv, Servers
<1>2. ASSUME NEW d \in Client PROVE ClientOK(Srv', Cli(d)')
  BY <1>1, ClientKept, Mine
<1> QED  BY <1>2 DEF IInv

-----------------------------------------------------------------------------
(***************************************************************************)
(* The steps of a request before its answers come in                       *)
(***************************************************************************)
\* The key of a request of one key
LEMMA TheKeyIs ==
    ASSUME NEW c \in Client, NEW k, req[c].keys = {k}
    PROVE  TheKey(c) = k
  BY DEF TheKey

\* What is known about the request of c
LEMMA MyRequest ==
    ASSUME IInv, NEW c \in Client
    PROVE  /\ req[c] \in ReqType
           /\ client_gst[c] \in Vector /\ req[c].gst \in Vector
           /\ Safe(Srv, client_gst[c]) /\ Safe(Srv, req[c].gst)
           /\ req[c].stage # "idle" => req[c].at \in Partition /\ req[c].op # "none"
           /\ req[c].op \in {"get", "put"} =>
                /\ TheKey(c) \in Key /\ req[c].keys = {TheKey(c)}
                /\ req[c].op = "put" => TheKey(c) \in LocalKeys
                /\ req[c].stage \in {"locking", "locked"} => req[c].at = PartitionFor(TheKey(c))
           /\ req[c].op \in {"get", "rotx"} /\ req[c].stage = "locked" =>
                Leq(client_gst[c], gst_vector[req[c].at])
           /\ req[c].op = "put" /\ req[c].stage = "locking" =>
                \A s \in DC : dependency_vector[c][s] <= clock[req[c].at]
           /\ req[c].op = "rotx" /\ req[c].stage \in {"slicing", "answered"} =>
                Leq(client_gst[c], req[c].gst)
<1>1. RequestOK(Srv, Cli(c)) /\ SessionOK(Srv, Cli(c)) /\ Srv.gst = gst_vector /\ Srv.clock = clock
  BY Mine, SrvType DEF ClientOK
<1>2. Cli(c).req = req[c] /\ Cli(c).dv = dependency_vector[c] /\ Cli(c).gst = client_gst[c]
  BY Mine, CliType
<1>3. req[c] \in ReqType /\ client_gst[c] \in Vector
  BY Mine DEF Types
<1>4. req[c].gst \in Vector
  BY <1>3 DEF ReqType
<1>5. Safe(Srv, client_gst[c]) /\ Safe(Srv, req[c].gst)
  BY <1>1, <1>2 DEF RequestOK, SessionOK
<1>6. req[c].op \in {"get", "put"} =>
                /\ TheKey(c) \in Key /\ req[c].keys = {TheKey(c)}
                /\ req[c].op = "put" => TheKey(c) \in LocalKeys
                /\ req[c].stage \in {"locking", "locked"} => req[c].at = PartitionFor(TheKey(c))
  BY <1>1, <1>2, TheKeyIs DEF RequestOK
<1> QED  BY <1>1, <1>2, <1>3, <1>4, <1>5, <1>6 DEF RequestOK

\* A request keeps its type when its stage, server, time or vector changes.
LEMMA ReqFields ==
    ASSUME NEW r \in ReqType
    PROVE  /\ \A s \in Stages : [r EXCEPT !.stage = s] \in ReqType
           /\ \A s \in Stages, t \in Time, g \in Vector :
                [r EXCEPT !.stage = s, !.time = t, !.gst = g] \in ReqType
           /\ \A p \in Partition : [r EXCEPT !.at = p] \in ReqType
  BY DEF ReqType

\* The vector of nothing is safe.
LEMMA NoTimesSafe ==
    ASSUME NEW x \in Servers
    PROVE  Safe(x, NoTimes)
  BY ServersFacts, NothingFacts, TimeFacts DEF Safe

\* A step that changes the request of c and nothing else.  RequestOK looks at
\* the request and the vectors of the client and, once a get is answered, at
\* what has come back.
LEMMA OnlyReq ==
    ASSUME IInv, NEW c \in Client, NEW r \in ReqType,
           req' = [req EXCEPT ![c] = r], UNCHANGED <<servers, session, slice, reply, single_core>>,
           req[c].stage \notin {"slicing", "answered"},
           ~(req[c].op = "put" /\ req[c].stage = "locked"),
           \A n : n.req = r /\ n.dv = dependency_vector[c] /\ n.gst = client_gst[c]
                  => RequestOK(Srv, n)
    PROVE  IInv'
<1> USE Mine
<1>1. Types'
  BY DEF Types, servers, session
<1>2. \A d \in Client \ {c} : Cli(d)' = Cli(d)
  BY DEF Types, Cli, servers, session
<1>3. /\ Cli(c)'.req = r
      /\ Cli(c)'.slice = Cli(c).slice /\ Cli(c)'.reply = Cli(c).reply
      /\ Cli(c)'.dv = Cli(c).dv /\ Cli(c)'.gst = Cli(c).gst
      /\ Cli(c)'.past = Cli(c).past /\ Cli(c)'.seen = Cli(c).seen
  BY DEF Types, Cli, session
<1>4. Cli(c).req = req[c] /\ Cli(c).dv = dependency_vector[c] /\ Cli(c).gst = client_gst[c]
  BY CliType
<1>5. RequestOK(Srv, Cli(c)')
  BY <1>3, <1>4
<1>6. ClientOK(Srv, Cli(c)')
  BY <1>3, <1>4, <1>5, RequestGoesOn
<1> QED  BY <1>1, <1>2, <1>6, OneClient

\* The client sends a request.
LEMMA ClientRequestStep ==
    ASSUME IInv, NEW c \in Client, NEW q \in Request, ClientRequest(c, q)
    PROVE  IInv'
<1>1. q \in Request
  OBVIOUS
<1>2. /\ q.op \in {"get", "put", "rotx"} /\ q.keys \in SUBSET Key
      /\ q.op \in {"get", "put"} =>
            \E k \in Key : q.keys = {k} /\ (q.op = "put" => k \in LocalKeys)
  <2>1. CASE q \in [op : {"get"}, keys : {{k} : k \in Key}]
    BY <2>1
  <2>2. CASE q \in [op : {"put"}, keys : {{k} : k \in LocalKeys}]
    BY <2>2, KeyFacts
  <2>3. CASE q \in [op : {"rotx"}, keys : SUBSET Key]
    BY <2>3
  <2> QED  BY <1>1, <2>1, <2>2, <2>3 DEF Request
<1> DEFINE r == [Idle EXCEPT !.op = q.op, !.keys = q.keys, !.at = Home[c], !.stage = "sent"]
<1>3. Idle \in ReqType /\ Idle.gst = NoTimes /\ Home[c] \in Partition
  BY KeyFacts, TimeFacts, NothingFacts DEF Idle, ReqType, Stages
<1>4. req' = [req EXCEPT ![c] = r] /\ req[c] = Idle /\ UNCHANGED <<servers, session, slice, reply, single_core>>
  BY DEF ClientRequest
<1>5. r \in ReqType
  BY <1>2, <1>3 DEF ReqType, Stages
<1>6. /\ r.op = q.op /\ r.keys = q.keys /\ r.at = Home[c] /\ r.stage = "sent" /\ r.gst = NoTimes
  BY <1>3 DEF ReqType
<1> HIDE DEF r
<1>7. Safe(Srv, NoTimes)
  BY Mine, NoTimesSafe
<1>8. \A n : n.req = r => RequestOK(Srv, n)
  BY <1>2, <1>3, <1>6, <1>7 DEF RequestOK
<1>9. req[c].stage = "idle" /\ req[c].op = "none"
  BY <1>4 DEF Idle
<1> QED  BY <1>4, <1>5, <1>8, <1>9, OnlyReq

\* The put waits until the clock has passed its dependency vector.
LEMMA PutRequestStep ==
    ASSUME IInv, NEW c \in Client, PutRequest(c)
    PROVE  IInv'
<1> DEFINE r == [req[c] EXCEPT !.stage = "locking"]
<1>1. req[c].op = "put" /\ req[c].stage = "sent" /\ PartitionFor(TheKey(c)) = req[c].at
  BY DEF PutRequest, Arrived, At
<1>2. /\ TheKey(c) \in LocalKeys /\ TheKey(c) \in Key /\ req[c].keys = {TheKey(c)}
      /\ req[c].at \in Partition /\ req[c] \in ReqType /\ Safe(Srv, req[c].gst)
  BY <1>1, MyRequest
<1>3. \A s \in DC : dependency_vector[c][s] <= clock[req[c].at]
  <2> TAKE s \in DC
  <2>1. PutVector(c)[s] <= clock[req[c].at]
    BY DEF PutRequest
  <2>2. dependency_vector[c][s] \in Time /\ clock[req[c].at] \in Time
    BY <1>2, Mine DEF Types
  <2>3. CASE s = Here
    BY <2>1, <2>3 DEF PutVector
  <2>4. CASE s # Here
    <3>1. client_gst[c][s] \in Time
      BY <2>4, MyRequest, VersionFacts, KeyFacts
    <3> DEFINE S == {client_gst[c][s], dependency_vector[c][s]}
    <3>2. S \subseteq Time /\ S # {} /\ dependency_vector[c][s] \in S
      BY <2>2, <3>1
    <3> HIDE DEF S
    <3>3. dependency_vector[c][s] <= MaxOf(S) /\ MaxOf(S) \in Time
      BY <3>2, MaxOfIs
    <3>4. PutVector(c)[s] = MaxOf(S)
      BY <2>4 DEF PutVector, S
    <3>5. /\ dependency_vector[c][s] \in Int /\ MaxOf(S) \in Int /\ clock[req[c].at] \in Int
          /\ MaxOf(S) <= clock[req[c].at]
      BY <2>1, <2>2, <3>3, <3>4, TimeFacts
    <3> QED  BY <3>3, <3>5
  <2> QED  BY <2>3, <2>4
<1>4. req' = [req EXCEPT ![c] = r] /\ UNCHANGED <<servers, session, slice, reply, single_core>>
  BY DEF PutRequest, Stage
<1>5. r \in ReqType
  BY <1>2, ReqFields DEF Stages
<1>6. /\ r.op = "put" /\ r.keys = req[c].keys /\ r.stage = "locking" /\ r.at = req[c].at
      /\ r.gst = req[c].gst
  BY <1>1, <1>2 DEF ReqType
<1> HIDE DEF r
<1>7. Srv.clock = clock
  BY DEF Srv
<1>8. \A n : n.req = r /\ n.dv = dependency_vector[c] => RequestOK(Srv, n)
  BY <1>1, <1>2, <1>3, <1>6, <1>7 DEF RequestOK
<1> QED  BY <1>1, <1>4, <1>5, <1>8, OnlyReq

\* A get, or a transaction, that has to raise the vector of its server asks for
\* the lock.
LEMMA AskForLock ==
    ASSUME IInv, NEW c \in Client, req[c].op \in {"get", "rotx"}, req[c].stage = "sent",
           req[c].op = "get" => PartitionFor(TheKey(c)) = req[c].at,
           req' = Stage(c, "locking"), UNCHANGED <<servers, session, slice, reply, single_core>>
    PROVE  IInv'
<1> DEFINE r == [req[c] EXCEPT !.stage = "locking"]
<1>1. /\ req[c].at \in Partition /\ req[c] \in ReqType /\ Safe(Srv, req[c].gst)
      /\ req[c].op = "get" => TheKey(c) \in Key /\ req[c].keys = {TheKey(c)}
  BY MyRequest
<1>2. req' = [req EXCEPT ![c] = r]
  BY DEF Stage
<1>3. r \in ReqType
  BY <1>1, ReqFields DEF Stages
<1>4. /\ r.op = req[c].op /\ r.keys = req[c].keys /\ r.stage = "locking" /\ r.at = req[c].at
      /\ r.gst = req[c].gst
  BY <1>1 DEF ReqType
<1> HIDE DEF r
<1>5. \A n : n.req = r => RequestOK(Srv, n)
  BY <1>1, <1>4 DEF RequestOK
<1> QED  BY <1>2, <1>3, <1>5, OnlyReq

-----------------------------------------------------------------------------
(***************************************************************************)
(* Vectors are raised                                                      *)
(***************************************************************************)
\* The vector of p rises to a safe one.
LEMMA GstRaised ==
    ASSUME IInv, NEW p \in Partition, NEW h \in Vector, Leq(gst_vector[p], h), Safe(Srv, h),
           gst_vector' = [gst_vector EXCEPT ![p] = h], UNCHANGED <<clock, other, applied, store, single_core>>
    PROVE  /\ gst_vector' \in [Partition -> Vector] /\ gst_vector'[p] = h
           /\ Srv' \in Servers /\ Grown(Srv, Srv') /\ ServersOK(Srv')
<1>1. /\ Types /\ Srv \in Servers /\ ServersOK(Srv)
      /\ Srv.clock = clock /\ Srv.other = other /\ Srv.applied = applied
      /\ Srv.gst = gst_vector /\ Srv.store = store /\ Srv.one = single_core
  BY SrvType DEF IInv
<1>2. /\ gst_vector' \in [Partition -> Vector] /\ gst_vector'[p] = h
      /\ \A q \in Partition : q # p => gst_vector'[q] = gst_vector[q]
  BY <1>1 DEF Types
<1>3. Srv' = [clock |-> clock, other |-> other, applied |-> applied, gst |-> gst_vector',
              store |-> store, one |-> single_core]
  BY DEF Srv
<1> DEFINE x == Srv
           y == Srv'
<1>4. /\ y.clock = x.clock /\ y.other = x.other /\ y.applied = x.applied
      /\ y.store = x.store /\ y.gst = gst_vector' /\ y.one = x.one
  BY <1>1, <1>3
<1>5. y \in Servers
  BY <1>1, <1>2, <1>3 DEF Types, Servers
<1> HIDE DEF y
<1>6. Grown(x, y)
  <2>1. \A q \in Partition : \A s \in Remote : x.gst[q][s] <= y.gst[q][s]
    <3> TAKE q \in Partition
    <3> TAKE s \in Remote
    <3>1. x.gst[q][s] \in Time
      BY <1>1, ServersFacts
    <3>2. CASE q = p
      BY <1>1, <1>2, <1>4, <3>2 DEF Leq
    <3>3. CASE q # p
      BY <1>1, <1>2, <1>4, <3>1, <3>3, TimeOrder
    <3> QED  BY <3>2, <3>3
  <2>2. \A q \in Partition : x.clock[q] <= y.clock[q]
    BY <1>1, <1>4, ServersFacts, TimeOrder
  <2>3. \A q \in Partition : \A s \in Remote :
            x.other[q][s] <= y.other[q][s] /\ x.applied[q][s] <= y.applied[q][s]
    BY <1>1, <1>4, ServersFacts, TimeOrder
  <2> QED  BY <1>4, <2>1, <2>2, <2>3 DEF Grown
<1>7. ServersOK(y)
  <2>1. ASSUME NEW q \in Partition PROVE Safe(y, y.gst[q])
    <3>1. CASE q = p
      <4>1. Safe(x, y.gst[q])
        BY <1>2, <1>4, <3>1
      <4> QED  BY <1>4, <4>1 DEF Safe
    <3>2. CASE q # p
      <4>1. Safe(x, y.gst[q])
        BY <1>1, <1>2, <1>4, <3>2 DEF ServersOK
      <4> QED  BY <1>4, <4>1 DEF Safe
    <3> QED  BY <3>1, <3>2
  <2>2. ASSUME NEW k \in Key PROVE ChainOK(y, k)
    <3>1. ChainOK(x, k) /\ y.store[k] = x.store[k]
      BY <1>1, <1>4 DEF ServersOK
    <3>2. \A s \in Remote : \A put \in Log[s] :
            Due(y, PartitionFor(k), s, put.ut) => Due(x, PartitionFor(k), s, put.ut)
      BY <1>4 DEF Due
    <3> QED  BY <1>1, <1>5, <1>6, <3>1, <3>2, ChainSame
  <2> QED  BY <2>1, <2>2 DEF ServersOK
<1> QED  BY <1>2, <1>5, <1>6, <1>7 DEF y

\* grv_update_gst_vector with a safe vector
LEMMA Updated ==
    ASSUME IInv, NEW p \in Partition, NEW g \in Vector, Safe(Srv, g),
           UpdateGstVector(p, g), UNCHANGED <<clock, other, applied, store, single_core>>
    PROVE  /\ gst_vector' \in [Partition -> Vector] /\ Leq(g, gst_vector'[p])
           /\ Srv' \in Servers /\ Grown(Srv, Srv') /\ ServersOK(Srv')
<1> DEFINE h == MaxVector(gst_vector[p], g)
<1>1. gst_vector[p] \in Vector
  BY DEF IInv, Types
<1>2. /\ h \in Vector /\ Leq(gst_vector[p], h) /\ Leq(g, h)
      /\ \A s \in Remote : h[s] \in {gst_vector[p][s], g[s]}
  BY <1>1, MaxVectorIs
<1>3. gst_vector' = [gst_vector EXCEPT ![p] = h]
  BY DEF UpdateGstVector
<1>4. Safe(Srv, gst_vector[p])
  BY SrvType DEF IInv, ServersOK
<1>5. Safe(Srv, h)
  BY <1>2, <1>4 DEF Safe
<1> HIDE DEF h
<1> QED  BY <1>2, <1>3, <1>5, GstRaised

\* The end of a round
LEMMA GstUpdateStep ==
    ASSUME IInv, NEW p \in Partition, NEW s \in Remote, NEW t \in 0 .. Heard[s], GstUpdate(p, s, t)
    PROVE  IInv'
<1>1. /\ Types /\ Srv \in Servers /\ Srv.other = other
      /\ gst_vector[p] \in Vector /\ Safe(Srv, gst_vector[p]) /\ Srv.gst = gst_vector
  BY SrvType DEF IInv, Types, ServersOK
<1>2. t \in Time
  <2>1. Heard[s] \in Time
    BY SessionAssumption
  <2> QED  BY <2>1, SessionAssumption DEF Time
<1> DEFINE h == [gst_vector[p] EXCEPT ![s] = t]
<1>3. h \in Vector /\ h[s] = t /\ \A d \in Remote : d # s => h[d] = gst_vector[p][d]
  BY <1>1, <1>2 DEF Vector
<1>4. gst_vector' = [gst_vector EXCEPT ![p] = h]
  BY DEF GstUpdate
<1> HIDE DEF h
<1>5. Leq(gst_vector[p], h)
  <2> SUFFICES ASSUME NEW d \in Remote PROVE gst_vector[p][d] <= h[d]
    BY DEF Leq
  <2>1. gst_vector[p][d] \in Time
    BY <1>1, VersionFacts
  <2>2. CASE d = s
    BY <1>2, <1>3, <2>1, <2>2, TimeOrder DEF GstUpdate
  <2>3. CASE d # s
    BY <1>3, <2>1, <2>3, TimeOrder
  <2> QED  BY <2>2, <2>3
<1>6. Safe(Srv, h)
  <2> SUFFICES ASSUME NEW q \in Partition, NEW d \in Remote PROVE h[d] <= Srv.other[q][d]
    BY DEF Safe
  <2>1. CASE d = s
    BY <1>1, <1>3, <2>1 DEF GstUpdate
  <2>2. CASE d # s
    BY <1>1, <1>3, <2>2 DEF Safe
  <2> QED  BY <2>1, <2>2
<1>7. UNCHANGED <<clock, other, applied, store, session, req, slice, reply, single_core>>
  BY DEF GstUpdate
<1>8. gst_vector' \in [Partition -> Vector] /\ Grown(Srv, Srv') /\ ServersOK(Srv')
  BY <1>3, <1>4, <1>5, <1>6, <1>7, GstRaised
<1>9. Types' /\ \A d \in Client : Cli(d)' = Cli(d)
  BY <1>1, <1>7, <1>8 DEF Types, Cli, session
<1> QED  BY <1>8, <1>9, Step

\* A step that raises the vector of p to g and moves the request of c on
LEMMA RaiseReq ==
    ASSUME IInv, NEW c \in Client, NEW r \in ReqType, NEW p \in Partition,
           UpdateGstVector(p, client_gst[c]), req' = [req EXCEPT ![c] = r],
           UNCHANGED <<clock, other, applied, store, session, slice, reply, single_core>>,
           req[c].stage \in {"sent", "locking"}, r.stage # "idle",
           r.at \in Partition, r.op = req[c].op, r.keys = req[c].keys, r.gst = req[c].gst,
           r.stage \in {"sent", "locked"},
           r.op \in {"get", "rotx"},
           r.stage = "locked" =>
            r.at = p /\ (r.op = "get" => r.at = PartitionFor(TheKey(c)))
    PROVE  IInv'
<1> USE Mine
<1>1. client_gst[c] \in Vector /\ Safe(Srv, client_gst[c])
  BY MyRequest
<1>2. /\ gst_vector' \in [Partition -> Vector] /\ Leq(client_gst[c], gst_vector'[p])
      /\ Srv' \in Servers /\ Grown(Srv, Srv') /\ ServersOK(Srv')
  BY <1>1, Updated
<1>3. Types'
  BY <1>2 DEF Types, session
<1>4. \A d \in Client \ {c} : Cli(d)' = Cli(d)
  BY DEF Types, Cli, session
<1> DEFINE m == Cli(c)
           n == Cli(c)'
<1>5. /\ n.req = r
      /\ n.slice = m.slice /\ n.reply = m.reply
      /\ n.dv = m.dv /\ n.gst = m.gst
      /\ n.past = m.past /\ n.seen = m.seen
  BY DEF Types, Cli, session
<1>6. m.req = req[c] /\ m.gst = client_gst[c] /\ ClientType(m) /\ ClientOK(Srv, m)
  BY CliType
<1> HIDE DEF m, n
<1>7. ClientOK(Srv', m)
  BY <1>2, <1>6, ClientKept
<1>8. Srv'.gst = gst_vector'
  BY DEF Srv
<1>9. RequestOK(Srv', n)
  <2>1. Safe(Srv', r.gst)
    BY <1>6, <1>7 DEF ClientOK, RequestOK
  <2>2. r.op = "get" => TheKey(c) \in Key /\ r.keys = {TheKey(c)}
    BY MyRequest
  <2> QED  BY <1>2, <1>5, <1>6, <1>8, <2>1, <2>2 DEF RequestOK
<1>10. ClientOK(Srv', n)
  BY <1>5, <1>6, <1>7, <1>9, RequestGoesOn
<1> QED  BY <1>2, <1>3, <1>4, <1>10, Step DEF n

\* The request is forwarded to the partition of its key.
LEMMA ForwardRequestStep ==
    ASSUME IInv, NEW c \in Client, ForwardRequest(c)
    PROVE  IInv'
<1> DEFINE r == [req[c] EXCEPT !.at = PartitionFor(TheKey(c))]
<1>1. /\ req[c].op \in {"get", "put"} /\ req[c].stage = "sent" /\ TheKey(c) \in Key
      /\ req[c].at \in Partition /\ req[c] \in ReqType
  BY MyRequest DEF ForwardRequest
<1>2. PartitionFor(TheKey(c)) \in Partition
  BY <1>1, KeyFacts
<1>3. r \in ReqType
  BY <1>1, <1>2, ReqFields
<1>4. req' = [req EXCEPT ![c] = r] /\ UNCHANGED <<clock, other, applied, store, session, slice, reply, single_core>>
  BY DEF ForwardRequest
<1>5. r.op = req[c].op /\ r.keys = req[c].keys /\ r.stage = "sent" /\ r.gst = req[c].gst
      /\ r.at \in Partition
  BY <1>1, <1>2 DEF ReqType
<1> HIDE DEF r
<1>6. CASE req[c].op = "get" /\ UpdateGstVector(req[c].at, client_gst[c])
  BY <1>1, <1>3, <1>4, <1>5, <1>6, RaiseReq
<1>7. CASE req[c].op = "put" /\ UNCHANGED gst_vector
  <2>1. \A n : n.req = r => RequestOK(Srv, n)
    BY <1>1, <1>5, <1>7, MyRequest DEF RequestOK
  <2>2. UNCHANGED <<servers, session, slice, reply, single_core>>
    BY <1>4, <1>7 DEF servers
  <2> QED  BY <1>1, <1>3, <1>4, <2>1, <2>2, OnlyReq
<1> QED  BY <1>6, <1>7 DEF ForwardRequest

\* A get, or a transaction, has the lock and raises the vector of its server.
LEMMA LockedStep ==
    ASSUME IInv, NEW c \in Client, req[c].op \in {"get", "rotx"}, req[c].stage = "locking",
           UpdateGstVector(req[c].at, client_gst[c]), req' = Stage(c, "locked"),
           UNCHANGED <<clock, other, applied, store, session, slice, reply, single_core>>
    PROVE  IInv'
<1> DEFINE r == [req[c] EXCEPT !.stage = "locked"]
<1>1. /\ req[c].at \in Partition /\ req[c] \in ReqType
      /\ req[c].op = "get" => req[c].at = PartitionFor(TheKey(c))
  BY MyRequest
<1>2. req' = [req EXCEPT ![c] = r]
  BY DEF Stage
<1>3. r \in ReqType
  BY <1>1, ReqFields DEF Stages
<1>4. /\ r.op = req[c].op /\ r.keys = req[c].keys /\ r.stage = "locked" /\ r.at = req[c].at
      /\ r.gst = req[c].gst
  BY <1>1 DEF ReqType
<1> HIDE DEF r
<1> QED  BY <1>1, <1>2, <1>3, <1>4, RaiseReq

\* The get has it ...
LEMMA GetRequestLockedStep ==
    ASSUME IInv, NEW c \in Client, GetRequestLocked(c)
    PROVE  IInv'
  BY LockedStep DEF GetRequestLocked, At

\* ... and the transaction has it.
LEMMA RotxRequestLockedStep ==
    ASSUME IInv, NEW c \in Client, RotxRequestLocked(c)
    PROVE  IInv'
  BY LockedStep DEF RotxRequestLocked, At

-----------------------------------------------------------------------------
(***************************************************************************)
(* Reads                                                                   *)
(***************************************************************************)
\* v is what a read of k returned at its server.
IsRead(k, v) ==
    /\ v \in Version
    /\ Genuine(Srv, v)
    /\ v.ut = 0 \/ VisibleIn(Srv, k, v.ut)
    /\ v.sr # Here => Leq(v.dep, gst_vector[PartitionFor(k)])

\* GetValue returns the newest version that is visible, or none.
LEMMA GetValueIs ==
    ASSUME Types, NEW k \in Key, ChainOK(Srv, k)
    PROVE  /\ IsRead(k, GetValue(k))
           /\ \A u \in Time : VisibleIn(Srv, k, u) => u <= GetValue(k).ut
<1> DEFINE g == gst_vector[PartitionFor(k)]
           visible == {i \in DOMAIN store[k] : IsVisible(store[k][i], g)}
<1>1. /\ store[k] \in Seq(Version) /\ Sorted(store[k])
      /\ Srv.store[k] = store[k] /\ Srv.gst[PartitionFor(k)] = g
      /\ \A i \in DOMAIN store[k] : store[k][i] \in Version /\ Genuine(Srv, store[k][i])
      /\ visible \subseteq DOMAIN store[k]
  <2>1. store[k] \in Seq(Version) /\ Srv.store[k] = store[k] /\ Srv.gst[PartitionFor(k)] = g
    BY SrvType DEF Types
  <2> QED  BY <2>1, VersionFacts DEF ChainOK, StoredOK
<1>2. GetValue(k) = GetValueAt(store[k], visible)
  BY DEF GetValue
<1>3. \A u : VisibleIn(Srv, k, u) <=> \E i \in visible : store[k][i].ut = u
  BY <1>1 DEF VisibleIn
<1>4. CASE visible = {}
  <2>1. GetValue(k) = NoVersion
    BY <1>2, <1>4 DEF GetValueAt
  <2> QED  BY <1>3, <1>4, <2>1, NothingFacts DEF IsRead
<1>5. CASE visible # {}
  <2>1. PICK i \in visible : /\ GetValue(k) = store[k][i]
                             /\ \A j \in visible : store[k][j].ut <= store[k][i].ut
    BY <1>1, <1>2, <1>5, FirstVisible
  <2>2. IsRead(k, GetValue(k))
    BY <1>1, <1>3, <2>1 DEF IsRead, IsVisible
  <2> QED  BY <1>3, <2>1, <2>2
<1> QED  BY <1>4, <1>5

\* So does GetSlice for the keys of other data centres, of the versions whose
\* dependencies of this one the clock has passed.
LEMMA GetSliceIs ==
    ASSUME Types, NEW k \in Key, ChainOK(Srv, k)
    PROVE  /\ IsRead(k, GetSlice(k))
           /\ \A s \in Remote : \A put \in Log[s] :
                put.key = k /\ VisibleIn(Srv, k, put.ut) /\ put.dep[Here] <= clock[PartitionFor(k)]
                    => put.ut <= GetSlice(k).ut
<1> DEFINE p == PartitionFor(k)
           g == gst_vector[p]
           visible == {i \in DOMAIN store[k] : IsVisibleSnapshot(store[k][i], g, clock[p])}
           Shows(put) == put.key = k /\ VisibleIn(Srv, k, put.ut) /\ put.dep[Here] <= clock[p]
<1>1. /\ store[k] \in Seq(Version) /\ Sorted(store[k])
      /\ Srv.store[k] = store[k] /\ Srv.gst[p] = g
      /\ \A i \in DOMAIN store[k] : store[k][i] \in Version /\ StoredOK(Srv, k, store[k][i])
      /\ visible \subseteq DOMAIN store[k]
  <2>1. store[k] \in Seq(Version) /\ Srv.store[k] = store[k] /\ Srv.gst[p] = g
    BY SrvType DEF Types
  <2> QED  BY <2>1, VersionFacts DEF ChainOK
<1>2. GetSlice(k) = GetValueAt(store[k], visible)
  BY DEF GetSlice
<1>3. \A i \in visible : VisibleIn(Srv, k, store[k][i].ut)
  BY <1>1 DEF VisibleIn, IsVisible, IsVisibleSnapshot
<1>4. ASSUME NEW s \in Remote, NEW put \in Log[s], Shows(put)
      PROVE  \E i \in visible : store[k][i].ut = put.ut
  <2>1. PICK i \in DOMAIN store[k] : store[k][i].ut = put.ut /\ IsVisible(store[k][i], g)
    BY <1>1, <1>4 DEF VisibleIn
  <2> DEFINE v == store[k][i]
  <2>2. v \in Version /\ StoredOK(Srv, k, v) /\ k \in RemoteKeys
    BY <1>1, <1>4, PutFacts
  <2>3. v.sr # Here /\ v.sr \in Remote
    BY <2>2, KeyFacts, VersionFacts DEF StoredOK
  <2>4. PICK q \in Log[v.sr] : q.key = k
    BY <2>2, <2>3 DEF StoredOK
  <2>5. v.sr = s
    BY <1>4, <2>3, <2>4, LogAssumption
  <2>6. IsPut(v, s, put)
    BY <1>4, <2>1, <2>2, <2>3, <2>5 DEF StoredOK
  <2>7. v.dep[Here] <= clock[p]
    BY <1>4, <2>6, KeyFacts DEF IsPut
  <2>8. i \in visible
    BY <2>1, <2>3, <2>7 DEF IsVisible, IsVisibleSnapshot
  <2> QED  BY <2>1, <2>8
<1> HIDE DEF visible, Shows
<1>5. CASE visible = {}
  <2>1. GetSlice(k) = NoVersion
    BY <1>2, <1>5 DEF GetValueAt
  <2>2. \A s \in Remote : \A put \in Log[s] : ~Shows(put)
    BY <1>4, <1>5
  <2> QED  BY <2>1, <2>2, NothingFacts DEF IsRead, Shows
<1>6. CASE visible # {}
  <2>1. PICK i \in visible : /\ GetSlice(k) = store[k][i]
                             /\ \A j \in visible : store[k][j].ut <= store[k][i].ut
    BY <1>1, <1>2, <1>6, FirstVisible
  <2>2. IsRead(k, GetSlice(k))
    <3>1. store[k][i] \in Version /\ Genuine(Srv, store[k][i])
      BY <1>1, <2>1 DEF StoredOK
    <3>2. Leq(store[k][i].dep, g)
      BY <2>1 DEF visible, IsVisibleSnapshot
    <3> QED  BY <1>3, <2>1, <3>1, <3>2 DEF IsRead
  <2>3. ASSUME NEW s \in Remote, NEW put \in Log[s], Shows(put) PROVE put.ut <= GetSlice(k).ut
    BY <1>4, <2>1, <2>3
  <2> QED  BY <2>2, <2>3 DEF Shows
<1> QED  BY <1>5, <1>6

\* Under a vector that covers the client's own, what the client counts on is
\* visible: what its vector covers is stored with one core, and covered in turn.
LEMMA SeenIsVisible ==
    ASSUME IInv, NEW c \in Client, NEW k \in Key,
           Leq(client_gst[c], gst_vector[PartitionFor(k)])
    PROVE  seen[c][k] \in Time /\ (seen[c][k] = 0 \/ VisibleIn(Srv, k, seen[c][k]))
<1> DEFINE p == PartitionFor(k)
           u == seen[c][k]
<1>1. /\ p \in Partition /\ u \in Time /\ client_gst[c] \in Vector /\ gst_vector[p] \in Vector
      /\ other[p] \in Vector
  BY KeyFacts, Mine DEF Types
<1>2. /\ Srv.store = store /\ Srv.gst = gst_vector /\ Srv.other = other
      /\ Srv.one = single_core
      /\ Safe(Srv, gst_vector[p]) /\ ChainOK(Srv, k)
  BY <1>1, Mine, SrvType DEF ServersOK
<1>3. u = 0 \/ VisibleIn(Srv, k, u) \/ (Srv.one /\ Covered(k, u, client_gst[c]))
  <2>1. SessionOK(Srv, Cli(c)) /\ Cli(c).seen = seen[c] /\ Cli(c).gst = client_gst[c]
    BY Mine, CliType DEF ClientOK
  <2> QED  BY <2>1 DEF SessionOK
<1>4. ASSUME Srv.one, Covered(k, u, client_gst[c]) PROVE VisibleIn(Srv, k, u)
  <2>1. \A s \in Remote : client_gst[c][s] \in Time /\ gst_vector[p][s] \in Time /\ other[p][s] \in Time
    BY <1>1, VersionFacts
  <2>2. Covered(k, u, gst_vector[p])
    BY <1>1, <1>4, <2>1, CoveredByMore
  <2>3. PICK s \in Remote : \E put \in Log[s] :
            put.key = k /\ put.ut = u /\ u <= gst_vector[p][s] /\ Leq(put.dep, gst_vector[p])
    BY <2>2 DEF Covered
  <2>4. PICK put \in Log[s] :
            put.key = k /\ put.ut = u /\ u <= gst_vector[p][s] /\ Leq(put.dep, gst_vector[p])
    BY <2>3
  <2>5. put.ut <= other[p][s]
    <3>1. gst_vector[p][s] <= other[p][s]
      BY <1>1, <1>2 DEF Safe
    <3>2. u \in Int /\ gst_vector[p][s] \in Int /\ other[p][s] \in Int
      BY <1>1, <2>1, TimeFacts
    <3> QED  BY <2>4, <3>1, <3>2
  <2>6. In(Srv, s, put)
    <3>1. Due(Srv, p, s, put.ut)
      BY <1>2, <1>4, <2>5 DEF Due
    <3> QED  BY <1>2, <2>4, <3>1 DEF ChainOK
  <2>7. PICK i \in DOMAIN store[k] : IsPut(store[k][i], s, put)
    BY <1>2, <2>4, <2>6 DEF In
  <2>8. IsVisible(store[k][i], gst_vector[p]) /\ store[k][i].ut = u
    BY <2>4, <2>7, KeyFacts DEF IsPut, IsVisible, Leq
  <2> QED  BY <1>2, <2>7, <2>8 DEF VisibleIn
<1> QED  BY <1>1, <1>3, <1>4

\* What a read returns may go to the client.
LEMMA ReadOK ==
    ASSUME IInv, NEW k \in Key, NEW v, IsRead(k, v), NEW g, Safe(Srv, g),
           NEW n,
           n.req.op = "get" => /\ v.ut >= n.seen[k]
                               /\ Leq(gst_vector[PartitionFor(k)], g)
                               /\ g \in Vector,
           n.req.op = "rotx" => SeesRemote(n, k, v)
    PROVE  ValueOK(Srv, n, k, v, g)
<1> DEFINE p == PartitionFor(k)
<1>1. p \in Partition /\ gst_vector[p] \in Vector /\ Srv \in Servers /\ Srv.other = other
  BY KeyFacts, SrvType DEF IInv, Types
<1>2. v \in Version /\ Genuine(Srv, v) /\ (v.ut = 0 \/ VisibleIn(Srv, k, v.ut))
  BY DEF IsRead
<1>3. \A s \in Remote : /\ v.dep[s] \in Time /\ gst_vector[p][s] \in Time
                        /\ \A q \in Partition : Srv.other[q][s] \in Time
  BY <1>1, <1>2, VersionFacts, KeyFacts, ServersFacts
<1>4. ASSUME v.sr # Here PROVE Safe(Srv, v.dep)
  <2> SUFFICES ASSUME NEW q \in Partition, NEW s \in Remote PROVE v.dep[s] <= Srv.other[q][s]
    BY DEF Safe
  <2>1. v.dep[s] <= gst_vector[p][s]
    BY <1>4 DEF IsRead, Leq
  <2>2. gst_vector[p][s] <= Srv.other[q][s]
    BY <1>1, SrvType DEF IInv, ServersOK, Safe
  <2>3. v.dep[s] \in Int /\ gst_vector[p][s] \in Int /\ Srv.other[q][s] \in Int
    BY <1>3, TimeFacts
  <2> QED  BY <2>1, <2>2, <2>3
<1>5. ASSUME v.sr # Here, n.req.op = "get" PROVE Leq(v.dep, g)
  <2>1. Leq(v.dep, gst_vector[p]) /\ Leq(gst_vector[p], g)
    BY <1>5 DEF IsRead
  <2>2. \A s \in Remote : v.dep[s] \in Time /\ gst_vector[p][s] \in Time /\ g[s] \in Time
    BY <1>3, <1>5, VersionFacts
  <2> QED  BY <2>1, <2>2, LeqTransitive
<1> QED  BY <1>2, <1>4, <1>5 DEF ValueOK

\* The types of an answer of one value
LEMMA AnswerType ==
    ASSUME Types, NEW c \in Client, TheKey(c) \in Key,
           NEW v \in Version, NEW g \in Vector, Answer(c, v, g)
    PROVE  /\ DOMAIN reply' = Client
           /\ \A d \in Client : ReplyType(reply'[d])
           /\ \A d \in Client \ {c} : reply'[d] = reply[d]
           /\ DOMAIN reply'[c] = {TheKey(c)}
           /\ reply'[c][TheKey(c)].value = v
           /\ reply'[c][TheKey(c)].gst = g
<1> DEFINE a == [k \in {TheKey(c)} |-> [value |-> v, gst |-> g]]
<1>1. reply' = [reply EXCEPT ![c] = a]
  BY DEF Answer
<1>2. DOMAIN a = {TheKey(c)} /\ a[TheKey(c)] = [value |-> v, gst |-> g]
  OBVIOUS
<1>3. [value |-> v, gst |-> g] \in Reply
  BY DEF Reply
<1> HIDE DEF a
<1>4. DOMAIN reply' = Client /\ reply'[c] = a /\ \A d \in Client \ {c} : reply'[d] = reply[d]
  BY <1>1 DEF Types
<1>5. \A d \in Client : ReplyType(reply'[d])
  <2> TAKE d \in Client
  <2>1. CASE d = c
    BY <1>2, <1>3, <1>4, <2>1 DEF ReplyType
  <2>2. CASE d # c
    BY <1>4, <2>2 DEF Types
  <2> QED  BY <2>1, <2>2
<1> QED  BY <1>2, <1>4, <1>5

\* A get is answered.
LEMMA GetAnswered ==
    ASSUME IInv, NEW c \in Client, req[c].op = "get", req[c].stage \in {"sent", "locked"},
           PartitionFor(TheKey(c)) = req[c].at, Leq(client_gst[c], gst_vector[req[c].at]),
           req' = Stage(c, "answered"),
           Answer(c, GetValue(TheKey(c)), gst_vector[req[c].at]),
           UNCHANGED <<servers, session, slice, single_core>>
    PROVE  IInv'
<1> USE Mine
<1> DEFINE k == TheKey(c)
           p == req[c].at
           v == GetValue(k)
           g == gst_vector[p]
           r == [req[c] EXCEPT !.stage = "answered"]
           m == Cli(c)
           n == Cli(c)'
<1>1. k \in Key /\ p \in Partition /\ req[c] \in ReqType /\ req[c].keys = {k}
  BY MyRequest
<1>2. /\ Types /\ Srv \in Servers /\ ChainOK(Srv, k) /\ Safe(Srv, g) /\ g \in Vector
      /\ Srv.gst = gst_vector
  BY <1>1, SrvType DEF Types, ServersOK
<1>3. IsRead(k, v) /\ \A u \in Time : VisibleIn(Srv, k, u) => u <= v.ut
  BY <1>1, <1>2, GetValueIs
<1>4. v \in Version /\ v.ut \in Time
  BY <1>3, VersionFacts DEF IsRead
<1>5. seen[c][k] \in Time /\ (seen[c][k] = 0 \/ VisibleIn(Srv, k, seen[c][k]))
  BY <1>1, SeenIsVisible
<1>6. v.ut >= seen[c][k]
  BY <1>3, <1>4, <1>5, TimeFacts
<1>7. /\ DOMAIN reply' = Client /\ (\A d \in Client : ReplyType(reply'[d]))
      /\ (\A d \in Client \ {c} : reply'[d] = reply[d])
      /\ DOMAIN reply'[c] = {k} /\ reply'[c][k].value = v /\ reply'[c][k].gst = g
  BY <1>1, <1>2, <1>4, AnswerType
<1>8. req' = [req EXCEPT ![c] = r] /\ r \in ReqType
  BY <1>1, ReqFields DEF Stage, Stages
<1>9. /\ r.op = "get" /\ r.keys = {k} /\ r.stage = "answered" /\ r.at = p /\ r.gst = req[c].gst
  BY <1>1 DEF ReqType
<1> HIDE DEF r, v, g
<1>10. Types'
  BY <1>2, <1>7, <1>8 DEF Types, servers, session
<1>11. \A d \in Client \ {c} : Cli(d)' = Cli(d)
  BY <1>2, <1>7, <1>8 DEF Types, Cli, session
<1>12. /\ n.req = r /\ n.slice = m.slice /\ n.reply = reply'[c]
       /\ n.dv = m.dv /\ n.gst = m.gst /\ n.past = m.past /\ n.seen = m.seen
  BY <1>2, <1>8 DEF Types, Cli, session
<1>13. m.req = req[c] /\ m.seen = seen[c] /\ ClientOK(Srv, m)
  BY CliType
<1> HIDE DEF m, n
<1>14. SessionOK(Srv, n)
  BY <1>12, <1>13 DEF ClientOK, SessionOK
<1>15. RequestOK(Srv, n)
  <2>1. Safe(Srv, r.gst)
    BY <1>9, MyRequest
  <2> QED  BY <1>1, <1>7, <1>9, <1>12, <2>1 DEF RequestOK
<1>16. ReplyOK(Srv, n)
  <2>1. Leq(g, g)
    BY <1>2, VersionFacts, TimeOrder DEF Leq
  <2>2. n.req.op = "get" /\ n.seen = seen[c] /\ g = gst_vector[PartitionFor(k)]
    BY <1>9, <1>12, <1>13 DEF g
  <2>3. ValueOK(Srv, n, k, v, g)
    BY <1>1, <1>2, <1>3, <1>6, <2>1, <2>2, ReadOK
  <2> QED  BY <1>7, <1>9, <1>12, <2>3 DEF ReplyOK
<1>17. \A q \in Partition : SliceOK(Srv, n, q)
  <2>1. \A q \in Partition : m.slice[q].stage = "none" /\ DOMAIN m.slice[q].values = {}
    BY <1>13, NoSlices
  <2> QED  BY <1>12, <2>1, EmptySlices
<1>18. ClientOK(Srv, n)
  BY <1>14, <1>15, <1>16, <1>17 DEF ClientOK
<1> QED  BY <1>10, <1>11, <1>18, OneClient DEF n

\* A vector that needs no update covers the other one.
LEMMA NoNeed ==
    ASSUME NEW p, NEW g, ~NeedUpdate(p, g)
    PROVE  Leq(g, gst_vector[p])
  BY DEF NeedUpdate

\* A get at the server of its key reads, or asks for the lock ...
LEMMA GetRequestStep ==
    ASSUME IInv, NEW c \in Client, GetRequest(c)
    PROVE  IInv'
<1>1. req[c].op = "get" /\ req[c].stage = "sent" /\ PartitionFor(TheKey(c)) = req[c].at
  BY DEF GetRequest, Arrived, At
<1>2. CASE NeedUpdate(req[c].at, client_gst[c]) /\ req' = Stage(c, "locking") /\ UNCHANGED reply
  <2>1. UNCHANGED <<servers, session, slice, reply, single_core>>
    BY <1>2 DEF GetRequest
  <2> QED  BY <1>1, <1>2, <2>1, AskForLock
<1>3. CASE /\ ~NeedUpdate(req[c].at, client_gst[c])
           /\ req' = Stage(c, "answered")
           /\ Answer(c, GetValue(TheKey(c)), gst_vector[req[c].at])
  <2>1. UNCHANGED <<servers, session, slice, single_core>>
    BY DEF GetRequest
  <2> QED  BY <1>1, <1>3, <2>1, NoNeed, GetAnswered
<1> QED  BY <1>2, <1>3 DEF GetRequest

\* ... and reads when the vector has been raised.
LEMMA GetRequestUnlockedStep ==
    ASSUME IInv, NEW c \in Client, GetRequestUnlocked(c)
    PROVE  IInv'
<1>1. req[c].op = "get" /\ req[c].stage = "locked"
  BY DEF GetRequestUnlocked, At
<1>2. PartitionFor(TheKey(c)) = req[c].at /\ Leq(client_gst[c], gst_vector[req[c].at])
  BY <1>1, MyRequest
<1> QED  BY <1>1, <1>2, GetAnswered DEF GetRequestUnlocked

-----------------------------------------------------------------------------
(***************************************************************************)
(* Clocks, heartbeats and new versions                                     *)
(***************************************************************************)
\* A chain stays all right with a new version in front that is not older.
LEMMA ChainMore ==
    ASSUME NEW x \in Servers, NEW y \in Servers, Grown(x, y), NEW k \in Key, NEW v \in Version,
           ChainOK(x, k), y.store[k] = <<v>> \o x.store[k],
           \A i \in DOMAIN x.store[k] : x.store[k][i].ut <= v.ut,
           StoredOK(y, k, v),
           \A s \in Remote : \A put \in Log[s] :
            put.key = k /\ Due(y, PartitionFor(k), s, put.ut) =>
                Due(x, PartitionFor(k), s, put.ut) \/ IsPut(v, s, put)
    PROVE  ChainOK(y, k)
<1> DEFINE old == x.store[k]
           new == y.store[k]
<1>1. old \in Seq(Version) /\ DOMAIN old \subseteq Int /\ DOMAIN new \subseteq Int
  BY ServersFacts, VersionFacts
<1>2. /\ new[1] = v /\ 1 \in DOMAIN new
      /\ \A i \in DOMAIN new : 1 <= i /\ (i # 1 => i - 1 \in DOMAIN old /\ new[i] = old[i - 1])
  <2>1. \A i \in DOMAIN new : 1 <= i
    BY ServersFacts
  <2> QED  BY <1>1, <2>1, InFront
<1> HIDE DEF old, new
<1>3. Sorted(new)
  <2> SUFFICES ASSUME NEW i \in DOMAIN new, NEW j \in DOMAIN new, i < j
               PROVE  new[j].ut <= new[i].ut
    BY DEF Sorted
  <2>1. j # 1 /\ j - 1 \in DOMAIN old /\ new[j] = old[j - 1] /\ i \in Int /\ j \in Int
    BY <1>1, <1>2
  <2>2. CASE i = 1
    BY <1>2, <2>1, <2>2 DEF old
  <2>3. CASE i # 1
    <3>1. i - 1 \in DOMAIN old /\ new[i] = old[i - 1] /\ i - 1 < j - 1
      BY <1>2, <2>1, <2>3
    <3>2. Sorted(old)
      BY DEF ChainOK, old
    <3> QED  BY <2>1, <3>1, <3>2 DEF Sorted
  <2> QED  BY <2>2, <2>3
<1>4. ASSUME NEW i \in DOMAIN new PROVE StoredOK(y, k, new[i])
  <2>1. CASE i = 1
    BY <1>2, <2>1
  <2>2. CASE i # 1
    <3>1. i - 1 \in DOMAIN old /\ new[i] = old[i - 1]
      BY <1>2, <2>2
    <3>2. new[i] \in Version /\ StoredOK(x, k, new[i])
      BY <3>1, ServersFacts DEF ChainOK, old
    <3> QED  BY <3>2, StoredKept
  <2> QED  BY <2>1, <2>2
<1>5. ASSUME NEW s \in Remote, NEW put \in Log[s],
             put.key = k, Due(y, PartitionFor(k), s, put.ut)
      PROVE  In(y, s, put)
  <2>1. CASE Due(x, PartitionFor(k), s, put.ut)
    <3>1. In(x, s, put)
      BY <1>5, <2>1 DEF ChainOK
    <3> QED  BY <3>1, InKept
  <2>2. CASE IsPut(v, s, put)
    BY <1>2, <1>5, <2>2 DEF In, new
  <2> QED  BY <1>5, <2>1, <2>2
<1> QED  BY <1>3, <1>4, <1>5 DEF ChainOK, new

\* grv_put_value keeps a version that is not older than the rest.
LEMMA PutValueIs ==
    ASSUME NEW chain \in Seq(Version), NEW v \in Version,
           \A i \in DOMAIN chain : chain[i].ut <= v.ut
    PROVE  PutValue(chain, v) = <<v>> \o chain
<1>1. CASE chain = <<>>
  BY <1>1 DEF PutValue
<1>2. CASE chain # <<>>
  <2>1. 1 \in DOMAIN chain /\ Head(chain) = chain[1]
    BY <1>2
  <2>2. chain[1].ut <= v.ut /\ chain[1].ut \in Int /\ v.ut \in Int
    BY <2>1, VersionFacts, TimeFacts
  <2>3. ~(Head(chain).ut > v.ut)
    BY <2>1, <2>2
  <2> QED  BY <2>3 DEF PutValue
<1> QED  BY <1>1, <1>2

\* What becomes of the vectors of the servers when those of the others rise
LEMMA SafeKept ==
    ASSUME NEW x \in Servers, NEW y \in Servers, Grown(x, y), y.gst = x.gst,
           \A p \in Partition : Safe(x, x.gst[p])
    PROVE  \A p \in Partition : Safe(y, y.gst[p])
<1> TAKE p \in Partition
<1>1. \A s \in Remote : x.gst[p][s] \in Time
  BY ServersFacts
<1> QED  BY <1>1, Kept

\* The clock of a server goes on.
LEMMA AdvanceStep ==
    ASSUME IInv, NEW p \in Partition, NEW t \in 0 .. LastTick, Advance(p, t)
    PROVE  IInv'
<1>1. /\ Types /\ Srv \in Servers /\ ServersOK(Srv)
      /\ Srv.clock = clock /\ Srv.other = other /\ Srv.applied = applied
      /\ Srv.gst = gst_vector /\ Srv.store = store /\ Srv.one = single_core
  BY SrvType DEF IInv
<1>2. t \in Time
  BY SessionAssumption DEF Time
<1>3. clock' \in [Partition -> Time] /\ \A q \in Partition : clock[q] <= clock'[q]
  <2>1. clock' = [clock EXCEPT ![p] = t] /\ t > clock[p] /\ clock \in [Partition -> Time]
    BY <1>1 DEF Advance, Types
  <2>2. ASSUME NEW q \in Partition PROVE clock[q] <= clock'[q] /\ clock'[q] \in Time
    <3>1. clock[q] \in Time /\ clock[p] \in Time
      BY <2>1
    <3>2. CASE q = p
      BY <1>2, <2>1, <3>1, <3>2, TimeOrder
    <3>3. CASE q # p
      BY <2>1, <3>1, <3>3, TimeOrder
    <3> QED  BY <3>2, <3>3
  <2> QED  BY <1>2, <2>1, <2>2
<1>4. UNCHANGED <<other, applied, gst_vector, store, session, req, slice, reply, single_core>>
  BY DEF Advance
<1>5. Types' /\ \A d \in Client : Cli(d)' = Cli(d)
  BY <1>1, <1>3, <1>4 DEF Types, Cli, session
<1> DEFINE y == Srv'
<1>6. /\ y.clock = clock' /\ y.other = other /\ y.applied = applied
      /\ y.gst = gst_vector /\ y.store = store /\ y.one = single_core
  BY <1>4 DEF Srv
<1>7. y \in Servers
  BY <1>1, <1>3, <1>4 DEF Srv, Servers, Types
<1> HIDE DEF y
<1>8. Grown(Srv, y)
  <2>1. \A q \in Partition, s \in Remote :
            /\ other[q][s] <= other[q][s] /\ applied[q][s] <= applied[q][s]
            /\ gst_vector[q][s] <= gst_vector[q][s]
    BY <1>1, ServersFacts, TimeOrder
  <2> QED  BY <1>1, <1>3, <1>6, <2>1 DEF Grown
<1>9. ServersOK(y)
  <2>1. \A q \in Partition : Safe(y, y.gst[q])
    BY <1>1, <1>6, <1>7, <1>8, SafeKept DEF ServersOK
  <2>2. ASSUME NEW k \in Key PROVE ChainOK(y, k)
    <3>1. ChainOK(Srv, k) /\ y.store[k] = Srv.store[k]
      BY <1>1, <1>6 DEF ServersOK
    <3>2. \A s \in Remote : \A put \in Log[s] :
            Due(y, PartitionFor(k), s, put.ut) => Due(Srv, PartitionFor(k), s, put.ut)
      BY <1>1, <1>6 DEF Due
    <3> QED  BY <1>1, <1>7, <1>8, <3>1, <3>2, ChainSame
  <2> QED  BY <2>1, <2>2 DEF ServersOK
<1> QED  BY <1>5, <1>8, <1>9, Step DEF y

\* The entry of s in the vector of p, of the vectors v that become w, has risen
\* to t.
RaisedTo(v, w, p, s, t) ==
    /\ w \in [Partition -> Vector]
    /\ w[p][s] = t
    /\ \A q \in Partition, d \in Remote :
        v[q][d] <= w[q][d] /\ (q # p \/ d # s => w[q][d] = v[q][d])

\* This is what an assignment to it does.
LEMMA EntryRaised ==
    ASSUME NEW v \in [Partition -> Vector], NEW w, NEW p \in Partition, NEW s \in Remote,
           NEW t \in Time, v[p][s] <= t, w = [v EXCEPT ![p][s] = t]
    PROVE  RaisedTo(v, w, p, s, t)
<1>1. \A q \in Partition, d \in Remote : v[q][d] \in Time
  BY VersionFacts
<1> DEFINE h == [v[p] EXCEPT ![s] = t]
<1>0. h \in Vector /\ h[s] = t /\ \A d \in Remote : d # s => h[d] = v[p][d]
  BY <1>1 DEF Vector
<1>2. w \in [Partition -> Vector] /\ w[p] = h /\ w[p][s] = t
  BY <1>0
<1> HIDE DEF h
<1>3. \A q \in Partition, d \in Remote : q # p \/ d # s => w[q][d] = v[q][d]
  BY <1>0, <1>1, <1>2
<1>5. ASSUME NEW q \in Partition, NEW d \in Remote PROVE v[q][d] <= w[q][d]
  <2>1. CASE q = p /\ d = s
    BY <1>2, <2>1
  <2>2. CASE q # p \/ d # s
    BY <1>1, <1>3, <2>2, TimeOrder
  <2> QED  BY <2>1, <2>2
<1> QED  BY <1>2, <1>3, <1>5 DEF RaisedTo

\* A heartbeat moves the version vector only: with one core per server to a
\* time up to which everything has been applied.
LEMMA HeartbeatStep ==
    ASSUME IInv, NEW p \in Partition, NEW s \in Remote, NEW t \in 0 .. Heard[s], Heartbeat(p, s, t)
    PROVE  IInv'
<1>1. /\ Types /\ Srv \in Servers /\ ServersOK(Srv)
      /\ Srv.clock = clock /\ Srv.other = other /\ Srv.applied = applied
      /\ Srv.gst = gst_vector /\ Srv.store = store /\ Srv.one = single_core
  BY SrvType DEF IInv
<1>2. t \in Time
  <2>1. Heard[s] \in Time
    BY SessionAssumption
  <2> QED  BY <2>1, SessionAssumption DEF Time
<1>3. /\ t > other[p][s] /\ other' = [other EXCEPT ![p][s] = t]
      /\ single_core => Puts(s, p, applied[p][s], t) = {}
      /\ UNCHANGED <<clock, applied, gst_vector, store, session, req, slice, reply, single_core>>
  BY DEF Heartbeat
<1>4. /\ other' \in [Partition -> Vector] /\ other'[p][s] = t
      /\ \A q \in Partition, d \in Remote :
            other[q][d] <= other'[q][d] /\ (q # p \/ d # s => other'[q][d] = other[q][d])
  <2>1. other \in [Partition -> Vector] /\ other[p][s] \in Time
    BY <1>1, ServersFacts DEF Types
  <2>2. other[p][s] <= t
    BY <1>2, <1>3, <2>1, TimeOrder
  <2>3. RaisedTo(other, other', p, s, t)
    BY <1>2, <1>3, <2>1, <2>2, EntryRaised
  <2> QED  BY <2>3 DEF RaisedTo
<1>5. Types' /\ \A d \in Client : Cli(d)' = Cli(d)
  BY <1>1, <1>3, <1>4 DEF Types, Cli, session
<1> DEFINE y == Srv'
<1>6. /\ y.clock = clock /\ y.other = other' /\ y.applied = applied
      /\ y.gst = gst_vector /\ y.store = store /\ y.one = single_core
  BY <1>3 DEF Srv
<1>7. y \in Servers
  BY <1>1, <1>3, <1>4 DEF Srv, Servers, Types
<1> HIDE DEF y
<1>8. Grown(Srv, y)
  <2>1. \A q \in Partition :
            /\ clock[q] <= clock[q]
            /\ \A d \in Remote : applied[q][d] <= applied[q][d] /\ gst_vector[q][d] <= gst_vector[q][d]
    BY <1>1, ServersFacts, TimeOrder
  <2> QED  BY <1>1, <1>4, <1>6, <2>1 DEF Grown
<1>9. ServersOK(y)
  <2>1. \A q \in Partition : Safe(y, y.gst[q])
    BY <1>1, <1>6, <1>7, <1>8, SafeKept DEF ServersOK
  <2>2. ASSUME NEW k \in Key PROVE ChainOK(y, k)
    <3> DEFINE q == PartitionFor(k)
    <3>1. ASSUME NEW d \in Remote, NEW put \in Log[d], put.key = k, Due(y, q, d, put.ut)
          PROVE  Due(Srv, q, d, put.ut)
      <4>1. q \in Partition /\ put.ut \in Time /\ applied[q][d] \in Time
        BY <1>1, KeyFacts, PutFacts, ServersFacts
      <4>2. put.ut <= applied[q][d] \/ (single_core /\ put.ut <= other'[q][d])
        BY <1>6, <3>1 DEF Due
      <4>3. CASE put.ut <= applied[q][d]
        BY <1>1, <4>3 DEF Due
      <4>4. CASE single_core /\ put.ut <= other'[q][d] /\ q = p /\ d = s
        <5>1. ~(applied[p][s] < put.ut)
          BY <1>3, <1>4, <3>1, <4>4 DEF Puts
        <5>2. put.ut <= applied[q][d]
          BY <4>1, <4>4, <5>1, TimeOrder
        <5> QED  BY <1>1, <5>2 DEF Due
      <4>5. CASE single_core /\ put.ut <= other'[q][d] /\ (q # p \/ d # s)
        <5>1. put.ut <= other[q][d]
          BY <1>4, <4>1, <4>5
        <5> QED  BY <1>1, <4>5, <5>1 DEF Due
      <4> QED  BY <4>2, <4>3, <4>4, <4>5
    <3>2. ChainOK(Srv, k) /\ y.store[k] = Srv.store[k]
      BY <1>1, <1>6 DEF ServersOK
    <3> QED  BY <1>1, <1>7, <1>8, <3>1, <3>2, ChainSame
  <2> QED  BY <2>1, <2>2 DEF ServersOK
<1> QED  BY <1>5, <1>8, <1>9, Step DEF y

\* The version that a put of another data centre makes is genuine, and newer
\* than what it depends on.
LEMMA RemoteVersionIs ==
    ASSUME IInv, NEW s \in Remote, NEW put \in Log[s]
    PROVE  LET v == RemoteVersion(s, put)
           IN  /\ v \in Version
               /\ IsPut(v, s, put)
               /\ Genuine(Srv, v)
               /\ \A k \in Key : v.deps[k] < v.ut
<1> DEFINE v == RemoteVersion(s, put)
           S(k) == {q \in (UNION {Log[d] : d \in Remote}) :
                        /\ q.key = k
                        /\ \E d \in Remote : q \in Log[d] /\ q.ut <= put.dep[d]
                        /\ Leq(q.dep, put.dep)}
           I(k) == {i \in DOMAIN store[k] :
                        store[k][i].sr = Here /\ store[k][i].ut <= put.dep[Here]}
           U(k) == {0} \cup {q.ut : q \in S(k)} \cup {store[k][i].ut : i \in I(k)}
           deps == [k \in Key |-> MaxOf(U(k))]
           Fine(k, u) == u = 0 \/ Covered(k, u, put.dep) \/ VisibleIn(Srv, k, u)
<1>1. v = [ut |-> put.ut, sr |-> s, dep |-> put.dep, deps |-> deps]
  BY DEF RemoteVersion
<1>2. Types /\ Srv.store = store /\ Srv.gst = gst_vector
  BY SrvType DEF IInv
<1>3. ASSUME NEW k \in Key
      PROVE  MaxOf(U(k)) \in Time /\ Fine(k, MaxOf(U(k))) /\ MaxOf(U(k)) < put.ut
  <2>1. ASSUME NEW q \in S(k)
        PROVE  q.ut \in Time /\ Fine(k, q.ut) /\ q.ut < put.ut
    <3>1. PICK d \in Remote : q \in Log[d] /\ q.ut <= put.dep[d]
      OBVIOUS
    <3>2. q.key = k /\ Leq(q.dep, put.dep)
      OBVIOUS
    <3>3. q.ut \in Time
      BY <3>1, PutFacts
    <3>4. put.dep[d] < put.ut /\ put.dep[d] \in Int /\ put.ut \in Int /\ q.ut \in Int
      BY <3>1, <3>3, PutFacts, TimeFacts
    <3> QED  BY <3>1, <3>2, <3>3, <3>4 DEF Covered
  <2>2. ASSUME NEW i \in I(k)
        PROVE  store[k][i].ut \in Time /\ Fine(k, store[k][i].ut) /\ store[k][i].ut < put.ut
    <3>1. i \in DOMAIN store[k] /\ store[k][i].sr = Here /\ store[k][i].ut <= put.dep[Here]
      OBVIOUS
    <3>2. store[k] \in Seq(Version)
      BY <1>2 DEF Types
    <3>3. store[k][i].ut \in Time
      BY <3>1, <3>2, VersionFacts
    <3>4. /\ put.dep[Here] < put.ut /\ put.dep[Here] \in Int /\ put.ut \in Int
          /\ store[k][i].ut \in Int
      BY <3>3, PutFacts, KeyFacts, TimeFacts
    <3>5. VisibleIn(Srv, k, store[k][i].ut)
      BY <1>2, <3>1 DEF VisibleIn, IsVisible
    <3> QED  BY <3>1, <3>3, <3>4, <3>5
  <2> DEFINE u == MaxOf(U(k))
  <2>3. U(k) \subseteq Time
    BY <2>1, <2>2, TimeFacts
  <2>4. u \in U(k) /\ u \in Time
    BY <2>3, MaxOfIs
  <2> HIDE DEF u
  <2>5. CASE u = 0
    BY <2>4, <2>5, PutFacts, TimeOrder DEF u
  <2>6. CASE \E q \in S(k) : u = q.ut
    BY <2>1, <2>4, <2>6 DEF u
  <2>7. CASE \E i \in I(k) : u = store[k][i].ut
    BY <2>2, <2>4, <2>7 DEF u
  <2> QED  BY <2>4, <2>5, <2>6, <2>7
<1> HIDE DEF U
<1>4. deps \in [Key -> Time] /\ \A k \in Key : deps[k] = MaxOf(U(k))
  BY <1>3
<1> HIDE DEF deps
<1>5. v \in Version
  BY <1>1, <1>4, PutFacts, KeyFacts DEF Version
<1>6. v.ut = put.ut /\ v.sr = s /\ v.dep = put.dep /\ v.deps = deps
  BY <1>1
<1> HIDE DEF v
<1>7. \A k \in Key : v.deps[k] < v.ut /\ Fine(k, v.deps[k])
  BY <1>3, <1>4, <1>6
<1>8. \A k \in Key : v.deps[k] <= v.ut
  BY <1>5, <1>7, VersionFacts, TimeOrder
<1>9. Genuine(Srv, v)
  BY <1>6, <1>7, <1>8 DEF Genuine
<1>10. IsPut(v, s, put)
  BY <1>6 DEF IsPut
<1> QED  BY <1>5, <1>7, <1>9, <1>10 DEF v

\* An update of another data centre is newer than what its key has: one data
\* centre writes the key, and its updates arrive in order.
LEMMA UpdateIsNewer ==
    ASSUME Types, NEW s \in Remote, NEW put \in Log[s], ChainOK(Srv, put.key),
           put.ut > applied[PartitionFor(put.key)][s]
    PROVE  \A i \in DOMAIN store[put.key] : store[put.key][i].ut <= put.ut
<1> DEFINE k == put.key
           p == PartitionFor(k)
<1> TAKE i \in DOMAIN store[k]
<1> DEFINE v == store[k][i]
<1>1. /\ k \in RemoteKeys /\ k \in Key /\ p \in Partition /\ put.ut \in Time
  BY PutFacts
<1>2. Srv.store = store /\ Srv.applied = applied
  BY SrvType
<1>3. v \in Version /\ StoredOK(Srv, k, v) /\ applied[p] \in Vector
  BY <1>1, <1>2, VersionFacts DEF Types, ChainOK
<1>4. v.sr # Here /\ v.sr \in Remote
  BY <1>1, <1>3, KeyFacts, VersionFacts DEF StoredOK
<1>5. PICK q \in Log[v.sr] : q.key = k
  BY <1>3, <1>4 DEF StoredOK
<1>6. v.sr = s
  BY <1>4, <1>5, LogAssumption
<1>7. v.ut <= applied[p][s]
  BY <1>2, <1>3, <1>4, <1>6 DEF StoredOK
<1>8. v.ut \in Int /\ applied[p][s] \in Int /\ put.ut \in Int
  BY <1>1, <1>3, VersionFacts, TimeFacts
<1> QED  BY <1>7, <1>8

\* An update of another data centre arrives.
LEMMA ReplicaUpdateStep ==
    ASSUME IInv, NEW p \in Partition, NEW s \in Remote, NEW put \in Log[s],
           PartitionFor(put.key) = p, ReplicaUpdate(p, s, put)
    PROVE  IInv'
<1> DEFINE j == put.key
           v == RemoteVersion(s, put)
           a == put.ut
           t == MaxOf({other[p][s], put.ut})
<1>1. /\ Types /\ Srv \in Servers /\ ServersOK(Srv)
      /\ Srv.clock = clock /\ Srv.other = other /\ Srv.applied = applied
      /\ Srv.gst = gst_vector /\ Srv.store = store /\ Srv.one = single_core
  BY SrvType DEF IInv
<1>2. j \in RemoteKeys /\ j \in Key /\ a \in Time
  BY PutFacts
<1>3. /\ Puts(s, p, applied[p][s], a) = {put}
      /\ applied' = [applied EXCEPT ![p][s] = a]
      /\ other' = [other EXCEPT ![p][s] = t]
      /\ store' = [store EXCEPT ![j] = PutValue(store[j], v)]
      /\ UNCHANGED <<clock, gst_vector, session, req, slice, reply, single_core>>
  BY DEF ReplicaUpdate
<1>4. a > applied[p][s] /\ applied[p][s] \in Time /\ other[p][s] \in Time
  BY <1>1, <1>3, ServersFacts DEF Puts
<1>5. t \in Time /\ other[p][s] <= t /\ t \in {other[p][s], a}
  BY <1>2, <1>4, MaxOfIs
<1> HIDE DEF t, a
<1>6. RaisedTo(other, other', p, s, t)
  BY <1>1, <1>3, <1>5, EntryRaised DEF Types
<1>7. RaisedTo(applied, applied', p, s, a)
  <2>1. applied[p][s] <= a
    BY <1>2, <1>4, TimeOrder
  <2> QED  BY <1>1, <1>2, <1>3, <2>1, EntryRaised DEF Types
<1>8. /\ v \in Version /\ IsPut(v, s, put) /\ v.ut = a /\ v.sr = s
      /\ Genuine(Srv, v) /\ \A k \in Key : v.deps[k] < v.ut
  BY RemoteVersionIs DEF IsPut, a
<1> HIDE DEF v
<1>9. store[j] \in Seq(Version) /\ ChainOK(Srv, j)
  BY <1>1, <1>2 DEF Types, ServersOK
<1>10. \A i \in DOMAIN store[j] : store[j][i].ut <= v.ut
  BY <1>1, <1>4, <1>8, <1>9, UpdateIsNewer DEF a
<1>11. PutValue(store[j], v) = <<v>> \o store[j]
  BY <1>8, <1>9, <1>10, PutValueIs
<1>12. /\ store' \in [Key -> Seq(Version)] /\ store'[j] = <<v>> \o store[j]
       /\ \A k \in Key : k # j => store'[k] = store[k]
  <2>1. <<v>> \o store[j] \in Seq(Version)
    BY <1>8, <1>9, InFront
  <2> QED  BY <1>1, <1>2, <1>3, <1>11, <2>1 DEF Types
<1>13. other' \in [Partition -> Vector] /\ applied' \in [Partition -> Vector]
  BY <1>6, <1>7 DEF RaisedTo
<1>14. Types' /\ \A d \in Client : Cli(d)' = Cli(d)
  BY <1>1, <1>3, <1>12, <1>13 DEF Types, Cli, session
<1> DEFINE y == Srv'
<1>15. /\ y.clock = clock /\ y.other = other' /\ y.applied = applied'
       /\ y.gst = gst_vector /\ y.store = store' /\ y.one = single_core
  BY <1>3 DEF Srv
<1>16. y \in Servers
  BY <1>1, <1>3, <1>12, <1>13 DEF Srv, Servers, Types
<1> HIDE DEF y
<1>17. Grown(Srv, y)
  <2>1. \A q \in Partition : clock[q] <= clock[q] /\ \A d \in Remote : gst_vector[q][d] <= gst_vector[q][d]
    BY <1>1, ServersFacts, TimeOrder
  <2>2. \A k \in Key : y.store[k] = Srv.store[k] \/ \E w \in Version : y.store[k] = <<w>> \o Srv.store[k]
    BY <1>1, <1>8, <1>12, <1>15
  <2>3. \A q \in Partition, d \in Remote :
            other[q][d] <= other'[q][d] /\ applied[q][d] <= applied'[q][d]
    BY <1>6, <1>7 DEF RaisedTo
  <2> QED  BY <1>1, <1>15, <2>1, <2>2, <2>3 DEF Grown
<1>18. ASSUME NEW k \in Key, NEW d \in Remote, NEW q \in Log[d], q.key = k,
              Due(y, PartitionFor(k), d, q.ut)
       PROVE  Due(Srv, PartitionFor(k), d, q.ut) \/ (d = s /\ q = put)
  <2> DEFINE o == PartitionFor(k)
  <2>1. /\ o \in Partition /\ q.ut \in Time /\ applied[o][d] \in Time /\ other[o][d] \in Time
        /\ PartitionFor(q.key) = o
    BY <1>1, <1>18, KeyFacts, PutFacts, ServersFacts
  <2> HIDE DEF o
  <2>2. q.ut <= applied'[o][d] \/ (single_core /\ q.ut <= other'[o][d])
    BY <1>15, <1>18 DEF Due, o
  <2>3. q.ut <= applied[o][d] \/ (single_core /\ q.ut <= other[o][d]) => Due(Srv, o, d, q.ut)
    BY <1>1 DEF Due
  <2>4. CASE o # p \/ d # s
    <3>1. applied'[o][d] = applied[o][d] /\ other'[o][d] = other[o][d]
      BY <1>6, <1>7, <2>1, <2>4 DEF RaisedTo
    <3> QED  BY <2>2, <2>3, <3>1 DEF o
  <2>5. CASE o = p /\ d = s
    <3>1. applied'[o][d] = a /\ other'[o][d] = t
      BY <1>6, <1>7, <2>5 DEF RaisedTo
    <3>2. q.ut <= a \/ (single_core /\ q.ut <= other[o][d])
      BY <1>5, <2>2, <2>5, <3>1
    <3>3. CASE single_core /\ q.ut <= other[o][d]
      BY <2>3, <3>3 DEF o
    <3>4. CASE q.ut <= applied[o][d]
      BY <2>3, <3>4 DEF o
    <3>5. CASE q.ut <= a /\ ~(q.ut <= applied[o][d])
      <4>1. applied[p][s] < q.ut
        BY <2>1, <2>5, <3>5, TimeOrder
      <4>2. q \in Puts(s, p, applied[p][s], a)
        BY <2>1, <2>5, <3>5, <4>1 DEF Puts
      <4> QED  BY <1>3, <2>5, <4>2
    <3> QED  BY <3>2, <3>3, <3>4, <3>5
  <2> QED  BY <2>4, <2>5
<1>19. ServersOK(y)
  <2>1. \A q \in Partition : Safe(y, y.gst[q])
    BY <1>1, <1>15, <1>16, <1>17, SafeKept DEF ServersOK
  <2>2. ASSUME NEW k \in Key, k # j PROVE ChainOK(y, k)
    <3>1. \A d \in Remote : \A q \in Log[d] :
            q.key = k /\ Due(y, PartitionFor(k), d, q.ut) => Due(Srv, PartitionFor(k), d, q.ut)
      BY <1>18, <2>2
    <3>2. ChainOK(Srv, k) /\ y.store[k] = Srv.store[k]
      BY <1>1, <1>12, <1>15, <2>2 DEF ServersOK
    <3> QED  BY <1>1, <1>16, <1>17, <3>1, <3>2, ChainSame
  <2>3. ChainOK(y, j)
    <3>1. \A d \in Remote : \A q \in Log[d] :
            q.key = j /\ Due(y, PartitionFor(j), d, q.ut) =>
                Due(Srv, PartitionFor(j), d, q.ut) \/ IsPut(v, d, q)
      BY <1>2, <1>8, <1>18
    <3>2. StoredOK(y, j, v)
      <4>1. v.sr # Here /\ j \notin LocalKeys
        BY <1>2, <1>8, KeyFacts, SessionAssumption
      <4>2. v.ut <= y.applied[p][s]
        BY <1>2, <1>7, <1>8, <1>15, TimeOrder DEF RaisedTo
      <4>3. Genuine(y, v)
        BY <1>1, <1>8, <1>16, <1>17, Kept
      <4>4. ASSUME NEW q \in Log[s], q.key = j, q.ut = v.ut PROVE IsPut(v, s, q)
        <5>1. q \in Puts(s, p, applied[p][s], a)
          BY <1>2, <1>4, <1>8, <4>4, TimeOrder DEF Puts
        <5> QED  BY <1>3, <1>8, <5>1
      <4> QED  BY <1>8, <4>1, <4>2, <4>3, <4>4 DEF StoredOK
    <3>3. y.store[j] = <<v>> \o Srv.store[j]
      BY <1>1, <1>12, <1>15
    <3>4. \A i \in DOMAIN Srv.store[j] : Srv.store[j][i].ut <= v.ut
      BY <1>1, <1>10
    <3> HIDE DEF j
    <3> QED  BY <1>1, <1>2, <1>8, <1>9, <1>16, <1>17, <3>1, <3>2, <3>3, <3>4, ChainMore
  <2> QED  BY <2>1, <2>2, <2>3 DEF ServersOK
<1> QED  BY <1>14, <1>17, <1>19, Step DEF y

\* The dependency vector of a put
LEMMA PutVectorType ==
    ASSUME Types, NEW c \in Client
    PROVE  PutVector(c) \in [DC -> Time]
<1>1. ASSUME NEW s \in DC, s # Here
      PROVE  MaxOf({client_gst[c][s], dependency_vector[c][s]}) \in Time
  <2>1. s \in Remote
    BY <1>1, KeyFacts
  <2>2. client_gst[c] \in Vector
    BY DEF Types
  <2>3. client_gst[c][s] \in Time /\ dependency_vector[c][s] \in Time
    BY <2>1, <2>2, VersionFacts DEF Types
  <2> QED  BY <2>3, MaxOfIs
<1>2. dependency_vector[c][Here] \in Time
  BY KeyFacts DEF Types
<1> QED  BY <1>1, <1>2 DEF PutVector

\* The put has the lock, and makes its version.
LEMMA PutRequestLockedStep ==
    ASSUME IInv, NEW c \in Client, NEW t \in 0 .. LastTick, PutRequestLocked(c, t)
    PROVE  IInv'
<1> DEFINE k == TheKey(c)
           p == req[c].at
           v == [ut |-> t, sr |-> Here, dep |-> PutVector(c), deps |-> past[c]]
           r == [req[c] EXCEPT !.stage = "locked"]
           m == Cli(c)
           n == Cli(c)'
           y == Srv'
<1>1. /\ Types /\ Srv \in Servers /\ ServersOK(Srv)
      /\ Srv.clock = clock /\ Srv.other = other /\ Srv.applied = applied
      /\ Srv.gst = gst_vector /\ Srv.store = store /\ Srv.one = single_core
      /\ ClientType(m) /\ ClientOK(Srv, m) /\ m.req = req[c] /\ m.past = past[c]
      /\ m.dv = dependency_vector[c]
  BY SrvType, CliType DEF IInv
<1>2. /\ req[c].op = "put" /\ req[c].stage = "locking" /\ t > clock[p]
      /\ clock' = [clock EXCEPT ![p] = t]
      /\ store' = [store EXCEPT ![k] = PutValue(store[k], v)]
      /\ Answer(c, v, NoTimes) /\ req' = Stage(c, "locked")
      /\ UNCHANGED <<other, applied, gst_vector, session, slice, single_core>>
  BY DEF PutRequestLocked, At
<1>3. /\ k \in Key /\ k \in LocalKeys /\ req[c].keys = {k} /\ p = PartitionFor(k)
      /\ p \in Partition /\ req[c] \in ReqType
      /\ \A s \in DC : dependency_vector[c][s] <= clock[p]
  BY <1>2, MyRequest
<1>4. t \in Time /\ clock[p] \in Time /\ t \in Int /\ clock[p] \in Int
  <2>1. t \in Time
    BY SessionAssumption DEF Time
  <2>2. clock[p] \in Time
    BY <1>1, <1>3 DEF Types
  <2> QED  BY <2>1, <2>2, TimeFacts
<1>5. past[c] \in [Key -> Time] /\ PutVector(c) \in [DC -> Time]
  BY <1>1, PutVectorType DEF Types
<1>6. v \in Version
  BY <1>4, <1>5, KeyFacts DEF Version
<1>7. v.ut = t /\ v.sr = Here /\ v.deps = past[c]
  OBVIOUS
<1> HIDE DEF v
<1>8. \A j \in Key : v.deps[j] < v.ut /\ v.deps[j] <= v.ut
  <2> TAKE j \in Key
  <2>1. PICK s \in DC : past[c][j] <= dependency_vector[c][s]
    BY <1>1 DEF ClientOK, SessionOK
  <2>2. past[c][j] \in Int /\ dependency_vector[c][s] \in Int /\ dependency_vector[c][s] <= clock[p]
    <3>1. dependency_vector[c][s] \in Time
      BY <1>1 DEF Types
    <3> QED  BY <1>3, <1>5, <3>1, TimeFacts
  <2> QED  BY <1>2, <1>4, <1>7, <2>1, <2>2
<1>9. \A x : Genuine(x, v)
  BY <1>7, <1>8 DEF Genuine
<1>10. store[k] \in Seq(Version) /\ ChainOK(Srv, k)
  BY <1>1, <1>3 DEF Types, ServersOK
<1>11. \A i \in DOMAIN store[k] : store[k][i].ut <= v.ut
  <2> TAKE i \in DOMAIN store[k]
  <2>1. store[k][i] \in Version /\ StoredOK(Srv, k, store[k][i])
    BY <1>1, <1>10, VersionFacts DEF ChainOK
  <2>2. store[k][i].ut <= clock[p] /\ store[k][i].ut \in Int
    BY <1>1, <1>3, <2>1, VersionFacts, TimeFacts DEF StoredOK
  <2> QED  BY <1>2, <1>4, <1>7, <2>2
<1>12. PutValue(store[k], v) = <<v>> \o store[k]
  BY <1>6, <1>10, <1>11, PutValueIs
<1>13. /\ store' \in [Key -> Seq(Version)] /\ store'[k] = <<v>> \o store[k]
       /\ \A j \in Key : j # k => store'[j] = store[j]
  <2>1. <<v>> \o store[k] \in Seq(Version)
    BY <1>6, <1>10, InFront
  <2> QED  BY <1>1, <1>2, <1>3, <1>12, <2>1 DEF Types
<1>14. clock' \in [Partition -> Time] /\ clock'[p] = t /\ \A q \in Partition : clock[q] <= clock'[q]
  <2>1. clock' \in [Partition -> Time] /\ clock'[p] = t /\ \A q \in Partition : q # p => clock'[q] = clock[q]
    BY <1>1, <1>2, <1>3, <1>4 DEF Types
  <2>2. ASSUME NEW q \in Partition PROVE clock[q] <= clock'[q]
    <3>1. CASE q = p
      BY <1>2, <1>4, <2>1, <3>1
    <3>2. CASE q # p
      BY <1>1, <2>1, <3>2, TimeOrder DEF Types
    <3> QED  BY <3>1, <3>2
  <2> QED  BY <2>1, <2>2
<1>15. /\ DOMAIN reply' = Client /\ (\A d \in Client : ReplyType(reply'[d]))
       /\ (\A d \in Client \ {c} : reply'[d] = reply[d])
       /\ DOMAIN reply'[c] = {k} /\ reply'[c][k].value = v /\ reply'[c][k].gst = NoTimes
  BY <1>1, <1>2, <1>3, <1>6, NothingFacts, AnswerType
<1>16. req' = [req EXCEPT ![c] = r] /\ r \in ReqType
  BY <1>2, <1>3, ReqFields DEF Stage, Stages
<1>17. r.op = "put" /\ r.keys = {k} /\ r.stage = "locked" /\ r.at = p /\ r.gst = req[c].gst
  BY <1>2, <1>3 DEF ReqType
<1> HIDE DEF r
<1>18. Types'
  <2>1. req' \in [Client -> ReqType]
    BY <1>1, <1>16 DEF Types
  <2>2. UNCHANGED <<other, applied, gst_vector, session, slice, single_core>>
    BY <1>2
  <2> QED  BY <1>1, <1>13, <1>14, <1>15, <2>1, <2>2 DEF Types, session
<1>19. \A d \in Client \ {c} : Cli(d)' = Cli(d)
  BY <1>1, <1>2, <1>15, <1>16 DEF Types, Cli, session
<1>20. /\ n.req = r /\ n.slice = m.slice /\ n.reply = reply'[c]
       /\ n.dv = m.dv /\ n.gst = m.gst /\ n.past = m.past /\ n.seen = m.seen
  BY <1>1, <1>2, <1>16 DEF Types, Cli, session
<1>21. /\ y.clock = clock' /\ y.other = other /\ y.applied = applied
      /\ y.gst = gst_vector /\ y.store = store' /\ y.one = single_core
  BY <1>2 DEF Srv
<1>22. y \in Servers
  BY <1>1, <1>2, <1>13, <1>14 DEF Srv, Servers, Types
<1> HIDE DEF m, n, y, k, p
<1>23. Grown(Srv, y)
  <2>1. \A q \in Partition, s \in Remote :
            /\ other[q][s] <= other[q][s] /\ applied[q][s] <= applied[q][s]
            /\ gst_vector[q][s] <= gst_vector[q][s]
    BY <1>1, ServersFacts, TimeOrder
  <2>2. \A j \in Key : y.store[j] = Srv.store[j] \/ \E w \in Version : y.store[j] = <<w>> \o Srv.store[j]
    BY <1>1, <1>6, <1>13, <1>21
  <2> QED  BY <1>1, <1>14, <1>21, <2>1, <2>2 DEF Grown
<1>24. StoredOK(y, k, v)
  <2>1. v.ut <= y.clock[PartitionFor(k)]
    BY <1>3, <1>4, <1>7, <1>14, <1>21
  <2> QED  BY <1>3, <1>7, <1>8, <1>9, <2>1 DEF StoredOK
<1>25. ServersOK(y)
  <2>1. \A q \in Partition : Safe(y, y.gst[q])
    BY <1>1, <1>21, <1>22, <1>23, SafeKept DEF ServersOK
  <2>2. ASSUME NEW j \in Key, j # k PROVE ChainOK(y, j)
    <3>1. ChainOK(Srv, j) /\ y.store[j] = Srv.store[j]
      BY <1>1, <1>13, <1>21, <2>2 DEF ServersOK
    <3>2. \A s \in Remote : \A put \in Log[s] :
            Due(y, PartitionFor(j), s, put.ut) => Due(Srv, PartitionFor(j), s, put.ut)
      BY <1>1, <1>21 DEF Due
    <3> QED  BY <1>1, <1>22, <1>23, <3>1, <3>2, ChainSame
  <2>3. ChainOK(y, k)
    <3>1. /\ y.store[k] = <<v>> \o Srv.store[k]
          /\ \A i \in DOMAIN Srv.store[k] : Srv.store[k][i].ut <= v.ut
      BY <1>1, <1>11, <1>13, <1>21
    <3>2. \A s \in Remote : \A put \in Log[s] :
            Due(y, PartitionFor(k), s, put.ut) => Due(Srv, PartitionFor(k), s, put.ut)
      BY <1>1, <1>21 DEF Due
    <3> QED  BY <1>1, <1>3, <1>6, <1>10, <1>22, <1>23, <1>24, <3>1, <3>2, ChainMore
  <2> QED  BY <2>1, <2>2, <2>3 DEF ServersOK
<1>26. ClientOK(y, m)
  BY <1>1, <1>22, <1>23, ClientKept
<1>27. SessionOK(y, n)
  BY <1>20, <1>26 DEF ClientOK, SessionOK
<1>28. RequestOK(y, n)
  <2>1. Safe(y, r.gst)
    BY <1>1, <1>17, <1>26 DEF ClientOK, RequestOK
  <2> QED  BY <1>3, <1>17, <1>20, <2>1 DEF RequestOK
<1>29. ReplyOK(y, n)
  <2>1. VisibleIn(y, k, v.ut)
    <3>1. 1 \in DOMAIN y.store[k] /\ y.store[k][1] = v
      BY <1>6, <1>10, <1>13, <1>21, InFront
    <3> QED  BY <1>7, <3>1 DEF VisibleIn, IsVisible
  <2>2. ValueOK(y, n, k, v, NoTimes)
    BY <1>7, <1>9, <1>17, <1>20, <1>22, <2>1, NoTimesSafe DEF ValueOK
  <2> QED  BY <1>15, <1>17, <1>20, <2>2 DEF ReplyOK
<1>30. \A q \in Partition : SliceOK(y, n, q)
  <2>1. \A q \in Partition : m.slice[q].stage = "none" /\ DOMAIN m.slice[q].values = {}
    BY <1>1, <1>2, NoSlices
  <2> QED  BY <1>20, <2>1, EmptySlices
<1>31. ClientOK(y, n)
  BY <1>27, <1>28, <1>29, <1>30 DEF ClientOK
<1> QED  BY <1>18, <1>19, <1>23, <1>25, <1>31, Step DEF n, y

\* The response to a put leaves.
LEMMA PutRequestUnlockedStep ==
    ASSUME IInv, NEW c \in Client, PutRequestUnlocked(c)
    PROVE  IInv'
<1> DEFINE r == [req[c] EXCEPT !.stage = "answered"]
           m == Cli(c)
           n == Cli(c)'
<1>1. /\ req[c].op = "put" /\ req[c].stage = "locked" /\ req' = [req EXCEPT ![c] = r]
      /\ UNCHANGED <<servers, session, slice, reply, single_core>>
  BY DEF PutRequestUnlocked, At, Stage
<1>2. req[c] \in ReqType /\ req[c].at \in Partition
  BY <1>1, MyRequest
<1>3. r \in ReqType
  BY <1>2, ReqFields DEF Stages
<1>4. /\ r.op = "put" /\ r.keys = req[c].keys /\ r.stage = "answered" /\ r.at = req[c].at
      /\ r.gst = req[c].gst
  BY <1>1, <1>2 DEF ReqType
<1> HIDE DEF r
<1>5. Types' /\ \A d \in Client \ {c} : Cli(d)' = Cli(d)
  <2>1. Types
    BY DEF IInv
  <2>2. Types'
    BY <1>1, <1>3, <2>1 DEF Types, servers, session
  <2> QED  BY <1>1, <2>1, <2>2 DEF Types, Cli, servers, session
<1>6. /\ n.req = r /\ n.slice = m.slice /\ n.reply = m.reply
      /\ n.dv = m.dv /\ n.gst = m.gst /\ n.past = m.past /\ n.seen = m.seen
  BY <1>1 DEF Cli, session, IInv, Types
<1>7. m.req = req[c] /\ ClientOK(Srv, m)
  BY Mine, CliType
<1> HIDE DEF m, n
<1>8. SessionOK(Srv, n)
  BY <1>6, <1>7 DEF ClientOK, SessionOK
<1>9. RequestOK(Srv, n)
  <2>1. RequestOK(Srv, m)
    BY <1>7 DEF ClientOK
  <2> QED  BY <1>1, <1>2, <1>4, <1>6, <1>7, <2>1 DEF RequestOK
<1>10. ReplyOK(Srv, n)
  <2>1. ReplyOK(Srv, m)
    BY <1>7 DEF ClientOK
  <2> QED  BY <1>1, <1>4, <1>6, <1>7, <2>1 DEF ReplyOK, ValueOK
<1>11. \A q \in Partition : SliceOK(Srv, n, q)
  <2>1. \A q \in Partition : m.slice[q].stage = "none" /\ DOMAIN m.slice[q].values = {}
    BY <1>1, <1>7, NoSlices
  <2> QED  BY <1>6, <2>1, EmptySlices
<1>12. ClientOK(Srv, n)
  BY <1>8, <1>9, <1>10, <1>11 DEF ClientOK
<1> QED  BY <1>1, <1>5, <1>12, OneClient DEF n

-----------------------------------------------------------------------------
(***************************************************************************)
(* Transactions                                                            *)
(***************************************************************************)
\* A transaction sends its slices, with a vector that covers its client's.
LEMMA SlicesSent ==
    ASSUME IInv, NEW c \in Client, req[c].op = "rotx", req[c].stage \in {"sent", "locked"},
           Leq(client_gst[c], gst_vector[req[c].at]), SendSlices(c),
           UNCHANGED <<servers, session, reply, single_core>>
    PROVE  IInv'
<1> DEFINE p == req[c].at
           t == MaxOf({clock[p], dependency_vector[c][Here]})
           g == gst_vector[p]
           r == [req[c] EXCEPT !.stage = "slicing", !.time = t, !.gst = g]
           has(q) == \E k \in req[c].keys : PartitionFor(k) = q
           new == [q \in Partition |->
                    IF has(q) THEN [NoSlice EXCEPT !.stage = "sent"] ELSE NoSlice]
           m == Cli(c)
           n == Cli(c)'
<1>1. /\ Types /\ Srv \in Servers /\ ServersOK(Srv) /\ Srv.gst = gst_vector
      /\ ClientType(m) /\ ClientOK(Srv, m) /\ m.req = req[c] /\ m.gst = client_gst[c]
  BY Mine, SrvType, CliType
<1>2. req[c] \in ReqType /\ p \in Partition
  BY MyRequest
<1>3. g \in Vector /\ Safe(Srv, g)
  BY <1>1, <1>2 DEF Types, ServersOK
<1>4. t \in Time
  <2>1. clock[p] \in Time /\ dependency_vector[c][Here] \in Time
    BY <1>1, <1>2, KeyFacts DEF Types
  <2> QED  BY <2>1, MaxOfIs
<1>5. req' = [req EXCEPT ![c] = r] /\ slice' = [slice EXCEPT ![c] = new]
  BY DEF SendSlices
<1> HIDE DEF t
<1>6. r \in ReqType
  BY <1>2, <1>3, <1>4, ReqFields DEF Stages
<1>7. /\ r.op = "rotx" /\ r.keys = req[c].keys /\ r.stage = "slicing" /\ r.at = p /\ r.gst = g
  BY <1>2 DEF ReqType
<1>8. DOMAIN new = Partition
  OBVIOUS
<1>9. ASSUME NEW q \in Partition
      PROVE  /\ SliceType(new[q]) /\ DOMAIN new[q].values = {}
             /\ new[q].stage = (IF has(q) THEN "sent" ELSE "none")
  BY DEF NoSlice, SliceType
<1> HIDE DEF r, new
<1>10. Types'
  <2>1. req' \in [Client -> ReqType]
    BY <1>1, <1>5, <1>6 DEF Types
  <2>2. DOMAIN slice' = Client /\ \A d \in Client : slice'[d] = IF d = c THEN new ELSE slice[d]
    BY <1>1, <1>5 DEF Types
  <2>3. \A d \in Client :
            DOMAIN slice'[d] = Partition /\ \A q \in Partition : SliceType(slice'[d][q])
    BY <1>1, <1>8, <1>9, <2>2 DEF Types
  <2> QED  BY <1>1, <2>1, <2>2, <2>3 DEF Types, servers, session
<1>11. \A d \in Client \ {c} : Cli(d)' = Cli(d)
  BY <1>1, <1>5 DEF Types, Cli, session
<1>12. /\ n.req = r /\ n.slice = new /\ n.reply = m.reply
       /\ n.dv = m.dv /\ n.gst = m.gst /\ n.past = m.past /\ n.seen = m.seen
  BY <1>1, <1>5 DEF Types, Cli, session
<1> HIDE DEF m, n
<1>13. SessionOK(Srv, n)
  BY <1>1, <1>12 DEF ClientOK, SessionOK
<1>14. RequestOK(Srv, n)
  BY <1>1, <1>2, <1>3, <1>7, <1>12 DEF RequestOK
<1>15. DOMAIN n.reply = {}
  BY <1>1, <1>12, NothingYet
<1>16. ReplyOK(Srv, n)
  BY <1>15 DEF ReplyOK
<1>17. ASSUME NEW q \in Partition PROVE SliceOK(Srv, n, q)
  <2>1. has(q) <=> KeysAt(n, q) # {}
    BY <1>7, <1>12 DEF KeysAt
  <2> QED  BY <1>7, <1>9, <1>12, <1>15, <2>1 DEF SliceOK
<1>18. ClientOK(Srv, n)
  BY <1>13, <1>14, <1>16, <1>17 DEF ClientOK
<1> QED  BY <1>10, <1>11, <1>18, OneClient DEF n

\* A transaction sends its slices, or asks for the lock ...
LEMMA RotxRequestStep ==
    ASSUME IInv, NEW c \in Client, RotxRequest(c)
    PROVE  IInv'
<1>1. req[c].op = "rotx" /\ req[c].stage = "sent" /\ UNCHANGED <<servers, session, reply, single_core>>
  BY DEF RotxRequest, At
<1>2. CASE req' = Stage(c, "locking") /\ UNCHANGED slice
  BY <1>1, <1>2, AskForLock
<1>3. CASE ~NeedUpdate(req[c].at, client_gst[c]) /\ SendSlices(c)
  BY <1>1, <1>3, NoNeed, SlicesSent
<1> QED  BY <1>2, <1>3 DEF RotxRequest

\* ... and sends them when the vector has been raised.
LEMMA RotxRequestUnlockedStep ==
    ASSUME IInv, NEW c \in Client, RotxRequestUnlocked(c)
    PROVE  IInv'
<1>1. req[c].op = "rotx" /\ req[c].stage = "locked"
  BY DEF RotxRequestUnlocked, At
<1>2. Leq(client_gst[c], gst_vector[req[c].at])
  BY <1>1, MyRequest
<1> QED  BY <1>1, <1>2, SlicesSent DEF RotxRequestUnlocked

\* A client one of whose slices moves on
LEMMA SliceMoves ==
    ASSUME NEW x, NEW m, NEW n, ClientOK(x, m), NEW p \in Partition,
           n.req = m.req, n.reply = m.reply,
           n.dv = m.dv, n.gst = m.gst, n.past = m.past, n.seen = m.seen,
           \A q \in Partition : q # p => n.slice[q] = m.slice[q],
           SliceOK(x, n, p)
    PROVE  ClientOK(x, n)
<1>1. SessionOK(x, n)
  BY DEF ClientOK, SessionOK
<1>2. RequestOK(x, n)
  BY DEF ClientOK, RequestOK
<1>3. ReplyOK(x, n)
  <2>1. ReplyOK(x, m)
    BY DEF ClientOK
  <2> QED  BY <2>1 DEF ReplyOK, ValueOK, SeesRemote
<1>4. ASSUME NEW q \in Partition, q # p PROVE SliceOK(x, n, q)
  <2>1. SliceOK(x, m, q) /\ n.slice[q] = m.slice[q]
    BY <1>4 DEF ClientOK
  <2> QED  BY <2>1 DEF SliceOK, KeysAt, ValueOK, SeesRemote
<1> QED  BY <1>1, <1>2, <1>3, <1>4 DEF ClientOK

\* The slice of c at p is now s, and nothing else of the clients has changed.
Moved(c, p, s) ==
    /\ DOMAIN slice' = Client
    /\ \A d \in Client :
        DOMAIN slice'[d] = Partition /\ \A q \in Partition : SliceType(slice'[d][q])
    /\ \A d \in Client \ {c} : slice'[d] = slice[d]
    /\ slice'[c][p] = s
    /\ \A q \in Partition : q # p => slice'[c][q] = slice[c][q]

\* This is what an assignment to it does.
LEMMA SliceSet ==
    ASSUME Types, NEW c \in Client, NEW p \in Partition, NEW s, SliceType(s),
           slice' = [slice EXCEPT ![c] = [slice[c] EXCEPT ![p] = s]]
    PROVE  Moved(c, p, s)
<1> DEFINE f == [slice[c] EXCEPT ![p] = s]
<1>1. DOMAIN slice = Client /\ DOMAIN slice[c] = Partition
  BY DEF Types
<1>2. DOMAIN f = Partition /\ f[p] = s /\ \A q \in Partition : q # p => f[q] = slice[c][q]
  BY <1>1
<1> HIDE DEF f
<1>3. slice' = [slice EXCEPT ![c] = f]
  BY DEF f
<1>4. DOMAIN slice' = Client /\ slice'[c] = f /\ \A d \in Client \ {c} : slice'[d] = slice[d]
  BY <1>1, <1>3
<1>5. ASSUME NEW d \in Client
      PROVE  DOMAIN slice'[d] = Partition /\ \A q \in Partition : SliceType(slice'[d][q])
  <2>1. CASE d = c
    BY <1>2, <1>4, <2>1 DEF Types
  <2>2. CASE d # c
    BY <1>4, <2>2 DEF Types
  <2> QED  BY <2>1, <2>2
<1> QED  BY <1>2, <1>4, <1>5 DEF Moved

\* What is known of a slice that has been sent
LEMMA MySlice ==
    ASSUME IInv, NEW c \in Client, NEW p \in Partition, slice[c][p].stage # "none"
    PROVE  /\ req[c].op = "rotx" /\ req[c].stage = "slicing"
           /\ KeysAt(Cli(c), p) # {} /\ \A k \in KeysAt(Cli(c), p) : k \notin DOMAIN reply[c]
           /\ KeysAt(Cli(c), p) = {k \in req[c].keys : PartitionFor(k) = p}
           /\ KeysAt(Cli(c), p) \subseteq Key
           /\ slice[c][p].stage \in {"locking", "locked"} => req[c].time <= clock[p]
           /\ slice[c][p].stage = "locked" => Leq(req[c].gst, gst_vector[p])
           /\ SliceType(slice[c][p])
           /\ DOMAIN slice[c][p].values = IF slice[c][p].stage = "reply" THEN KeysAt(Cli(c), p) ELSE {}
<1>1. /\ Types /\ ClientOK(Srv, Cli(c)) /\ ClientType(Cli(c))
      /\ Srv.gst = gst_vector /\ Srv.clock = clock
      /\ Cli(c).req = req[c] /\ Cli(c).slice = slice[c] /\ Cli(c).reply = reply[c]
  BY Mine, SrvType, CliType
<1>2. SliceOK(Srv, Cli(c), p)
  BY <1>1 DEF ClientOK
<1>3. KeysAt(Cli(c), p) = {k \in req[c].keys : PartitionFor(k) = p}
  BY <1>1 DEF KeysAt
<1>4. KeysAt(Cli(c), p) \subseteq Key
  BY <1>1, <1>3, ClientFacts
<1>5. SliceType(slice[c][p])
  BY <1>1 DEF Types
<1> QED  BY <1>1, <1>2, <1>3, <1>4, <1>5 DEF SliceOK

\* A slice moves on without a value, after the vector of its server has been
\* raised or not.
LEMMA SliceGoesOn ==
    ASSUME IInv, NEW c \in Client, NEW p \in Partition, NEW st \in {"locking", "locked"},
           slice[c][p].stage \in {"sent", "locking"}, req[c].time <= clock[p],
           slice' = [slice EXCEPT ![c][p].stage = st],
           UNCHANGED <<clock, other, applied, store, session, req, reply, single_core>>,
           gst_vector' \in [Partition -> Vector],
           Grown(Srv, Srv'), ServersOK(Srv'), Srv' \in Servers,
           st = "locked" => Leq(req[c].gst, gst_vector'[p])
    PROVE  IInv'
<1> DEFINE s == [slice[c][p] EXCEPT !.stage = st]
           m == Cli(c)
           n == Cli(c)'
<1>1. /\ Types /\ Srv \in Servers /\ ClientType(m) /\ ClientOK(Srv, m)
      /\ m.req = req[c] /\ m.reply = reply[c] /\ m.slice = slice[c]
  BY Mine, CliType
<1>2. /\ req[c].op = "rotx" /\ req[c].stage = "slicing"
      /\ KeysAt(m, p) # {} /\ (\A k \in KeysAt(m, p) : k \notin DOMAIN reply[c])
      /\ SliceType(slice[c][p]) /\ DOMAIN slice[c][p].values = {}
  BY MySlice
<1>3. s.stage = st /\ s.values = slice[c][p].values /\ SliceType(s)
  BY <1>2 DEF SliceType
<1>4. slice' = [slice EXCEPT ![c] = [slice[c] EXCEPT ![p] = s]]
  OBVIOUS
<1> HIDE DEF s
<1>5. Moved(c, p, s)
  BY <1>1, <1>3, <1>4, SliceSet
<1>6. Types'
  BY <1>1, <1>5 DEF Types, Moved, session
<1>7. \A d \in Client \ {c} : Cli(d)' = Cli(d)
  BY <1>5 DEF Moved, Cli, session
<1>8. /\ n.req = m.req /\ n.reply = m.reply /\ n.slice = slice'[c]
      /\ n.dv = m.dv /\ n.gst = m.gst /\ n.past = m.past /\ n.seen = m.seen
  BY DEF Cli, session
<1>9. n.slice[p] = s /\ \A q \in Partition : q # p => n.slice[q] = m.slice[q]
  BY <1>1, <1>5, <1>8 DEF Moved
<1> HIDE DEF m, n
<1>10. ClientOK(Srv', m)
  BY <1>1, ClientKept
<1>11. SliceOK(Srv', n, p)
  <2>1. KeysAt(n, p) = KeysAt(m, p) /\ Srv'.gst = gst_vector' /\ Srv'.clock = clock
    BY <1>8 DEF KeysAt, Srv
  <2> QED  BY <1>1, <1>2, <1>3, <1>8, <1>9, <2>1 DEF SliceOK
<1> DEFINE y == Srv'
<1>12. ClientOK(y, m) /\ SliceOK(y, n, p) /\ p \in Partition
  BY <1>10, <1>11
<1> HIDE DEF y
<1>13. ClientOK(y, n)
  BY ONLY <1>8, <1>9, <1>12, SliceMoves
<1> QED  BY <1>6, <1>7, <1>13, Step DEF n, y

\* A slice has the lock and raises the vector of its server.
LEMMA SliceRequestLockedStep ==
    ASSUME IInv, NEW c \in Client, NEW p \in Partition, SliceRequestLocked(c, p)
    PROVE  IInv'
<1>1. /\ slice[c][p].stage = "locking" /\ UpdateGstVector(p, req[c].gst)
      /\ slice' = [slice EXCEPT ![c][p].stage = "locked"]
      /\ UNCHANGED <<clock, other, applied, store, session, req, reply, single_core>>
  BY DEF SliceRequestLocked
<1>2. req[c].gst \in Vector /\ Safe(Srv, req[c].gst) /\ req[c].time <= clock[p]
  BY <1>1, MyRequest, MySlice
<1>3. /\ gst_vector' \in [Partition -> Vector] /\ Leq(req[c].gst, gst_vector'[p])
      /\ Srv' \in Servers /\ Grown(Srv, Srv') /\ ServersOK(Srv')
  BY <1>1, <1>2, Updated
<1> QED  BY <1>1, <1>2, <1>3, SliceGoesOn

\* Servers that do nothing lose nothing.
LEMMA NothingLost ==
    ASSUME IInv, UNCHANGED <<servers, single_core>>
    PROVE  /\ gst_vector' \in [Partition -> Vector] /\ Srv' = Srv
           /\ Srv' \in Servers /\ Grown(Srv, Srv') /\ ServersOK(Srv')
<1>1. Types /\ Srv \in Servers /\ ServersOK(Srv)
  BY SrvType DEF IInv
<1>2. Srv' = Srv /\ gst_vector' = gst_vector
  BY DEF Srv, servers
<1>3. Grown(Srv, Srv)
  BY <1>1, ServersFacts, TimeOrder DEF Grown
<1> QED  BY <1>1, <1>2, <1>3 DEF Types

\* A slice reads its keys, under a vector that covers its transaction's.
LEMMA SliceRead ==
    ASSUME IInv, NEW c \in Client, NEW p \in Partition, slice[c][p].stage \in {"sent", "locked"},
           Leq(req[c].gst, gst_vector[p]), req[c].time <= clock[p], SendSlice(c, p),
           UNCHANGED <<servers, session, req, reply, single_core>>
    PROVE  IInv'
<1> DEFINE m == Cli(c)
           n == Cli(c)'
           K == {k \in req[c].keys : PartitionFor(k) = p}
           f == [k \in K |-> GetSlice(k)]
           s == [stage |-> "reply", values |-> f]
<1>1. /\ Types /\ Srv \in Servers /\ ServersOK(Srv) /\ ClientType(m) /\ ClientOK(Srv, m)
      /\ m.req = req[c] /\ m.reply = reply[c] /\ m.slice = slice[c] /\ m.seen = seen[c]
  BY Mine, CliType
<1>2. /\ req[c].op = "rotx" /\ req[c].stage = "slicing"
      /\ KeysAt(m, p) # {} /\ (\A k \in KeysAt(m, p) : k \notin DOMAIN reply[c])
      /\ KeysAt(m, p) = K /\ K \subseteq Key
  BY MySlice
<1>3. \A k \in K : PartitionFor(k) = p
  OBVIOUS
<1>4. Leq(client_gst[c], gst_vector[p])
  <2>1. Leq(client_gst[c], req[c].gst) /\ client_gst[c] \in Vector /\ req[c].gst \in Vector
    BY <1>2, MyRequest
  <2>2. gst_vector[p] \in Vector
    BY <1>1 DEF Types
  <2> QED  BY <2>1, <2>2, VersionFacts, LeqTransitive
<1> HIDE DEF K
<1>5. ASSUME NEW k \in K
      PROVE  /\ IsRead(k, GetSlice(k)) /\ GetSlice(k) \in Version
             /\ \A d \in Remote : \A put \in Log[d] :
                    put.key = k /\ put.ut = seen[c][k] /\ put.dep[Here] <= req[c].time
                        => GetSlice(k).ut >= put.ut
  <2>1. k \in Key /\ ChainOK(Srv, k) /\ PartitionFor(k) = p
    BY <1>1, <1>2, <1>3 DEF ServersOK
  <2>2. /\ IsRead(k, GetSlice(k))
        /\ \A d \in Remote : \A put \in Log[d] :
                put.key = k /\ VisibleIn(Srv, k, put.ut) /\ put.dep[Here] <= clock[p]
                    => put.ut <= GetSlice(k).ut
    BY <1>1, <2>1, GetSliceIs
  <2>3. GetSlice(k) \in Version /\ GetSlice(k).ut \in Time
    BY <2>2, VersionFacts DEF IsRead
  <2>4. seen[c][k] \in Time /\ (seen[c][k] = 0 \/ VisibleIn(Srv, k, seen[c][k]))
    BY <1>4, <2>1, SeenIsVisible
  <2>5. req[c].time \in Int /\ clock[p] \in Int
    BY <1>1, ClientFacts, ServersFacts, SrvType, TimeFacts
  <2>6. ASSUME NEW d \in Remote, NEW put \in Log[d],
               put.key = k, put.ut = seen[c][k], put.dep[Here] <= req[c].time
        PROVE  GetSlice(k).ut >= put.ut
    <3>1. put.ut # 0 /\ put.ut \in Int /\ put.dep[Here] \in Int /\ GetSlice(k).ut \in Int
      BY <2>3, KeyFacts, PutFacts, TimeFacts
    <3>2. put.dep[Here] <= clock[p]
      BY <2>5, <2>6, <3>1
    <3>3. VisibleIn(Srv, k, put.ut)
      BY <2>4, <2>6, <3>1
    <3> QED  BY <2>2, <2>6, <3>1, <3>2, <3>3
  <2> QED  BY <2>2, <2>3, <2>6
<1>6. DOMAIN f = K /\ \A k \in K : f[k] = GetSlice(k)
  OBVIOUS
<1>7. slice' = [slice EXCEPT ![c] = [slice[c] EXCEPT ![p] = s]]
  BY DEF SendSlice, K
<1> HIDE DEF f
<1>8. s.stage = "reply" /\ s.values = f /\ SliceType(s)
  BY <1>2, <1>5, <1>6 DEF SliceType
<1> HIDE DEF s
<1>9. Moved(c, p, s)
  BY <1>1, <1>7, <1>8, SliceSet
<1>10. Types'
  BY <1>1, <1>9 DEF Types, Moved, session, servers
<1>11. \A d \in Client \ {c} : Cli(d)' = Cli(d)
  BY <1>9 DEF Moved, Cli, session
<1>12. /\ n.req = m.req /\ n.reply = m.reply /\ n.slice = slice'[c]
       /\ n.dv = m.dv /\ n.gst = m.gst /\ n.past = m.past /\ n.seen = m.seen
  BY DEF Cli, session
<1>13. n.slice[p] = s /\ \A q \in Partition : q # p => n.slice[q] = m.slice[q]
  BY <1>1, <1>9, <1>12 DEF Moved
<1> HIDE DEF m, n
<1>14. SliceOK(Srv, n, p)
  <2>1. KeysAt(n, p) = K
    BY <1>2, <1>12 DEF KeysAt
  <2>2. Safe(Srv, NoTimes)
    BY <1>1, NoTimesSafe
  <2>3. ASSUME NEW k \in K PROVE ValueOK(Srv, n, k, f[k], NoTimes)
    <3>1. k \in Key /\ n.req.op = "rotx" /\ SeesRemote(n, k, GetSlice(k))
      BY <1>1, <1>2, <1>5, <1>12 DEF SeesRemote
    <3>2. ValueOK(Srv, n, k, GetSlice(k), NoTimes)
      BY <1>5, <2>2, <3>1, ReadOK
    <3> QED  BY <1>6, <3>2
  <2>4. n.slice[p].stage = "reply" /\ DOMAIN n.slice[p].values = K /\ n.slice[p].values = f
    BY <1>6, <1>8, <1>13
  <2>5. /\ n.req.op = "rotx" /\ n.req.stage = "slicing"
        /\ KeysAt(n, p) # {} /\ \A k \in KeysAt(n, p) : k \notin DOMAIN n.reply
    BY <1>1, <1>2, <1>12, <2>1
  <2> QED  BY <2>1, <2>3, <2>4, <2>5 DEF SliceOK
<1>15. ClientOK(Srv, n)
  BY <1>1, <1>12, <1>13, <1>14, SliceMoves
<1> QED  BY <1>10, <1>11, <1>15, OneClient DEF n

\* A slice reads, or asks for the lock ...
LEMMA SliceRequestStep ==
    ASSUME IInv, NEW c \in Client, NEW p \in Partition, SliceRequest(c, p)
    PROVE  IInv'
<1>1. /\ slice[c][p].stage = "sent" /\ req[c].time <= clock[p]
      /\ UNCHANGED <<servers, session, req, reply, single_core>>
  BY DEF SliceRequest
<1>2. CASE slice' = [slice EXCEPT ![c][p].stage = "locking"]
  <2>1. UNCHANGED <<clock, other, applied, store, session, req, reply, single_core>>
    BY <1>1 DEF servers
  <2>2. /\ gst_vector' \in [Partition -> Vector]
        /\ Srv' \in Servers /\ Grown(Srv, Srv') /\ ServersOK(Srv')
    BY <1>1, NothingLost
  <2> QED  BY <1>1, <1>2, <2>1, <2>2, SliceGoesOn
<1>3. CASE ~NeedUpdate(p, req[c].gst) /\ SendSlice(c, p)
  BY <1>1, <1>3, NoNeed, SliceRead
<1> QED  BY <1>2, <1>3 DEF SliceRequest

\* ... and reads when the vector has been raised.
LEMMA SliceRequestUnlockedStep ==
    ASSUME IInv, NEW c \in Client, NEW p \in Partition, SliceRequestUnlocked(c, p)
    PROVE  IInv'
<1>1. slice[c][p].stage = "locked" /\ Leq(req[c].gst, gst_vector[p]) /\ req[c].time <= clock[p]
  BY MySlice DEF SliceRequestUnlocked
<1> QED  BY <1>1, SliceRead DEF SliceRequestUnlocked

\* The values of a slice come back; with the last ones the transaction is
\* answered.
LEMMA SliceResponseStep ==
    ASSUME IInv, NEW c \in Client, NEW p \in Partition, SliceResponse(c, p)
    PROVE  IInv'
<1> DEFINE m == Cli(c)
           n == Cli(c)'
           K == KeysAt(m, p)
           got == slice[c][p].values
           all == [k \in DOMAIN got \cup DOMAIN reply[c] |->
                    IF k \in DOMAIN got THEN [value |-> got[k], gst |-> NoTimes] ELSE reply[c][k]]
           r == IF DOMAIN all = req[c].keys THEN [req[c] EXCEPT !.stage = "answered"] ELSE req[c]
<1>1. /\ Types /\ Srv \in Servers /\ ServersOK(Srv) /\ ClientType(m) /\ ClientOK(Srv, m)
      /\ m.req = req[c] /\ m.reply = reply[c] /\ m.slice = slice[c] /\ m.seen = seen[c]
      /\ m.gst = client_gst[c]
  BY Mine, CliType
<1>2. /\ slice[c][p].stage = "reply"
      /\ slice' = [slice EXCEPT ![c] = [slice[c] EXCEPT ![p] = NoSlice]]
      /\ reply' = [reply EXCEPT ![c] = all]
      /\ req' = IF DOMAIN all = req[c].keys THEN Stage(c, "answered") ELSE req
      /\ UNCHANGED <<servers, session, single_core>>
  BY DEF SliceResponse
<1>3. /\ req[c].op = "rotx" /\ req[c].stage = "slicing"
      /\ (\A k \in K : k \notin DOMAIN reply[c])
      /\ K = {k \in req[c].keys : PartitionFor(k) = p} /\ K \subseteq Key
      /\ SliceType(slice[c][p]) /\ DOMAIN got = K
  BY <1>2, MySlice
<1>4. req[c] \in ReqType /\ req[c].at \in Partition
  BY <1>3, MyRequest
<1>5. DOMAIN reply[c] \subseteq req[c].keys /\ ReplyType(reply[c])
  BY <1>1 DEF ClientOK, ReplyOK, ClientType
<1>6. /\ DOMAIN all = K \cup DOMAIN reply[c]
      /\ \A k \in K : all[k] = [value |-> got[k], gst |-> NoTimes]
      /\ \A k \in DOMAIN reply[c] : all[k] = reply[c][k]
  BY <1>3
<1> HIDE DEF all
<1>7. ReplyType(all)
  <2>1. \A k \in K : got[k] \in Version
    BY <1>3 DEF SliceType
  <2>2. \A k \in K : all[k] \in Reply
    BY <1>6, <2>1, NothingFacts DEF Reply
  <2> QED  BY <1>3, <1>5, <1>6, <2>2 DEF ReplyType
<1>8. r \in ReqType /\ req' = [req EXCEPT ![c] = r]
  <2>1. CASE DOMAIN all = req[c].keys
    BY <1>2, <1>4, <2>1, ReqFields DEF Stage, Stages
  <2>2. CASE DOMAIN all # req[c].keys
    BY <1>1, <1>2, <1>4, <2>2 DEF Types
  <2> QED  BY <2>1, <2>2
<1>9. /\ r.op = "rotx" /\ r.keys = req[c].keys /\ r.at = req[c].at /\ r.gst = req[c].gst
      /\ r.time = req[c].time
      /\ r.stage = IF DOMAIN all = req[c].keys THEN "answered" ELSE "slicing"
  BY <1>3, <1>4 DEF ReqType
<1> HIDE DEF r
<1>10. NoSlice.stage = "none" /\ DOMAIN NoSlice.values = {} /\ SliceType(NoSlice)
  BY DEF NoSlice, SliceType
<1>11. Moved(c, p, NoSlice)
  BY <1>1, <1>2, <1>10, SliceSet
<1>12. /\ DOMAIN reply' = Client /\ reply'[c] = all
       /\ \A d \in Client \ {c} : reply'[d] = reply[d]
  BY <1>1, <1>2 DEF Types
<1>13. Types'
  <2>1. req' \in [Client -> ReqType]
    BY <1>1, <1>8 DEF Types
  <2>2. \A d \in Client : ReplyType(reply'[d])
    BY <1>1, <1>7, <1>12 DEF Types
  <2>3. UNCHANGED <<servers, session, single_core>>
    BY <1>2
  <2> QED  BY <1>1, <1>11, <1>12, <2>1, <2>2, <2>3 DEF Types, Moved, servers, session
<1>14. \A d \in Client \ {c} : Cli(d)' = Cli(d)
  <2> TAKE d \in Client \ {c}
  <2>1. req'[d] = req[d] /\ slice'[d] = slice[d] /\ reply'[d] = reply[d]
    BY <1>1, <1>8, <1>11, <1>12 DEF Types, Moved
  <2> QED  BY <1>2, <2>1 DEF Cli, session
<1>15. /\ n.req = r /\ n.reply = all /\ n.slice = slice'[c]
       /\ n.dv = m.dv /\ n.gst = m.gst /\ n.past = m.past /\ n.seen = m.seen
  <2>1. req'[c] = r
    BY <1>1, <1>8 DEF Types
  <2> QED  BY <1>2, <1>12, <2>1 DEF Cli, session
<1>16. n.slice[p] = NoSlice /\ \A q \in Partition : q # p => n.slice[q] = m.slice[q]
  BY <1>1, <1>11, <1>15 DEF Moved
<1>17. \A k \in K : ValueOK(Srv, m, k, got[k], NoTimes)
  BY <1>1, <1>3 DEF ClientOK, SliceOK
<1>18. UNCHANGED <<servers, single_core>>
  BY <1>2
<1> HIDE DEF m, n, K, got
<1>19. SessionOK(Srv, n)
  BY <1>1, <1>15 DEF ClientOK, SessionOK
<1>20. RequestOK(Srv, n)
  <2>1. RequestOK(Srv, m)
    BY <1>1 DEF ClientOK
  <2> QED  BY <1>1, <1>3, <1>4, <1>9, <1>15, <2>1 DEF RequestOK
<1>21. \A k \in Key, v \in Version, g \in Vector : ValueOK(Srv, m, k, v, g) => ValueOK(Srv, n, k, v, g)
  BY <1>1, <1>3, <1>9, <1>15 DEF ValueOK, SeesRemote
<1>22. ReplyOK(Srv, n)
  <2>1. DOMAIN n.reply \subseteq n.req.keys
    BY <1>3, <1>5, <1>6, <1>9, <1>15
  <2>2. n.req.stage \in {"slicing", "answered"}
    BY <1>9, <1>15
  <2>3. ASSUME NEW k \in K PROVE ValueOK(Srv, n, k, n.reply[k].value, n.reply[k].gst)
    <3>1. n.reply[k].value = got[k] /\ n.reply[k].gst = NoTimes
      BY <1>6, <1>15
    <3>2. k \in Key /\ got[k] \in Version
      BY <1>3 DEF SliceType, got
    <3> QED  BY <1>17, <1>21, <3>1, <3>2, NothingFacts
  <2>4. ASSUME NEW k \in DOMAIN reply[c] PROVE ValueOK(Srv, n, k, n.reply[k].value, n.reply[k].gst)
    <3>1. ValueOK(Srv, m, k, reply[c][k].value, reply[c][k].gst)
      BY <1>1 DEF ClientOK, ReplyOK
    <3>2. k \in Key /\ reply[c][k].value \in Version /\ reply[c][k].gst \in Vector
      BY <1>5, VersionFacts DEF ReplyType
    <3> QED  BY <1>6, <1>15, <1>21, <3>1, <3>2
  <2> QED  BY <1>6, <1>15, <2>1, <2>2, <2>3, <2>4 DEF ReplyOK
<1>23. SliceOK(Srv, n, p)
  BY <1>10, <1>16 DEF SliceOK
<1>24. ASSUME NEW q \in Partition, q # p PROVE SliceOK(Srv, n, q)
  <2>1. SliceOK(Srv, m, q) /\ n.slice[q] = m.slice[q] /\ KeysAt(n, q) = KeysAt(m, q)
    BY <1>1, <1>9, <1>15, <1>16, <1>24 DEF ClientOK, KeysAt
  <2>2. \A k \in KeysAt(m, q) : k \in req[c].keys /\ k \notin K
    BY <1>1, <1>3, <1>24 DEF KeysAt
  <2>3. ASSUME m.slice[q].stage # "none"
        PROVE  /\ n.req.op = "rotx" /\ n.req.stage = "slicing"
               /\ KeysAt(n, q) # {} /\ \A k \in KeysAt(n, q) : k \notin DOMAIN n.reply
    <3>1. KeysAt(m, q) # {} /\ \A k \in KeysAt(m, q) : k \notin DOMAIN reply[c]
      BY <1>1, <2>1, <2>3 DEF SliceOK
    <3>2. \A k \in KeysAt(m, q) : k \notin DOMAIN all
      BY <1>6, <2>2, <3>1
    <3>3. DOMAIN all # req[c].keys
      BY <2>2, <3>1, <3>2
    <3> QED  BY <1>9, <1>15, <2>1, <3>1, <3>2, <3>3
  <2>4. ASSUME NEW k \in DOMAIN m.slice[q].values
        PROVE  ValueOK(Srv, n, k, m.slice[q].values[k], NoTimes)
    <3>1. k \in Key /\ m.slice[q].values[k] \in Version
      BY <1>1, ClientFacts
    <3> QED  BY <1>21, <2>1, <3>1, NothingFacts DEF SliceOK
  <2>5. n.req.gst = m.req.gst /\ n.req.time = m.req.time
    BY <1>1, <1>9, <1>15
  <2> QED  BY <2>1, <2>3, <2>4, <2>5 DEF SliceOK
<1>25. ClientOK(Srv, n)
  BY <1>19, <1>20, <1>22, <1>23, <1>24 DEF ClientOK
<1> QED  BY <1>13, <1>14, <1>18, <1>25, OneClient DEF n

-----------------------------------------------------------------------------
(***************************************************************************)
(* Responses                                                               *)
(***************************************************************************)
\* What Learn returns: what was known, a dependency on a key of K of a version
\* in S, or the version that came back.
LEMMA LearnIs ==
    ASSUME Types, NEW c \in Client, NEW d \in [Key -> Time], NEW S \in SUBSET Version,
           NEW K \in SUBSET Key, NEW k \in Key
    PROVE  /\ Learn(c, d, S, K)[k] \in Time
           /\ \/ Learn(c, d, S, K)[k] = d[k]
              \/ k \in K /\ \E v \in S : Learn(c, d, S, K)[k] = v.deps[k]
              \/ k \in DOMAIN reply[c] /\ Learn(c, d, S, K)[k] = reply[c][k].value.ut
<1> DEFINE A == {v.deps[k] : v \in {v \in S : k \in K}}
           B == {reply[c][j].value.ut : j \in DOMAIN reply[c] \cap {k}}
           U == {d[k]} \cup A \cup B
<1>1. A \subseteq Time
  BY VersionFacts
<1>2. B \subseteq Time
  BY VersionFacts DEF Types, ReplyType
<1>3. U \subseteq Time /\ U # {}
  BY <1>1, <1>2
<1>4. MaxOf(U) \in U /\ MaxOf(U) \in Time
  BY <1>3, MaxOfIs
<1>5. Learn(c, d, S, K)[k] = MaxOf(U)
  BY DEF Learn
<1>6. MaxOf(U) \in B => k \in DOMAIN reply[c] /\ MaxOf(U) = reply[c][k].value.ut
  OBVIOUS
<1>7. MaxOf(U) \in A => k \in K /\ \E v \in S : MaxOf(U) = v.deps[k]
  OBVIOUS
<1> QED  BY <1>4, <1>5, <1>6, <1>7

\* Everything that came back is all right.
LEMMA MyReply ==
    ASSUME IInv, NEW c \in Client, NEW k \in DOMAIN reply[c]
    PROVE  /\ k \in Key /\ reply[c][k].value \in Version /\ reply[c][k].gst \in Vector
           /\ ValueOK(Srv, Cli(c), k, reply[c][k].value, reply[c][k].gst)
<1>1. /\ Types /\ ClientOK(Srv, Cli(c)) /\ Cli(c).reply = reply[c]
  BY Mine, CliType
<1>2. k \in Key /\ reply[c][k].value \in Version /\ reply[c][k].gst \in Vector
  BY <1>1, VersionFacts DEF Types, ReplyType
<1> QED  BY <1>1, <1>2 DEF ClientOK, ReplyOK

\* What the client has after a response: its two vectors, past and seen
NewD(c) == [s \in DC |->
    MaxOf({dependency_vector[c][s]} \cup {v.ut : v \in {v \in Values(c) : v.sr = s}})]
NewG(c) == [s \in Remote |->
    MaxOf({client_gst[c][s]} \cup {reply[c][k].gst[s] : k \in DOMAIN reply[c]})]
NewPast(c) == Learn(c, past[c], Values(c), Key)
NewSeen(c) == Learn(c, seen[c], {v \in Values(c) : req[c].op = "get" /\ v.sr # Here}, CoveredKeys)

\* The dependency vector reaches every version that came back.
LEMMA NewDIs ==
    ASSUME IInv, NEW c \in Client
    PROVE  /\ NewD(c) \in [DC -> Time]
           /\ \A s \in DC : dependency_vector[c][s] <= NewD(c)[s]
           /\ \A v \in Values(c) : v \in Version /\ Genuine(Srv, v) /\ v.ut <= NewD(c)[v.sr]
<1>1. \A v \in Values(c) : v \in Version /\ Genuine(Srv, v)
  <2> TAKE v \in Values(c)
  <2>1. PICK k \in DOMAIN reply[c] : v = reply[c][k].value
    BY DEF Values
  <2> QED  BY <2>1, MyReply DEF ValueOK
<1>2. ASSUME NEW s \in DC
      PROVE  /\ NewD(c)[s] \in Time
             /\ dependency_vector[c][s] <= NewD(c)[s]
             /\ \A v \in Values(c) : v.sr = s => v.ut <= NewD(c)[s]
  <2> DEFINE A == {v.ut : v \in {v \in Values(c) : v.sr = s}}
             U == {dependency_vector[c][s]} \cup A
  <2>1. dependency_vector[c][s] \in Time
    BY Mine DEF Types
  <2>2. A \subseteq Time
    BY <1>1, VersionFacts
  <2>3. U \subseteq Time /\ U # {}
    BY <2>1, <2>2
  <2>4. MaxOf(U) \in Time /\ \A u \in U : u <= MaxOf(U)
    BY <2>3, MaxOfIs
  <2>5. NewD(c)[s] = MaxOf(U)
    BY DEF NewD
  <2>6. \A v \in Values(c) : v.sr = s => v.ut \in U
    OBVIOUS
  <2> HIDE DEF U
  <2>7. dependency_vector[c][s] \in U
    BY DEF U
  <2> QED  BY <2>4, <2>5, <2>6, <2>7
<1>3. NewD(c) \in [DC -> Time]
  BY <1>2 DEF NewD
<1>4. \A v \in Values(c) : v.sr \in DC
  BY <1>1, VersionFacts
<1> QED  BY <1>1, <1>2, <1>3, <1>4

\* The vector of the client stays safe, and reaches every vector that came back.
LEMMA NewGIs ==
    ASSUME IInv, NEW c \in Client
    PROVE  /\ NewG(c) \in Vector /\ Safe(Srv, NewG(c)) /\ Leq(client_gst[c], NewG(c))
           /\ \A k \in DOMAIN reply[c] : Leq(reply[c][k].gst, NewG(c))
<1>1. client_gst[c] \in Vector /\ Safe(Srv, client_gst[c])
  BY MyRequest
<1>2. \A k \in DOMAIN reply[c] : reply[c][k].gst \in Vector /\ Safe(Srv, reply[c][k].gst)
  BY MyReply DEF ValueOK
<1>3. ASSUME NEW s \in Remote
      PROVE  /\ NewG(c)[s] \in Time
             /\ client_gst[c][s] <= NewG(c)[s]
             /\ \A k \in DOMAIN reply[c] : reply[c][k].gst[s] <= NewG(c)[s]
             /\ \A p \in Partition : NewG(c)[s] <= Srv.other[p][s]
  <2> DEFINE A == {reply[c][k].gst[s] : k \in DOMAIN reply[c]}
             U == {client_gst[c][s]} \cup A
  <2>1. A \subseteq Time /\ client_gst[c][s] \in Time
    BY <1>1, <1>2, VersionFacts
  <2>2. U \subseteq Time /\ U # {}
    BY <2>1
  <2>3. MaxOf(U) \in U /\ MaxOf(U) \in Time /\ \A u \in U : u <= MaxOf(U)
    BY <2>2, MaxOfIs
  <2>4. NewG(c)[s] = MaxOf(U)
    BY DEF NewG
  <2>5. \A u \in U : \A p \in Partition : u <= Srv.other[p][s]
    BY <1>1, <1>2 DEF Safe
  <2>6. client_gst[c][s] \in U /\ \A k \in DOMAIN reply[c] : reply[c][k].gst[s] \in U
    OBVIOUS
  <2> HIDE DEF U
  <2> QED  BY <2>3, <2>4, <2>5, <2>6
<1>4. NewG(c) \in Vector
  BY <1>3 DEF NewG, Vector
<1> QED  BY <1>3, <1>4 DEF Leq, Safe

\* What the client then depends on is not later than its dependency vector.
LEMMA NewPastIs ==
    ASSUME IInv, NEW c \in Client, NEW k \in Key
    PROVE  NewPast(c)[k] \in Time /\ \E s \in DC : NewPast(c)[k] <= NewD(c)[s]
<1> DEFINE u == NewPast(c)[k]
<1>1. Types /\ past[c] \in [Key -> Time] /\ past[c][k] \in Time
  BY Mine DEF Types
<1>2. \A v \in Values(c) : /\ v \in Version /\ v.ut \in Time /\ v.sr \in DC
                           /\ v.deps[k] \in Time /\ v.deps[k] <= v.ut /\ v.ut <= NewD(c)[v.sr]
  BY NewDIs, VersionFacts DEF Genuine
<1>3. /\ u \in Time
      /\ \/ u = past[c][k]
         \/ \E v \in Values(c) : u = v.deps[k]
         \/ k \in DOMAIN reply[c] /\ u = reply[c][k].value.ut
  <2> DEFINE S == Values(c)
             L == Learn(c, past[c], S, Key)
  <2>1. S \in SUBSET Version /\ Key \in SUBSET Key
    BY <1>2
  <2> HIDE DEF S
  <2>2. /\ L[k] \in Time
        /\ \/ L[k] = past[c][k]
           \/ \E v \in S : L[k] = v.deps[k]
           \/ k \in DOMAIN reply[c] /\ L[k] = reply[c][k].value.ut
    BY <1>1, <2>1, LearnIs
  <2> QED  BY <2>2 DEF NewPast, S
<1>4. \A s \in DC : NewD(c)[s] \in Time
  BY NewDIs
<1>5. CASE u = past[c][k]
  <2>1. PICK s \in DC : past[c][k] <= dependency_vector[c][s]
    BY Mine, CliType DEF ClientOK, SessionOK
  <2>2. dependency_vector[c][s] <= NewD(c)[s] /\ dependency_vector[c][s] \in Time
    BY NewDIs, Mine DEF Types
  <2>3. past[c][k] \in Int /\ dependency_vector[c][s] \in Int /\ NewD(c)[s] \in Int
    BY <1>1, <1>4, <2>2, TimeFacts
  <2>4. past[c][k] <= NewD(c)[s]
    BY <2>1, <2>2, <2>3
  <2> QED  BY <1>3, <1>5, <2>4
<1>6. ASSUME NEW v \in Values(c), u = v.deps[k] PROVE \E s \in DC : u <= NewD(c)[s]
  <2>1. v.deps[k] \in Int /\ v.ut \in Int /\ NewD(c)[v.sr] \in Int
    BY <1>2, <1>4, TimeFacts
  <2>2. v.deps[k] <= NewD(c)[v.sr] /\ v.sr \in DC
    BY <1>2, <2>1
  <2> QED  BY <1>6, <2>2
<1>7. ASSUME k \in DOMAIN reply[c], u = reply[c][k].value.ut PROVE \E s \in DC : u <= NewD(c)[s]
  <2>1. reply[c][k].value \in Values(c)
    BY <1>7 DEF Values
  <2> QED  BY <1>2, <1>7, <2>1
<1> QED  BY <1>3, <1>5, <1>6, <1>7

\* What its reads count on then is visible or, with one core, covered by its
\* vector.
LEMMA NewSeenIs ==
    ASSUME IInv, NEW c \in Client, NEW k \in Key
    PROVE  /\ NewSeen(c)[k] \in Time
           /\ \/ NewSeen(c)[k] = 0
              \/ VisibleIn(Srv, k, NewSeen(c)[k])
              \/ Srv.one /\ Covered(k, NewSeen(c)[k], NewG(c))
<1> DEFINE u == NewSeen(c)[k]
           S == {v \in Values(c) : req[c].op = "get" /\ v.sr # Here}
           Fine(t) == t = 0 \/ VisibleIn(Srv, k, t) \/ (Srv.one /\ Covered(k, t, NewG(c)))
<1>1. Types /\ seen[c] \in [Key -> Time] /\ seen[c][k] \in Time /\ Srv.one = single_core
  BY Mine, SrvType DEF Types
<1>2. S \subseteq Version
  BY NewDIs
<1>3. \A s \in Remote : client_gst[c][s] \in Time /\ NewG(c)[s] \in Time
  BY MyRequest, NewGIs, VersionFacts
<1>4. ASSUME k \in CoveredKeys, NEW v \in S PROVE Fine(v.deps[k])
  <2>1. PICK j \in DOMAIN reply[c] : v = reply[c][j].value
    BY DEF Values
  <2> DEFINE g == reply[c][j].gst
  <2>2. req[c].op = "get" /\ v.sr # Here /\ Cli(c).req = req[c]
    BY Mine, CliType
  <2>3. Genuine(Srv, v) /\ Leq(v.dep, g) /\ v \in Version /\ g \in Vector
    BY <2>1, <2>2, MyReply DEF ValueOK
  <2>4. \A s \in Remote : v.dep[s] \in Time /\ g[s] \in Time
    BY <2>3, VersionFacts, KeyFacts
  <2>5. Leq(g, NewG(c))
    BY <2>1, NewGIs
  <2>6. Leq(v.dep, NewG(c))
    BY <1>3, <2>3, <2>4, <2>5, LeqTransitive
  <2>7. /\ v.deps[k] \in Time
        /\ v.deps[k] = 0 \/ Covered(k, v.deps[k], v.dep) \/ VisibleIn(Srv, k, v.deps[k])
    BY <2>2, <2>3, VersionFacts DEF Genuine
  <2>8. ASSUME Covered(k, v.deps[k], v.dep) PROVE Srv.one
    <3>1. k \in RemoteKeys
      BY <2>8, PutFacts DEF Covered
    <3> QED  BY <1>1, <1>4, <3>1, KeyFacts DEF CoveredKeys
  <2>9. Covered(k, v.deps[k], v.dep) => Covered(k, v.deps[k], NewG(c))
    BY <1>3, <2>4, <2>6, <2>7, CoveredByMore
  <2> QED  BY <2>7, <2>8, <2>9
<1>5. /\ u \in Time
      /\ \/ u = seen[c][k]
         \/ k \in CoveredKeys /\ \E v \in S : u = v.deps[k]
         \/ k \in DOMAIN reply[c] /\ u = reply[c][k].value.ut
  <2> DEFINE K == CoveredKeys
             L == Learn(c, seen[c], S, K)
  <2>1. u = L[k]
    BY DEF NewSeen
  <2>2. S \in SUBSET Version /\ K \in SUBSET Key
    BY <1>2, KeyFacts DEF CoveredKeys
  <2> HIDE DEF S, u, K
  <2>3. /\ L[k] \in Time
        /\ \/ L[k] = seen[c][k]
           \/ k \in K /\ \E v \in S : L[k] = v.deps[k]
           \/ k \in DOMAIN reply[c] /\ L[k] = reply[c][k].value.ut
    BY <1>1, <2>2, LearnIs
  <2> QED  BY <2>1, <2>3 DEF K
<1> HIDE DEF S, u
<1>6. ASSUME u = seen[c][k] PROVE Fine(u)
  <2>1. u = 0 \/ VisibleIn(Srv, k, u) \/ (Srv.one /\ Covered(k, u, client_gst[c]))
    BY <1>6, Mine, CliType DEF ClientOK, SessionOK
  <2>2. Leq(client_gst[c], NewG(c))
    BY NewGIs
  <2> QED  BY <1>3, <1>5, <2>1, <2>2, CoveredByMore
<1>7. ASSUME k \in DOMAIN reply[c], u = reply[c][k].value.ut PROVE Fine(u)
  BY <1>7, MyReply DEF ValueOK
<1>8. ASSUME k \in CoveredKeys, NEW v \in S, u = v.deps[k] PROVE Fine(u)
  BY <1>4, <1>8
<1>9. Fine(u)
  BY <1>5, <1>6, <1>7, <1>8
<1> QED  BY <1>5, <1>9 DEF u

\* The client takes its response.
LEMMA ClientResponseStep ==
    ASSUME IInv, NEW c \in Client, ClientResponse(c)
    PROVE  IInv'
<1> DEFINE m == Cli(c)
           n == Cli(c)'
<1>1. /\ Types /\ Srv \in Servers /\ ClientOK(Srv, m) /\ m.req = req[c] /\ m.slice = slice[c]
  BY Mine, CliType
<1>2. /\ req[c].stage = "answered"
      /\ dependency_vector' = [dependency_vector EXCEPT ![c] = NewD(c)]
      /\ client_gst' = [client_gst EXCEPT ![c] = NewG(c)]
      /\ past' = [past EXCEPT ![c] = NewPast(c)]
      /\ seen' = [seen EXCEPT ![c] = NewSeen(c)]
      /\ req' = [req EXCEPT ![c] = Idle]
      /\ reply' = [reply EXCEPT ![c] = <<>>]
      /\ UNCHANGED <<servers, slice, single_core>>
  BY DEF ClientResponse, NewD, NewG, NewPast, NewSeen
<1>3. /\ NewD(c) \in [DC -> Time] /\ NewG(c) \in Vector
      /\ NewPast(c) \in [Key -> Time] /\ NewSeen(c) \in [Key -> Time]
  <2>1. NewPast(c) \in [Key -> Time]
    <3>1. \A k \in Key : NewPast(c)[k] \in Time
      BY NewPastIs
    <3> QED  BY <3>1 DEF NewPast, Learn
  <2>2. NewSeen(c) \in [Key -> Time]
    <3>1. \A k \in Key : NewSeen(c)[k] \in Time
      BY NewSeenIs
    <3> QED  BY <3>1 DEF NewSeen, Learn
  <2> QED  BY <2>1, <2>2, NewDIs, NewGIs
<1>4. /\ Idle \in ReqType /\ Idle.stage = "idle" /\ Idle.op = "none" /\ Idle.gst = NoTimes
  BY TimeFacts, NothingFacts DEF Idle, ReqType, Stages
<1>5. /\ DOMAIN reply' = Client /\ reply'[c] = <<>> /\ \A d \in Client \ {c} : reply'[d] = reply[d]
  BY <1>1, <1>2 DEF Types
<1>6. DOMAIN reply'[c] = {}
  BY <1>5
<1>7. Types'
  <2>1. dependency_vector' \in [Client -> [DC -> Time]] /\ client_gst' \in [Client -> Vector]
    BY <1>1, <1>2, <1>3 DEF Types
  <2>2. past' \in [Client -> [Key -> Time]] /\ seen' \in [Client -> [Key -> Time]]
    BY <1>1, <1>2, <1>3 DEF Types
  <2>3. req' \in [Client -> ReqType]
    BY <1>1, <1>2, <1>4 DEF Types
  <2>4. \A d \in Client : ReplyType(reply'[d])
    <3> TAKE d \in Client
    <3>1. CASE d = c
      BY <1>6, <3>1 DEF ReplyType
    <3>2. CASE d # c
      BY <1>1, <1>5, <3>2 DEF Types
    <3> QED  BY <3>1, <3>2
  <2>5. UNCHANGED <<servers, slice, single_core>>
    BY <1>2
  <2> QED  BY <1>1, <1>5, <2>1, <2>2, <2>3, <2>4, <2>5 DEF Types, servers
<1>8. \A d \in Client \ {c} : Cli(d)' = Cli(d)
  <2> TAKE d \in Client \ {c}
  <2>1. /\ dependency_vector'[d] = dependency_vector[d] /\ client_gst'[d] = client_gst[d]
        /\ past'[d] = past[d] /\ seen'[d] = seen[d] /\ req'[d] = req[d]
    BY <1>1, <1>2 DEF Types
  <2> QED  BY <1>2, <1>5, <2>1 DEF Cli
<1>9. /\ n.req = Idle /\ DOMAIN n.reply = {} /\ n.slice = m.slice
      /\ n.dv = NewD(c) /\ n.gst = NewG(c) /\ n.past = NewPast(c) /\ n.seen = NewSeen(c)
  <2>1. /\ dependency_vector'[c] = NewD(c) /\ client_gst'[c] = NewG(c)
        /\ past'[c] = NewPast(c) /\ seen'[c] = NewSeen(c) /\ req'[c] = Idle
    BY <1>1, <1>2 DEF Types
  <2> QED  BY <1>2, <1>6, <2>1 DEF Cli
<1>10. UNCHANGED <<servers, single_core>>
  BY <1>2
<1> HIDE DEF m, n
<1>11. SessionOK(Srv, n)
  BY <1>9, NewGIs, NewPastIs, NewSeenIs DEF SessionOK
<1>12. RequestOK(Srv, n)
  BY <1>1, <1>4, <1>9, NoTimesSafe DEF RequestOK
<1>13. ReplyOK(Srv, n)
  BY <1>9 DEF ReplyOK
<1>14. \A q \in Partition : SliceOK(Srv, n, q)
  <2>1. \A q \in Partition : m.slice[q].stage = "none" /\ DOMAIN m.slice[q].values = {}
    BY <1>1, <1>2, NoSlices
  <2> QED  BY <1>9, <2>1, EmptySlices
<1>15. ClientOK(Srv, n)
  BY <1>11, <1>12, <1>13, <1>14 DEF ClientOK
<1> QED  BY <1>7, <1>8, <1>10, <1>15, OneClient DEF n


-----------------------------------------------------------------------------
(***************************************************************************)
(* The invariant holds                                                     *)
(***************************************************************************)
\* At the start nothing is stored, sent or known, ...
LEMMA InitIInv == Init => IInv
<1> SUFFICES ASSUME Init PROVE IInv
  OBVIOUS
<1>1. Idle \in ReqType /\ Idle.stage = "idle" /\ Idle.op = "none" /\ Idle.gst = NoTimes
  BY TimeFacts, NothingFacts DEF Idle, ReqType, Stages
<1>2. SliceType(NoSlice) /\ NoSlice.stage = "none" /\ DOMAIN NoSlice.values = {}
  BY DEF NoSlice, SliceType
<1>3. Types
  <2>1. /\ clock \in [Partition -> Time] /\ other \in [Partition -> Vector]
        /\ applied \in [Partition -> Vector] /\ single_core \in BOOLEAN
        /\ gst_vector \in [Partition -> Vector] /\ client_gst \in [Client -> Vector]
    BY TimeFacts, NothingFacts, SessionAssumption DEF Init
  <2>2. store \in [Key -> Seq(Version)]
    BY DEF Init
  <2>3. dependency_vector \in [Client -> [DC -> Time]]
    BY TimeFacts DEF Init
  <2>4. /\ past \in [Client -> [Key -> Time]] /\ seen \in [Client -> [Key -> Time]]
        /\ req \in [Client -> ReqType]
    BY <1>1, NothingFacts DEF Init
  <2>5. DOMAIN reply = Client /\ \A c \in Client : DOMAIN reply[c] = {}
    BY DEF Init
  <2>6. /\ DOMAIN slice = Client
        /\ \A c \in Client : DOMAIN slice[c] = Partition /\ \A p \in Partition : slice[c][p] = NoSlice
    BY DEF Init
  <2>7. \A c \in Client : ReplyType(reply[c])
    BY <2>5 DEF ReplyType
  <2> QED  BY <1>2, <2>1, <2>2, <2>3, <2>4, <2>5, <2>6, <2>7 DEF Types
<1>4. /\ Srv \in Servers /\ Srv.store = store /\ Srv.gst = gst_vector
      /\ Srv.other = other /\ Srv.applied = applied
  BY <1>3, SrvType
<1>5. Safe(Srv, NoTimes)
  BY <1>4, NoTimesSafe
<1>6. ServersOK(Srv)
  <2>1. \A p \in Partition :
            Srv.gst[p] = NoTimes /\ Srv.other[p] = NoTimes /\ Srv.applied[p] = NoTimes
    BY <1>4 DEF Init
  <2>2. ASSUME NEW k \in Key PROVE ChainOK(Srv, k)
    <3>1. DOMAIN Srv.store[k] = {}
      BY <1>4 DEF Init
    <3>2. ASSUME NEW s \in Remote, NEW put \in Log[s]
          PROVE  ~Due(Srv, PartitionFor(k), s, put.ut)
      <4>1. Srv.other[PartitionFor(k)][s] = 0 /\ Srv.applied[PartitionFor(k)][s] = 0
        BY <2>1, KeyFacts, NothingFacts
      <4>2. put.ut \in Nat /\ put.ut # 0
        BY PutFacts, TimeFacts
      <4> QED  BY <4>1, <4>2 DEF Due
    <3> QED  BY <3>1, <3>2 DEF ChainOK, Sorted
  <2> QED  BY <1>5, <2>1, <2>2 DEF ServersOK
<1>7. ASSUME NEW c \in Client PROVE ClientOK(Srv, Cli(c))
  <2> DEFINE m == Cli(c)
  <2>1. /\ m.req = Idle /\ DOMAIN m.reply = {} /\ m.gst = NoTimes
        /\ m.past = NoDeps /\ m.seen = NoDeps
    BY DEF Init, Cli
  <2>2. \A s \in DC : m.dv[s] = 0
    BY DEF Init, Cli
  <2>3. \A p \in Partition : m.slice[p] = NoSlice
    BY DEF Init, Cli
  <2> HIDE DEF m
  <2>4. SessionOK(Srv, m)
    <3>1. \A k \in Key : m.past[k] = 0 /\ m.seen[k] = 0
      BY <2>1, NothingFacts
    <3>2. \A k \in Key : m.past[k] <= m.dv[Here]
      BY <2>2, <3>1, KeyFacts
    <3> QED  BY <1>5, <2>1, <3>1, <3>2, KeyFacts DEF SessionOK
  <2>5. RequestOK(Srv, m)
    BY <1>1, <1>5, <2>1 DEF RequestOK
  <2>6. ReplyOK(Srv, m)
    BY <2>1 DEF ReplyOK
  <2>7. \A p \in Partition : SliceOK(Srv, m, p)
    BY <1>2, <2>3, EmptySlices
  <2> QED  BY <2>4, <2>5, <2>6, <2>7 DEF ClientOK, m
<1> QED  BY <1>3, <1>6, <1>7 DEF IInv

\* ... every step keeps it, ...
LEMMA NextIInv == IInv /\ [Next]_vars => IInv'
<1> SUFFICES ASSUME IInv, [Next]_vars PROVE IInv'
  OBVIOUS
<1>1. ASSUME NEW p \in Partition, Environment(p) PROVE IInv'
  <2>1. CASE \E t \in 0 .. LastTick : Advance(p, t)
    BY <2>1, AdvanceStep
  <2>2. ASSUME NEW s \in Remote, NEW t \in 0 .. Heard[s], Heartbeat(p, s, t) \/ GstUpdate(p, s, t)
        PROVE  IInv'
    BY <2>2, HeartbeatStep, GstUpdateStep
  <2>3. ASSUME NEW s \in Remote, NEW put \in Log[s], PartitionFor(put.key) = p,
               ReplicaUpdate(p, s, put)
        PROVE  IInv'
    BY <2>3, ReplicaUpdateStep
  <2> QED  BY <1>1, <2>1, <2>2, <2>3 DEF Environment
<1>2. ASSUME NEW c \in Client, NEW q \in Request, ClientRequest(c, q) PROVE IInv'
  BY <1>2, ClientRequestStep
<1>3. ASSUME NEW c \in Client, GetPut(c) PROVE IInv'
  BY <1>3, ForwardRequestStep, GetRequestStep, GetRequestLockedStep, GetRequestUnlockedStep,
     PutRequestStep, PutRequestLockedStep, PutRequestUnlockedStep DEF GetPut
<1>4. ASSUME NEW c \in Client, Rotx(c) PROVE IInv'
  BY <1>4, RotxRequestStep, RotxRequestLockedStep, RotxRequestUnlockedStep DEF Rotx
<1>5. ASSUME NEW c \in Client, NEW p \in Partition, Slice(c, p) PROVE IInv'
  BY <1>5, SliceRequestStep, SliceRequestLockedStep, SliceRequestUnlockedStep,
     SliceResponseStep DEF Slice
<1>6. ASSUME NEW c \in Client, ClientResponse(c) PROVE IInv'
  BY <1>6, ClientResponseStep
<1>7. CASE UNCHANGED vars
  <2>1. /\ UNCHANGED <<servers, single_core>>
        /\ UNCHANGED <<dependency_vector, client_gst, past, seen, req, slice, reply, single_core>>
    BY <1>7 DEF vars, session
  <2>2. UNCHANGED <<clock, other, applied, gst_vector, store, single_core>>
    BY <2>1 DEF servers
  <2>3. Srv' = Srv /\ \A c \in Client : Cli(c)' = Cli(c)
    BY <2>1, <2>2 DEF Srv, Cli
  <2>4. Types'
    BY <2>1, <2>2 DEF IInv, Types
  <2> QED  BY <2>3, <2>4 DEF IInv
<1> QED  BY <1>1, <1>2, <1>3, <1>4, <1>5, <1>6, <1>7 DEF Next

\* ... so it holds always.
LEMMA InvariantHolds == Spec => []IInv
  BY InitIInv, NextIInv, PTL DEF Spec

-----------------------------------------------------------------------------
(***************************************************************************)
(* The theorems                                                            *)
(***************************************************************************)
\* A get shows at least what the client has got, put or read in a transaction,
\* whatever partition it asks and however late the vector is there.  It also
\* shows what the versions of other data centres that the client got depend on:
\* on a key of another data centre only with one core per server, see seen.
THEOREM OwnPastIsSeen == Spec => []GetsSeeOwnPast
<1>1. IInv => GetsSeeOwnPast
  <2> SUFFICES ASSUME IInv, NEW c \in Client, At(c, "get", "answered"), NEW k \in req[c].keys
               PROVE  reply[c][k].value.ut >= seen[c][k]
    BY DEF GetsSeeOwnPast
  <2>1. req[c].op = "get" /\ req[c].stage = "answered"
    BY DEF At
  <2>2. Cli(c).req = req[c] /\ Cli(c).reply = reply[c] /\ Cli(c).seen = seen[c]
    BY Mine, CliType
  <2>3. k \in DOMAIN reply[c]
    BY <2>1, <2>2, Mine DEF ClientOK, RequestOK
  <2>4. ValueOK(Srv, Cli(c), k, reply[c][k].value, reply[c][k].gst)
    BY <2>2, <2>3, Mine DEF ClientOK, ReplyOK
  <2> QED  BY <2>1, <2>2, <2>4 DEF ValueOK
<1> QED  BY <1>1, InvariantHolds, PTL

\* A transaction shows as much of a key of another data centre, though each
\* slice is read at a server of its own, when its snapshot time has reached what
\* the version depends on in this data centre.
THEOREM RemotePastIsSeen == Spec => []RotxSeesRemotePast
<1>1. IInv => RotxSeesRemotePast
  <2> SUFFICES ASSUME IInv, NEW c \in Client, req[c].op = "rotx",
                      NEW k \in RemoteKeys \cap DOMAIN reply[c],
                      NEW s \in Remote, NEW put \in Log[s], put.key = k, put.ut = seen[c][k],
                      put.dep[Here] <= req[c].time
               PROVE  reply[c][k].value.ut >= put.ut
    BY DEF RotxSeesRemotePast
  <2>1. Cli(c).req = req[c] /\ Cli(c).reply = reply[c] /\ Cli(c).seen = seen[c]
    BY Mine, CliType
  <2>2. ValueOK(Srv, Cli(c), k, reply[c][k].value, reply[c][k].gst)
    BY <2>1, Mine DEF ClientOK, ReplyOK
  <2> QED  BY <2>1, <2>2 DEF ValueOK, SeesRemote
<1> QED  BY <1>1, InvariantHolds, PTL

\* Before any client or transaction is shown a version of another data centre,
\* the version vectors cover what it depends on; with one core per server each
\* such put is stored by then.
THEOREM DependenciesHaveArrived == Spec => []DependenciesArrived
<1> DEFINE Had(p, s) == IF single_core THEN applied[p][s] ELSE other[p][s]
<1>1. IInv => DependenciesArrived
  <2> SUFFICES ASSUME IInv PROVE DependenciesArrived
    OBVIOUS
  <2>1. ASSUME NEW v, v.sr # Here, v \in Version, Safe(Srv, v.dep),
               NEW s \in Remote, NEW put \in Log[s], put.ut <= v.dep[s]
        PROVE  put.ut <= Had(PartitionFor(put.key), s)
    <3> DEFINE p == PartitionFor(put.key)
    <3>1. /\ Types /\ Srv \in Servers /\ ServersOK(Srv) /\ Srv.other = other
          /\ Srv.applied = applied /\ Srv.one = single_core /\ Srv.store = store
      BY SrvType DEF IInv
    <3>2. p \in Partition /\ put.ut \in Int /\ put.key \in Key
      BY PutFacts, TimeFacts
    <3>3. v.dep[s] <= other[p][s]
      BY <2>1, <3>1, <3>2 DEF Safe
    <3>4. v.dep[s] \in Int /\ other[p][s] \in Int
      BY <2>1, <3>1, <3>2, ServersFacts, VersionFacts, KeyFacts, TimeFacts
    <3>5. put.ut <= other[p][s]
      BY <2>1, <3>2, <3>3, <3>4
    <3>6. ASSUME single_core PROVE put.ut <= applied[p][s]
      <4>1. Due(Srv, p, s, put.ut) /\ ChainOK(Srv, put.key)
        BY <3>1, <3>2, <3>5, <3>6 DEF Due, ServersOK
      <4>2. In(Srv, s, put)
        BY <4>1 DEF ChainOK
      <4>3. PICK i \in DOMAIN store[put.key] : IsPut(store[put.key][i], s, put)
        BY <3>1, <4>2 DEF In
      <4>4. StoredOK(Srv, put.key, store[put.key][i])
        BY <3>1, <4>1, <4>3 DEF ChainOK
      <4> QED  BY <3>1, <4>3, <4>4, KeyFacts DEF StoredOK, IsPut
    <3> QED  BY <3>5, <3>6
  <2>2. ASSUME NEW c \in Client, NEW v \in Values(c), v.sr # Here
        PROVE  v \in Version /\ Safe(Srv, v.dep)
    <3>1. PICK k \in DOMAIN reply[c] : v = reply[c][k].value
      BY DEF Values
    <3>2. ClientType(Cli(c)) /\ ClientOK(Srv, Cli(c)) /\ Cli(c).reply = reply[c]
      BY Mine, CliType
    <3>3. v \in Version
      BY <3>1, <3>2, ClientFacts
    <3>4. ValueOK(Srv, Cli(c), k, v, reply[c][k].gst)
      BY <3>1, <3>2 DEF ClientOK, ReplyOK
    <3> QED  BY <2>2, <3>3, <3>4 DEF ValueOK
  <2>3. ASSUME NEW c \in Client, NEW p \in Partition, NEW k \in DOMAIN slice[c][p].values,
               slice[c][p].values[k].sr # Here
        PROVE  slice[c][p].values[k] \in Version /\ Safe(Srv, slice[c][p].values[k].dep)
    <3>1. ClientType(Cli(c)) /\ ClientOK(Srv, Cli(c)) /\ Cli(c).slice = slice[c]
      BY Mine, CliType
    <3>2. slice[c][p].values[k] \in Version
      BY <3>1, ClientFacts
    <3>3. ValueOK(Srv, Cli(c), k, slice[c][p].values[k], NoTimes)
      BY <3>1 DEF ClientOK, SliceOK
    <3> QED  BY <2>3, <3>2, <3>3 DEF ValueOK
  <2> DEFINE Shown == (UNION {Values(c) : c \in Client}) \cup
                      (UNION {{slice[c][p].values[k] : k \in DOMAIN slice[c][p].values} :
                              c \in Client, p \in Partition})
  <2>4. ASSUME NEW v \in Shown, v.sr # Here PROVE v \in Version /\ Safe(Srv, v.dep)
    BY <2>2, <2>3, <2>4
  <2> HIDE DEF Shown, Had
  <2>5. \A v \in Shown : \A s \in Remote : \A put \in Log[s] :
            v.sr # Here /\ put.ut <= v.dep[s] => put.ut <= Had(PartitionFor(put.key), s)
    BY <2>1, <2>4
  <2> QED  BY <2>5 DEF Shown, Had, DependenciesArrived
<1> QED  BY <1>1, InvariantHolds, PTL

\* Every version in a store is newer than each one it depends on, however the
\* clocks of the servers are skewed.
THEOREM VersionsFollowDependencies == Spec => []PutsFollowTheirDependencies
<1>1. IInv => PutsFollowTheirDependencies
  BY SrvType DEF IInv, ServersOK, ChainOK, StoredOK, PutsFollowTheirDependencies
<1> QED  BY <1>1, InvariantHolds, PTL
=============================================================================
