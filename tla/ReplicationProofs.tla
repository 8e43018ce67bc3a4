------------------------- MODULE ReplicationProofs -------------------------
(***************************************************************************)
(* Proofs about replication under gr and grv, for any number of replicas   *)
(* and keys, any writers, any number of cores and any clocks.              *)
(*                                                                         *)
(* The link from a source replica s to another replica r holds what s has  *)
(* sent and r has not applied: the put that s is about to send, the        *)
(* channel, and r's queue.  Times grow along a link, from the versions of  *)
(* s that r has to the clock of s.                                         *)
(***************************************************************************)
EXTENDS GrvReplication, FiniteSetTheorems, WellFoundedInduction, TLAPS

PutMain   == [stage : {"put"}, discarded : BOOLEAN, update : Update]
TickMain  == [stage : {"tick"}, send_time : BOOLEAN]
Message   == [type : {"update"}, update : Update] \cup [type : {"heartbeat"}, time : Time]
OpenChain == [stage : {"locking", "unlocking"}, update : Update]

Types ==
    /\ setting \in Settings
    /\ clock \in [Replica -> Time]
    /\ next_tick \in [Replica -> Nat]
    /\ ticking \in [Replica -> BOOLEAN]
    /\ version_vector \in [Replica -> [Replica -> Time]]
    /\ store \in [Replica -> [Key -> Seq(Item)]]
    /\ update_queue \in [Replica -> [Replica -> Seq(Update)]]
    /\ main \in [Replica -> {Idle} \cup PutMain \cup TickMain]
    /\ work \in [Replica -> [Replica -> {Idle} \cup OpenChain]]
    /\ beats \in [Replica -> [Replica -> SUBSET Time]]
    /\ rlock \in [Replica -> [Replica -> {"free", "update", "heartbeat"}]]
    /\ chan \in [Replica -> [Replica -> Seq(Message)]]

-----------------------------------------------------------------------------
(***************************************************************************)
(* One replica                                                             *)
(***************************************************************************)
Sorted(chain) ==
    \A i, j \in DOMAIN chain : i < j => chain[j].ut <= chain[i].ut /\ chain[j] # chain[i]

\* Nothing of r's own is ahead of its clock, its chains are sorted and hold
\* versions of writers only, and it sends itself nothing.
ReplicaOK(r) ==
    /\ version_vector[r][r] <= clock[r]
    /\ \A k \in Key :
        /\ Sorted(store[r][k])
        /\ \A item \in Members(store[r][k]) :
            /\ item.sr \in setting.writers[k]
            /\ item.sr = r => item.ut <= clock[r]
    /\ chan[r][r] = <<>> /\ update_queue[r][r] = <<>>
    /\ work[r][r] = Idle /\ beats[r][r] = {} /\ rlock[r][r] = "free"

-----------------------------------------------------------------------------
(***************************************************************************)
(* The link from s to r.  l and m are states of it, as Link gives the      *)
(* present one.                                                            *)
(***************************************************************************)
Link(r, s) ==
    [clock |-> clock[s], main |-> main[s], source |-> store[s], chan |-> chan[s][r],
     queue |-> update_queue[r][s], work |-> work[r][s], beats |-> beats[r][s],
     rlock |-> rlock[r][s], vv |-> version_vector[r][s], store |-> store[r]]

\* The updates of the queue that have not been applied
Queued(l) ==
    {l.queue[i] : i \in {j \in DOMAIN l.queue : l.work.stage = "unlocking" => j # 1}}

\* The updates that the channel holds
Sent(l) == {l.chan[i].update : i \in {j \in DOMAIN l.chan : l.chan[j].type = "update"}}

\* The update that the source is about to send
Put(l) == IF l.main.stage = "put" /\ ~l.main.discarded THEN {l.main.update} ELSE {}

Flight(l) == Queued(l) \cup Sent(l) \cup Put(l)

Stamp(msg) == IF msg.type = "update" THEN msg.update.item.ut ELSE msg.time

\* Times grow along the link.
OrderOK(l) ==
    /\ \A i, j \in DOMAIN l.queue : i < j => l.queue[i].item.ut < l.queue[j].item.ut
    /\ \A i, j \in DOMAIN l.chan :
        i < j /\ l.chan[j].type = "update" => Stamp(l.chan[i]) < Stamp(l.chan[j])
    /\ \A i \in DOMAIN l.queue : \A u \in Sent(l) \cup Put(l) : l.queue[i].item.ut < u.item.ut
    /\ \A i \in DOMAIN l.chan : \A u \in Put(l) : Stamp(l.chan[i]) < u.item.ut
    /\ \A i \in DOMAIN l.chan : Stamp(l.chan[i]) <= l.clock
    /\ \A i \in DOMAIN l.queue : l.queue[i].item.ut <= l.clock
    /\ \A u \in Put(l) : 0 < u.item.ut /\ u.item.ut <= l.clock
    /\ \A t \in l.beats : t <= l.clock
    /\ l.vv <= l.clock

\* What is in flight comes from the source, and what has arrived is older.
SourceOK(w, s, l) ==
    /\ \A u \in Flight(l) :
        u.item.sr = s /\ s \in w[u.key] /\ u.item \in Members(l.source[u.key])
    /\ \A i \in DOMAIN l.queue : l.queue[i].item.sr = s
    /\ \A k \in Key : \A item \in Members(l.store[k]) : item.sr = s =>
        /\ item \in Members(l.source[k])
        /\ item.ut <= l.clock
        /\ \A u \in Flight(l) : item.ut < u.item.ut

\* With one core neither a heartbeat nor the version vector is ahead of what
\* is in flight.
CoreOK(single, l) ==
    single =>
        /\ \A u \in Sent(l) \cup Put(l) : l.vv < u.item.ut /\ \A t \in l.beats : t < u.item.ut
        /\ l.work.stage # "idle" => l.beats = {} /\ \A u \in Queued(l) : l.vv < u.item.ut

\* Every version of the source has arrived, or a newer one, or is in flight.
CoverOK(s, l) ==
    \A k \in Key : \A item \in Members(l.source[k]) : item.sr = s =>
        \/ \E other \in Members(l.store[k]) : ~Older(other, item)
        \/ \E u \in Flight(l) : u.key = k /\ u.item = item

\* The chain of an update is at the head of the queue and holds the lock.
ChainOK(l) ==
    /\ l.work.stage # "idle" => l.queue # <<>> /\ Head(l.queue) = l.work.update
    /\ (l.work.stage = "unlocking") <=> (l.rlock = "update")

\* before is what a version of k with time t replaced at the source: the last
\* one in flight, or what the replica has when none is.
Replaced(l, k, before, t) ==
    /\ \/ before = Latest(l.store[k])
       \/ \E u \in Flight(l) : u.key = k /\ u.item = before
    /\ \A u \in Flight(l) : u.key = k /\ u.item.ut < t => u.item.ut <= before.ut
    /\ Latest(l.store[k]).ut <= before.ut
    /\ before.ut < t

ReplacedOK(w, s, l) ==
    \A k \in Key : s \in w[k] =>
        /\ \A u \in Flight(l) : u.key = k => Replaced(l, k, u.previous, u.item.ut)
        /\ Replaced(l, k, Latest(l.source[k]), l.clock + 1)

OneWriter(w) == \A k \in Key : \A a, b \in w[k] : a = b

\* gr leaves no update in a queue when none conflict, grv never does.
ServedOK(z, l) ==
    z.protocol = "grv" \/ OneWriter(z.writers) => (l.queue # <<>> => l.work.stage # "idle")

FlightOK(z, s, l) ==
    /\ OrderOK(l)
    /\ SourceOK(z.writers, s, l)
    /\ CoreOK(z.single_core, l)
    /\ CoverOK(s, l)
    /\ ChainOK(l)
    /\ z.protocol = "gr" /\ OneWriter(z.writers) => ReplacedOK(z.writers, s, l)

LinkOK(z, s, l) == FlightOK(z, s, l) /\ ServedOK(z, l)

\* The inductive invariant
IInv ==
    /\ Types
    /\ \A r \in Replica : ReplicaOK(r)
    /\ \A r, s \in Replica : r # s => LinkOK(setting, s, Link(r, s))

-----------------------------------------------------------------------------
(***************************************************************************)
(* Data                                                                    *)
(***************************************************************************)
\* Times are numbers.
LEMMA TimeFacts ==
    /\ MaxTime \in Nat /\ 0 \in Time
    /\ \A t \in Time : t \in Int /\ t \in Nat /\ 0 <= t
    /\ Replica \subseteq Nat
  BY ReplicationAssumption DEF Time, Replica

\* The fields of versions, updates and messages
LEMMA FieldFacts ==
    /\ \A i \in Item : i.ut \in Time /\ i.ut \in Int /\ 0 <= i.ut /\ i.sr \in Replica /\ i.sr \in Int
    /\ \A u \in Update : u.key \in Key /\ u.item \in Item /\ u.previous \in Item
    /\ \A u \in Update : u.item.ut \in Int /\ u.item.ut \in Time
<1>1. \A i \in Item : i.ut \in Time /\ i.sr \in Replica
  BY DEF Item
<1>2. \A t \in Time : t \in Int /\ 0 <= t
  BY TimeFacts
<1>3. \A s \in Replica : s \in Int
  BY TimeFacts
<1>4. \A u \in Update : u.key \in Key /\ u.item \in Item /\ u.previous \in Item
  BY DEF Update
<1> QED  BY <1>1, <1>2, <1>3, <1>4

\* A message is an update or a heartbeat and has a time.
LEMMA MessageFacts ==
    /\ \A m \in Message : m.type \in {"update", "heartbeat"} /\ Stamp(m) \in Time /\ Stamp(m) \in Int
    /\ \A m \in Message : m.type = "update" => m.update \in Update /\ Stamp(m) = m.update.item.ut
    /\ \A m \in Message : m.type = "heartbeat" => m.time \in Time /\ Stamp(m) = m.time
    /\ \A u \in Update :
        /\ UpdateMsg(u) \in Message /\ UpdateMsg(u).type = "update"
        /\ UpdateMsg(u).update = u /\ Stamp(UpdateMsg(u)) = u.item.ut
    /\ \A t \in Time :
        /\ HeartbeatMsg(t) \in Message /\ HeartbeatMsg(t).type = "heartbeat"
        /\ HeartbeatMsg(t).time = t /\ Stamp(HeartbeatMsg(t)) = t
<1>1. ASSUME NEW m \in Message
      PROVE  /\ m.type \in {"update", "heartbeat"}
             /\ m.type = "update" => m.update \in Update
             /\ m.type = "heartbeat" => m.time \in Time
  BY DEF Message
<1>2. ASSUME NEW m \in Message, m.type = "update"
      PROVE  Stamp(m) = m.update.item.ut /\ Stamp(m) \in Time /\ Stamp(m) \in Int
  BY <1>1, <1>2, FieldFacts DEF Stamp
<1>3. ASSUME NEW m \in Message, m.type = "heartbeat"
      PROVE  Stamp(m) = m.time /\ Stamp(m) \in Time /\ Stamp(m) \in Int
  BY <1>1, <1>3, TimeFacts DEF Stamp
<1>4. \A u \in Update :
        /\ UpdateMsg(u) \in Message /\ UpdateMsg(u).type = "update"
        /\ UpdateMsg(u).update = u /\ Stamp(UpdateMsg(u)) = u.item.ut
  BY DEF UpdateMsg, Message, Stamp
<1>5. \A t \in Time :
        /\ HeartbeatMsg(t) \in Message /\ HeartbeatMsg(t).type = "heartbeat"
        /\ HeartbeatMsg(t).time = t /\ Stamp(HeartbeatMsg(t)) = t
  BY DEF HeartbeatMsg, Message, Stamp
<1> QED  BY <1>1, <1>2, <1>3, <1>4, <1>5

\* The latest version of a chain is one of it, or none.
LEMMA LatestIs ==
    ASSUME NEW chain \in Seq(Item)
    PROVE  /\ Latest(chain) \in Item /\ Latest(chain).ut \in Int
           /\ chain = <<>> => Latest(chain).ut = 0 /\ Members(chain) = {}
           /\ chain # <<>> => Latest(chain) = chain[1] /\ Latest(chain) \in Members(chain)
           /\ Members(chain) \subseteq Item
<1>1. NoItem \in Item /\ NoItem.ut = 0
  BY TimeFacts, ReplicationAssumption DEF NoItem, Item, Replica
<1>2. CASE chain = <<>>
  <2>1. Latest(chain) = NoItem
    BY <1>2 DEF Latest
  <2> QED  BY <1>1, <1>2, <2>1, FieldFacts DEF Members
<1>3. CASE chain # <<>>
  <2>1. 1 \in DOMAIN chain /\ Head(chain) = chain[1] /\ chain[1] \in Item
    BY <1>3
  <2>2. Latest(chain) = chain[1]
    BY <1>3, <2>1 DEF Latest
  <2>3. \A i \in DOMAIN chain : chain[i] \in Item
    OBVIOUS
  <2> QED  BY <1>3, <2>1, <2>2, <2>3, FieldFacts DEF Members
<1> QED  BY <1>2, <1>3

\* Nothing in a sorted chain is newer than its latest version.
LEMMA LatestIsNewest ==
    ASSUME NEW chain \in Seq(Item), Sorted(chain), NEW item \in Members(chain)
    PROVE  item.ut <= Latest(chain).ut /\ chain # <<>>
<1>1. PICK i \in DOMAIN chain : item = chain[i]
  BY DEF Members
<1>2. chain # <<>> /\ 1 \in DOMAIN chain /\ i \in Nat /\ 1 <= i
  BY <1>1
<1>3. Latest(chain) = chain[1]
  BY <1>2, LatestIs
<1>4. item \in Item /\ item.ut \in Int
  BY LatestIs, FieldFacts
<1>5. CASE i = 1
  BY <1>1, <1>2, <1>3, <1>4, <1>5
<1>6. CASE i # 1
  BY <1>1, <1>2, <1>3, <1>6 DEF Sorted
<1> QED  BY <1>5, <1>6, <1>2

\* gr_put_value drops the version or puts it in front.
LEMMA PutValueIs ==
    ASSUME NEW chain \in Seq(Item), NEW item \in Item
    PROVE  LET new == PutValue(chain, item)
           IN  /\ new \in Seq(Item)
               /\ \/ new = chain /\ chain # <<>> /\ Latest(chain).ut > item.ut
                  \/ /\ new # chain /\ new = <<item>> \o chain
                     /\ Members(new) = Members(chain) \cup {item}
                     /\ Latest(new) = item
                     /\ chain = <<>> \/ Latest(chain).ut <= item.ut
<1> DEFINE new == PutValue(chain, item)
<1>1. CASE chain # <<>> /\ Head(chain).ut > item.ut
  BY <1>1 DEF PutValue, Latest
<1>2. CASE ~(chain # <<>> /\ Head(chain).ut > item.ut)
  <2>1. new = <<item>> \o chain
    BY <1>2 DEF PutValue
  <2>2. /\ new \in Seq(Item) /\ Len(new) = Len(chain) + 1 /\ new[1] = item /\ 1 \in DOMAIN new
        /\ \A i \in DOMAIN chain : i + 1 \in DOMAIN new /\ new[i + 1] = chain[i]
        /\ \A i \in DOMAIN new : i # 1 => i - 1 \in DOMAIN chain /\ new[i] = chain[i - 1]
    BY <2>1
  <2>3. new # chain /\ new # <<>>
    BY <2>2
  <2>4. Latest(new) = item
    BY <2>2, <2>3, LatestIs
  <2>5. Members(new) = Members(chain) \cup {item}
    <3>1. ASSUME NEW x \in Members(new) PROVE x \in Members(chain) \cup {item}
      <4>1. PICK i \in DOMAIN new : x = new[i]
        BY <3>1 DEF Members
      <4>2. CASE i = 1
        BY <2>2, <4>1, <4>2
      <4>3. CASE i # 1
        BY <2>2, <4>1, <4>3 DEF Members
      <4> QED  BY <4>2, <4>3
    <3>2. ASSUME NEW x \in Members(chain) PROVE x \in Members(new)
      BY <2>2 DEF Members
    <3>3. item \in Members(new)
      BY <2>2 DEF Members
    <3> QED  BY <3>1, <3>2, <3>3
  <2>6. chain = <<>> \/ Latest(chain).ut <= item.ut
    <3>1. item.ut \in Int /\ Latest(chain).ut \in Int
      BY LatestIs, FieldFacts
    <3> QED  BY <1>2, <3>1 DEF Latest
  <2> QED  BY <2>1, <2>2, <2>3, <2>4, <2>5, <2>6
<1> QED  BY <1>1, <1>2

\* It adds at most the version.
LEMMA PutMembers ==
    ASSUME NEW chain \in Seq(Item), NEW item \in Item
    PROVE  /\ PutValue(chain, item) \in Seq(Item)
           /\ \A x \in Members(PutValue(chain, item)) : x \in Members(chain) \/ x = item
<1> DEFINE new == PutValue(chain, item)
<1>1. new = chain \/ Members(new) = Members(chain) \cup {item}
  BY PutValueIs
<1>2. new \in Seq(Item)
  BY PutValueIs
<1> HIDE DEF new
<1> QED  BY <1>1, <1>2 DEF new

\* It keeps a chain sorted when the version is not there yet.
LEMMA PutSorted ==
    ASSUME NEW chain \in Seq(Item), Sorted(chain), NEW item \in Item, item \notin Members(chain)
    PROVE  Sorted(PutValue(chain, item))
<1> DEFINE new == PutValue(chain, item)
<1>1. CASE new = chain
  BY <1>1
<1>2. CASE new = <<item>> \o chain /\ (chain = <<>> \/ Latest(chain).ut <= item.ut)
  <2>1. /\ new[1] = item /\ DOMAIN new \subseteq Nat /\ 0 \notin DOMAIN new
        /\ \A i \in DOMAIN new : i # 1 => i - 1 \in DOMAIN chain /\ new[i] = chain[i - 1]
    BY <1>2
  <2> SUFFICES ASSUME NEW i \in DOMAIN new, NEW j \in DOMAIN new, i < j
               PROVE  new[j].ut <= new[i].ut /\ new[j] # new[i]
    BY DEF Sorted
  <2>2. j # 1 /\ j - 1 \in DOMAIN chain /\ new[j] = chain[j - 1]
    BY <2>1
  <2>3. CASE i = 1
    <3>1. new[j] \in Members(chain)
      BY <2>2 DEF Members
    <3>2. new[j].ut <= Latest(chain).ut /\ chain # <<>>
      BY <3>1, LatestIsNewest
    <3>3. new[j].ut \in Int /\ Latest(chain).ut \in Int /\ item.ut \in Int
      BY <3>1, LatestIs, FieldFacts
    <3>4. new[j].ut <= item.ut
      BY <1>2, <3>2, <3>3
    <3> QED  BY <2>1, <2>3, <3>1, <3>4
  <2>4. CASE i # 1
    <3>1. i - 1 \in DOMAIN chain /\ new[i] = chain[i - 1] /\ i - 1 < j - 1
      BY <2>1, <2>4
    <3> QED  BY <2>2, <3>1 DEF Sorted
  <2> QED  BY <2>3, <2>4
<1> HIDE DEF new
<1>3. \/ new = chain
      \/ new = <<item>> \o chain /\ (chain = <<>> \/ Latest(chain).ut <= item.ut)
  BY PutValueIs DEF new
<1> QED  BY <1>1, <1>2, <1>3 DEF new

\* Older is a strict order on the times and the replicas.
LEMMA OlderIs ==
    ASSUME NEW a \in Item, NEW b \in Item
    PROVE  /\ ~Older(a, a)
           /\ Older(a, b) => ~Older(b, a)
           /\ ~Older(a, b) => b.ut <= a.ut
           /\ b.ut < a.ut => ~Older(a, b)
<1>1. a.ut \in Int /\ b.ut \in Int /\ a.sr \in Int /\ b.sr \in Int
  BY FieldFacts
<1> QED  BY <1>1 DEF Older

-----------------------------------------------------------------------------
(***************************************************************************)
(* What a step may do to a link                                            *)
(***************************************************************************)
LinkType(l) ==
    /\ l.clock \in Time /\ l.vv \in Time /\ l.beats \subseteq Time
    /\ l.main \in {Idle} \cup PutMain \cup TickMain
    /\ l.source \in [Key -> Seq(Item)] /\ l.store \in [Key -> Seq(Item)]
    /\ l.chan \in Seq(Message) /\ l.queue \in Seq(Update)
    /\ l.work \in {Idle} \cup OpenChain

\* The types of what is in flight
LEMMA LinkFacts ==
    ASSUME NEW l, LinkType(l)
    PROVE  /\ Queued(l) \subseteq Update /\ Sent(l) \subseteq Update
           /\ Put(l) \subseteq Update /\ Flight(l) \subseteq Update
           /\ \A u \in Flight(l) : u \in Update /\ u.item \in Item /\ u.item.ut \in Int
           /\ \A i \in DOMAIN l.chan :
                l.chan[i] \in Message /\ Stamp(l.chan[i]) \in Int
           /\ \A i \in DOMAIN l.queue : l.queue[i] \in Update /\ l.queue[i].item.ut \in Int
           /\ DOMAIN l.queue \subseteq Nat \ {0} /\ DOMAIN l.chan \subseteq Nat \ {0}
           /\ l.clock \in Int /\ l.vv \in Int /\ \A t \in l.beats : t \in Int
           /\ \A k \in Key : l.source[k] \in Seq(Item) /\ l.store[k] \in Seq(Item)
<1>1. \A i \in DOMAIN l.queue : l.queue[i] \in Update
  BY DEF LinkType
<1>2. \A i \in DOMAIN l.chan : l.chan[i] \in Message
  BY DEF LinkType
<1>3. DOMAIN l.queue \subseteq Nat \ {0} /\ DOMAIN l.chan \subseteq Nat \ {0}
  BY DEF LinkType
<1>4. Queued(l) \subseteq Update
  BY <1>1 DEF Queued
<1>5. Sent(l) \subseteq Update
  BY <1>2, MessageFacts DEF Sent
<1>6. Put(l) \subseteq Update
  <2>1. l.main.stage = "put" => l.main \in PutMain
    BY DEF LinkType, Idle, TickMain
  <2> QED  BY <2>1 DEF Put, PutMain
<1>7. Flight(l) \subseteq Update
  BY <1>4, <1>5, <1>6 DEF Flight
<1>8. \A i \in DOMAIN l.chan : l.chan[i] \in Message /\ Stamp(l.chan[i]) \in Int
  BY <1>2, MessageFacts
<1>9. l.clock \in Int /\ l.vv \in Int /\ \A t \in l.beats : t \in Int
  BY TimeFacts DEF LinkType
<1>10. \A u \in Flight(l) : u \in Update /\ u.item \in Item /\ u.item.ut \in Int
  BY <1>7, FieldFacts
<1>11. \A i \in DOMAIN l.queue : l.queue[i] \in Update /\ l.queue[i].item.ut \in Int
  BY <1>1, FieldFacts
<1>12. \A k \in Key : l.source[k] \in Seq(Item) /\ l.store[k] \in Seq(Item)
  BY DEF LinkType
<1> QED  BY <1>3, <1>4, <1>5, <1>6, <1>7, <1>8, <1>9, <1>10, <1>11, <1>12

\* The elements of what is in flight
LEMMA FlightIs ==
    ASSUME NEW l
    PROVE  /\ \A u : u \in Queued(l) <=>
                \E i \in DOMAIN l.queue : (l.work.stage = "unlocking" => i # 1) /\ u = l.queue[i]
           /\ \A u : u \in Sent(l) <=>
                \E i \in DOMAIN l.chan : l.chan[i].type = "update" /\ u = l.chan[i].update
           /\ \A u : u \in Flight(l) <=> u \in Queued(l) \/ u \in Sent(l) \/ u \in Put(l)
  BY DEF Queued, Sent, Flight

\* Nothing in flight is ahead of the clock of the source.
LEMMA FlightBelowClock ==
    ASSUME NEW l, LinkType(l), OrderOK(l), NEW u \in Flight(l)
    PROVE  u.item.ut <= l.clock
<1>1. CASE u \in Queued(l)
  BY <1>1, FlightIs DEF OrderOK
<1>2. CASE u \in Sent(l)
  <2>1. PICK i \in DOMAIN l.chan : l.chan[i].type = "update" /\ u = l.chan[i].update
    BY <1>2, FlightIs
  <2>2. Stamp(l.chan[i]) = u.item.ut
    BY <2>1 DEF Stamp
  <2> QED  BY <2>2 DEF OrderOK
<1>3. CASE u \in Put(l)
  BY <1>3 DEF OrderOK
<1> QED  BY <1>1, <1>2, <1>3, FlightIs

\* A step that only moves what is in flight, or the clock of the source
LEMMA SameFlight ==
    ASSUME NEW z, NEW s, NEW l, NEW m, LinkType(l), LinkType(m), FlightOK(z, s, l),
           m.source = l.source, m.store = l.store, Flight(m) = Flight(l),
           l.clock <= m.clock,
           \A i \in DOMAIN m.queue : m.queue[i].item.sr = s
    PROVE  /\ SourceOK(z.writers, s, m) /\ CoverOK(s, m)
           /\ z.protocol = "gr" /\ OneWriter(z.writers) => ReplacedOK(z.writers, s, m)
<1>1. SourceOK(z.writers, s, l) /\ CoverOK(s, l) /\ OrderOK(l)
  BY DEF FlightOK
<1>2. l.clock \in Int /\ m.clock \in Int
  BY LinkFacts
<1>3. SourceOK(z.writers, s, m)
  <2>1. ASSUME NEW k \in Key, NEW item \in Members(l.store[k]), item.sr = s
        PROVE  item.ut <= m.clock
    <3>1. item.ut <= l.clock
      BY <1>1, <2>1 DEF SourceOK
    <3>2. item.ut \in Int
      BY LinkFacts, LatestIs, FieldFacts
    <3> QED  BY <1>2, <3>1, <3>2
  <2> QED  BY <1>1, <2>1 DEF SourceOK
<1>4. CoverOK(s, m)
  BY <1>1 DEF CoverOK
<1>5. ASSUME z.protocol = "gr", OneWriter(z.writers) PROVE ReplacedOK(z.writers, s, m)
  <2>1. ReplacedOK(z.writers, s, l)
    BY <1>5 DEF FlightOK
  <2> SUFFICES ASSUME NEW k \in Key, s \in z.writers[k]
               PROVE  /\ \A u \in Flight(m) : u.key = k => Replaced(m, k, u.previous, u.item.ut)
                      /\ Replaced(m, k, Latest(m.source[k]), m.clock + 1)
    BY DEF ReplacedOK
  <2>2. \A u \in Flight(m) : u.key = k => Replaced(m, k, u.previous, u.item.ut)
    BY <2>1 DEF ReplacedOK, Replaced
  <2>3. Replaced(l, k, Latest(l.source[k]), l.clock + 1)
    BY <2>1 DEF ReplacedOK
  <2> DEFINE top == Latest(l.source[k])
  <2>4. top.ut \in Int
    BY LinkFacts, LatestIs
  <2> HIDE DEF top
  <2>5. top.ut < m.clock + 1
    BY <1>2, <2>3, <2>4 DEF Replaced, top
  <2>6. \A u \in Flight(l) : u.item.ut < l.clock + 1
    <3> TAKE u \in Flight(l)
    <3>1. u.item.ut <= l.clock /\ u.item.ut \in Int
      BY <1>1, FlightBelowClock, LinkFacts
    <3> QED  BY <1>2, <3>1
  <2>7. Replaced(m, k, top, m.clock + 1)
    BY <2>3, <2>5, <2>6 DEF Replaced, top
  <2> QED  BY <2>2, <2>7 DEF top
<1> QED  BY <1>3, <1>4, <1>5

\* The clock of the source moves on.
LEMMA ClockGrows ==
    ASSUME NEW z, NEW s, NEW l, NEW m, LinkType(l), LinkType(m), LinkOK(z, s, l),
           l.clock <= m.clock, Put(m) = Put(l),
           m.source = l.source, m.store = l.store, m.chan = l.chan, m.queue = l.queue,
           m.work = l.work, m.beats = l.beats, m.rlock = l.rlock, m.vv = l.vv
    PROVE  LinkOK(z, s, m)
<1>1. FlightOK(z, s, l) /\ ServedOK(z, l)
  BY DEF LinkOK
<1>2. OrderOK(l) /\ CoreOK(z.single_core, l) /\ ChainOK(l) /\ SourceOK(z.writers, s, l)
  BY <1>1 DEF FlightOK
<1>3. Sent(m) = Sent(l) /\ Queued(m) = Queued(l)
  BY DEF Sent, Queued
<1>4. Flight(m) = Flight(l)
  BY <1>3 DEF Flight
<1>5. \A i \in DOMAIN m.queue : m.queue[i].item.sr = s
  BY <1>2 DEF SourceOK
<1>6. \A t \in Int : t <= l.clock => t <= m.clock
  BY LinkFacts
<1>7. OrderOK(m)
  <2>1. \A u \in Put(l) : u.item.ut \in Int
    BY LinkFacts DEF Flight
  <2> QED  BY <1>2, <1>3, <1>6, <2>1, LinkFacts DEF OrderOK
<1>8. CoreOK(z.single_core, m) /\ ChainOK(m) /\ ServedOK(z, m)
  BY <1>1, <1>2, <1>3 DEF CoreOK, ChainOK, ServedOK
<1> QED  BY <1>1, <1>4, <1>5, <1>7, <1>8, SameFlight DEF FlightOK, LinkOK

\* The source sends a heartbeat.
LEMMA HeartbeatSent ==
    ASSUME NEW z, NEW s, NEW l, NEW m, LinkType(l), LinkType(m), LinkOK(z, s, l),
           l.clock <= m.clock, Put(m) = Put(l),
           NEW t \in Time, t <= m.clock, t = 0 \/ Put(l) = {},
           m.chan = Append(l.chan, HeartbeatMsg(t)),
           m.source = l.source, m.store = l.store, m.queue = l.queue,
           m.work = l.work, m.beats = l.beats, m.rlock = l.rlock, m.vv = l.vv
    PROVE  LinkOK(z, s, m)
<1>1. FlightOK(z, s, l) /\ ServedOK(z, l)
  BY DEF LinkOK
<1>2. OrderOK(l) /\ CoreOK(z.single_core, l) /\ ChainOK(l) /\ SourceOK(z.writers, s, l)
  BY <1>1 DEF FlightOK
<1> DEFINE msg == HeartbeatMsg(t)
           n == Len(l.chan) + 1
<1>3. msg \in Message /\ msg.type = "heartbeat" /\ Stamp(msg) = t
  BY MessageFacts
<1> HIDE DEF msg
<1>4. /\ n \in DOMAIN m.chan /\ m.chan[n] = msg
      /\ \A i \in DOMAIN l.chan : i \in DOMAIN m.chan /\ m.chan[i] = l.chan[i] /\ i < n
      /\ \A i \in DOMAIN m.chan : i = n \/ (i \in DOMAIN l.chan /\ m.chan[i] = l.chan[i])
      /\ \A i \in DOMAIN m.chan : ~(n < i)
  BY DEF LinkType, msg
<1> HIDE DEF n
<1>5. Sent(m) = Sent(l)
  <2>1. ASSUME NEW u \in Sent(m) PROVE u \in Sent(l)
    BY <1>3, <1>4, FlightIs
  <2>2. ASSUME NEW u \in Sent(l) PROVE u \in Sent(m)
    BY <1>4, FlightIs
  <2> QED  BY <2>1, <2>2
<1>6. Queued(m) = Queued(l)
  BY DEF Queued
<1>7. Flight(m) = Flight(l)
  BY <1>5, <1>6 DEF Flight
<1>8. \A i \in DOMAIN m.queue : m.queue[i].item.sr = s
  BY <1>2 DEF SourceOK
<1>9. \A c \in Int : c <= l.clock => c <= m.clock
  BY LinkFacts
<1>10. OrderOK(m)
  <2>1. \A i, j \in DOMAIN m.chan :
            i < j /\ m.chan[j].type = "update" => Stamp(m.chan[i]) < Stamp(m.chan[j])
    <3> SUFFICES ASSUME NEW i \in DOMAIN m.chan, NEW j \in DOMAIN m.chan,
                        i < j, m.chan[j].type = "update"
                 PROVE  Stamp(m.chan[i]) < Stamp(m.chan[j])
      OBVIOUS
    <3>1. j # n /\ j \in DOMAIN l.chan /\ m.chan[j] = l.chan[j]
      BY <1>3, <1>4
    <3>2. i # n
      BY <1>4
    <3>3. i \in DOMAIN l.chan /\ m.chan[i] = l.chan[i]
      BY <1>4, <3>2
    <3> QED  BY <1>2, <3>1, <3>3 DEF OrderOK
  <2>2. \A i \in DOMAIN m.chan : \A u \in Put(m) : Stamp(m.chan[i]) < u.item.ut
    BY <1>2, <1>3, <1>4 DEF OrderOK
  <2>3. \A i \in DOMAIN m.chan : Stamp(m.chan[i]) <= m.clock
    <3> TAKE i \in DOMAIN m.chan
    <3>1. CASE i = n
      BY <1>3, <1>4, <3>1
    <3>2. CASE i # n
      <4>1. i \in DOMAIN l.chan /\ m.chan[i] = l.chan[i]
        BY <1>4, <3>2
      <4>2. Stamp(l.chan[i]) <= l.clock /\ Stamp(l.chan[i]) \in Int
        BY <1>2, <4>1, LinkFacts DEF OrderOK
      <4> QED  BY <1>9, <4>1, <4>2
    <3> QED  BY <3>1, <3>2
  <2>4. \A u \in Put(l) : u.item.ut \in Int
    BY LinkFacts DEF Flight
  <2> QED  BY <1>2, <1>5, <1>9, <2>1, <2>2, <2>3, <2>4, LinkFacts DEF OrderOK
<1>11. CoreOK(z.single_core, m) /\ ChainOK(m) /\ ServedOK(z, m)
  BY <1>1, <1>2, <1>5, <1>6 DEF CoreOK, ChainOK, ServedOK
<1> QED  BY <1>1, <1>7, <1>8, <1>10, <1>11, SameFlight DEF FlightOK, LinkOK

\* The source sends the update of its put.
LEMMA UpdateSent ==
    ASSUME NEW z, NEW s, NEW l, NEW m, LinkType(l), LinkType(m), LinkOK(z, s, l),
           NEW u \in Update, Put(l) = {u}, Put(m) = {},
           m.chan = Append(l.chan, UpdateMsg(u)), m.clock = l.clock,
           m.source = l.source, m.store = l.store, m.queue = l.queue,
           m.work = l.work, m.beats = l.beats, m.rlock = l.rlock, m.vv = l.vv
    PROVE  LinkOK(z, s, m)
<1>1. FlightOK(z, s, l) /\ ServedOK(z, l)
  BY DEF LinkOK
<1>2. OrderOK(l) /\ CoreOK(z.single_core, l) /\ ChainOK(l) /\ SourceOK(z.writers, s, l)
  BY <1>1 DEF FlightOK
<1> DEFINE msg == UpdateMsg(u)
           n == Len(l.chan) + 1
<1>3. msg \in Message /\ msg.type = "update" /\ msg.update = u /\ Stamp(msg) = u.item.ut
  BY MessageFacts
<1> HIDE DEF msg
<1>4. /\ n \in DOMAIN m.chan /\ m.chan[n] = msg
      /\ \A i \in DOMAIN l.chan : i \in DOMAIN m.chan /\ m.chan[i] = l.chan[i] /\ i < n
      /\ \A i \in DOMAIN m.chan : i = n \/ (i \in DOMAIN l.chan /\ m.chan[i] = l.chan[i])
      /\ \A i \in DOMAIN m.chan : ~(n < i)
  BY DEF LinkType, msg
<1> HIDE DEF n
<1>5. Sent(m) = Sent(l) \cup {u}
  <2>1. ASSUME NEW w \in Sent(m) PROVE w \in Sent(l) \cup {u}
    <3>1. PICK i \in DOMAIN m.chan : m.chan[i].type = "update" /\ w = m.chan[i].update
      BY FlightIs
    <3>2. CASE i = n
      BY <1>3, <1>4, <3>1, <3>2
    <3>3. CASE i # n
      BY <1>4, <3>1, <3>3, FlightIs
    <3> QED  BY <3>2, <3>3
  <2>2. ASSUME NEW w \in Sent(l) PROVE w \in Sent(m)
    BY <1>4, FlightIs
  <2>3. u \in Sent(m)
    BY <1>3, <1>4, FlightIs
  <2> QED  BY <2>1, <2>2, <2>3
<1>6. Queued(m) = Queued(l)
  BY DEF Queued
<1>7. Flight(m) = Flight(l)
  BY <1>5, <1>6 DEF Flight
<1>8. \A i \in DOMAIN m.queue : m.queue[i].item.sr = s
  BY <1>2 DEF SourceOK
<1>9. OrderOK(m)
  <2>1. \A i, j \in DOMAIN m.chan :
            i < j /\ m.chan[j].type = "update" => Stamp(m.chan[i]) < Stamp(m.chan[j])
    <3> SUFFICES ASSUME NEW i \in DOMAIN m.chan, NEW j \in DOMAIN m.chan,
                        i < j, m.chan[j].type = "update"
                 PROVE  Stamp(m.chan[i]) < Stamp(m.chan[j])
      OBVIOUS
    <3>1. i \in DOMAIN l.chan /\ m.chan[i] = l.chan[i]
      BY <1>4
    <3>2. CASE j = n
      BY <1>2, <1>3, <1>4, <3>1, <3>2 DEF OrderOK
    <3>3. CASE j # n
      <4>1. j \in DOMAIN l.chan /\ m.chan[j] = l.chan[j]
        BY <1>4, <3>3
      <4> QED  BY <1>2, <3>1, <4>1 DEF OrderOK
    <3> QED  BY <3>2, <3>3
  <2>2. \A i \in DOMAIN m.chan : Stamp(m.chan[i]) <= m.clock
    BY <1>2, <1>3, <1>4 DEF OrderOK
  <2> QED  BY <1>2, <1>5, <2>1, <2>2 DEF OrderOK
<1>10. CoreOK(z.single_core, m) /\ ChainOK(m) /\ ServedOK(z, m)
  BY <1>1, <1>2, <1>5, <1>6 DEF CoreOK, ChainOK, ServedOK
<1>11. l.clock <= m.clock
  BY LinkFacts
<1> QED  BY <1>1, <1>7, <1>8, <1>9, <1>10, <1>11, SameFlight DEF FlightOK, LinkOK

\* The source puts a version.
LEMMA PutTaken ==
    ASSUME NEW z, NEW s, NEW l, NEW m, LinkType(l), LinkType(m), LinkOK(z, s, l),
           NEW u \in Update, u.item.sr = s, u.item.ut = m.clock,
           u.previous = Latest(l.source[u.key]), s \in z.writers[u.key],
           l.clock < m.clock, Put(l) = {},
           m.source = [l.source EXCEPT ![u.key] = PutValue(l.source[u.key], u.item)],
           Put(m) = IF PutValue(l.source[u.key], u.item) = l.source[u.key] THEN {} ELSE {u},
           m.store = l.store, m.chan = l.chan, m.queue = l.queue,
           m.work = l.work, m.beats = l.beats, m.rlock = l.rlock, m.vv = l.vv
    PROVE  LinkOK(z, s, m)
<1> DEFINE k == u.key
           c == m.clock
           old == l.source[k]
           new == PutValue(old, u.item)
<1>1. FlightOK(z, s, l) /\ ServedOK(z, l)
  BY DEF LinkOK
<1>2. /\ OrderOK(l) /\ CoreOK(z.single_core, l) /\ ChainOK(l) /\ SourceOK(z.writers, s, l)
      /\ CoverOK(s, l)
  BY <1>1 DEF FlightOK
<1>3. k \in Key /\ u.item \in Item /\ c \in Int /\ l.clock \in Int /\ 0 < c
  <2>1. l.clock \in Time /\ c \in Time
    BY DEF LinkType
  <2>2. l.clock \in Int /\ c \in Int /\ 0 <= l.clock
    BY <2>1, TimeFacts
  <2> QED  BY <2>2, FieldFacts
<1>4. old \in Seq(Item) /\ \A j \in Key : l.source[j] \in Seq(Item)
  BY <1>3, LinkFacts
<1>5. /\ m.source[k] = new /\ \A j \in Key \ {k} : m.source[j] = l.source[j]
  BY <1>3 DEF LinkType
<1>6. \/ new = old /\ Latest(old).ut > u.item.ut
      \/ new # old /\ Members(new) = Members(old) \cup {u.item} /\ Latest(new) = u.item
  BY <1>3, <1>4, PutValueIs
<1>7. Sent(m) = Sent(l) /\ Queued(m) = Queued(l)
  BY DEF Sent, Queued
<1>8. /\ Put(m) = {} \/ Put(m) = {u}
      /\ Put(m) = {u} <=> new # old
  OBVIOUS
<1> HIDE DEF new, old
<1>9. \A v \in Flight(m) : v \in Flight(l) \/ (v = u /\ new # old)
  BY <1>7, <1>8 DEF Flight
<1>10. Flight(l) \subseteq Flight(m) /\ (new # old => u \in Flight(m))
  BY <1>7, <1>8 DEF Flight
<1>11. \A v \in Flight(l) : v.item.ut \in Int /\ v.item.ut <= l.clock /\ v.item.ut < c
  <2> TAKE v \in Flight(l)
  <2>1. v.item.ut \in Int /\ v.item.ut <= l.clock
    BY <1>2, FlightBelowClock, LinkFacts
  <2> QED  BY <1>3, <2>1
<1>12. \A t \in Int : t <= l.clock => t < c /\ t <= c
  BY <1>3
<1>13. \A j \in Key : Members(l.source[j]) \subseteq Members(m.source[j])
  <2> TAKE j \in Key
  <2>1. CASE j = k
    BY <1>5, <1>6, <2>1 DEF old
  <2>2. CASE j # k
    BY <1>5, <2>2
  <2> QED  BY <2>1, <2>2
<1>14. OrderOK(m)
  <2>1. \A i \in DOMAIN l.chan : Stamp(l.chan[i]) < c /\ Stamp(l.chan[i]) <= c
    BY <1>2, <1>12, LinkFacts DEF OrderOK
  <2>2. \A i \in DOMAIN l.queue : l.queue[i].item.ut < c /\ l.queue[i].item.ut <= c
    BY <1>2, <1>12, LinkFacts DEF OrderOK
  <2>3. (\A t \in l.beats : t <= c) /\ l.vv <= c /\ c <= c
    BY <1>2, <1>3, <1>12, LinkFacts DEF OrderOK
  <2> QED  BY <1>2, <1>3, <1>7, <1>8, <2>1, <2>2, <2>3 DEF OrderOK
<1>15. SourceOK(z.writers, s, m)
  <2>1. ASSUME NEW v \in Flight(m)
        PROVE  v.item.sr = s /\ s \in z.writers[v.key] /\ v.item \in Members(m.source[v.key])
    <3>1. CASE v \in Flight(l)
      <4>1. v.key \in Key
        BY <3>1, LinkFacts, FieldFacts
      <4> QED  BY <1>2, <1>13, <3>1, <4>1 DEF SourceOK
    <3>2. CASE v = u /\ new # old
      BY <1>5, <1>6, <3>2
    <3> QED  BY <1>9, <3>1, <3>2
  <2>2. ASSUME NEW j \in Key, NEW item \in Members(l.store[j]), item.sr = s
        PROVE  /\ item \in Members(m.source[j]) /\ item.ut <= c
               /\ \A v \in Flight(m) : item.ut < v.item.ut
    <3>1. /\ item \in Members(l.source[j]) /\ item.ut <= l.clock
          /\ \A v \in Flight(l) : item.ut < v.item.ut
      BY <1>2, <2>2 DEF SourceOK
    <3>2. item.ut \in Int
      BY LinkFacts, LatestIs, FieldFacts
    <3>3. item.ut < c /\ item.ut <= c
      BY <1>12, <3>1, <3>2
    <3> QED  BY <1>9, <1>13, <3>1, <3>3
  <2> QED  BY <1>2, <2>1, <2>2 DEF SourceOK
<1>16. CoreOK(z.single_core, m)
  <2>1. l.vv < c /\ \A t \in l.beats : t < c
    BY <1>2, <1>12, LinkFacts DEF OrderOK
  <2> QED  BY <1>2, <1>7, <1>8, <2>1 DEF CoreOK
<1>17. CoverOK(s, m)
  <2> SUFFICES ASSUME NEW j \in Key, NEW item \in Members(m.source[j]), item.sr = s
               PROVE  \/ \E other \in Members(l.store[j]) : ~Older(other, item)
                      \/ \E v \in Flight(m) : v.key = j /\ v.item = item
    BY DEF CoverOK
  <2>1. CASE item \in Members(l.source[j])
    BY <1>2, <1>10, <2>1 DEF CoverOK
  <2>2. CASE item \notin Members(l.source[j])
    <3>1. j = k /\ item = u.item /\ new # old
      BY <1>5, <1>6, <2>2 DEF old
    <3> QED  BY <1>10, <3>1
  <2> QED  BY <2>1, <2>2
<1>18. ChainOK(m) /\ ServedOK(z, m)
  BY <1>1, <1>2 DEF ChainOK, ServedOK
<1>19. ASSUME z.protocol = "gr", OneWriter(z.writers) PROVE ReplacedOK(z.writers, s, m)
  <2>1. ReplacedOK(z.writers, s, l)
    BY <1>1, <1>19 DEF FlightOK
  <2>2. \A j \in Key : s \in z.writers[j] => Replaced(l, j, Latest(l.source[j]), l.clock + 1)
    BY <2>1 DEF ReplacedOK
  <2>3. \A v \in Flight(l) : v.item.ut < l.clock + 1
    BY <1>3, <1>11
  <2>4. new # old
    <3>1. Replaced(l, k, Latest(old), l.clock + 1)
      BY <1>3, <2>2 DEF old
    <3>2. Latest(old).ut < l.clock + 1 /\ Latest(old).ut \in Int
      BY <1>4, <3>1, LatestIs DEF Replaced
    <3>3. ~(Latest(old).ut > u.item.ut)
      BY <1>3, <3>2
    <3> QED  BY <1>6, <3>3
  <2> SUFFICES ASSUME NEW j \in Key, s \in z.writers[j]
               PROVE  /\ \A v \in Flight(m) : v.key = j => Replaced(m, j, v.previous, v.item.ut)
                      /\ Replaced(m, j, Latest(m.source[j]), c + 1)
    BY DEF ReplacedOK
  <2>5. ASSUME NEW v \in Flight(l), v.key = j
        PROVE  Replaced(m, j, v.previous, v.item.ut)
    <3>1. Replaced(l, j, v.previous, v.item.ut)
      BY <2>1, <2>5 DEF ReplacedOK
    <3>2. ~(c < v.item.ut)
      BY <1>3, <1>11
    <3> QED  BY <1>9, <1>10, <3>1, <3>2 DEF Replaced
  <2> DEFINE top == Latest(l.source[j])
  <2>6. top.ut \in Int /\ top.ut < l.clock + 1 /\ top.ut < c /\ top.ut < c + 1
    <3>1. top.ut \in Int /\ top.ut < l.clock + 1
      BY <1>4, <2>2, LatestIs DEF Replaced
    <3> QED  BY <1>3, <3>1
  <2>7. Latest(l.store[j]).ut \in Int
    BY LinkFacts, LatestIs
  <2> HIDE DEF top
  <2>8. Replaced(l, j, top, l.clock + 1)
    BY <2>2 DEF top
  <2>9. j = k => Replaced(m, j, u.previous, u.item.ut)
    <3> SUFFICES ASSUME j = k PROVE Replaced(m, j, top, c)
      BY DEF top
    <3>1. ~(c < c)
      BY <1>3
    <3> QED  BY <1>9, <1>10, <2>3, <2>6, <2>8, <3>1 DEF Replaced
  <2>10. CASE j = k
    <3>1. Latest(m.source[j]) = u.item
      BY <1>5, <1>6, <2>4, <2>10
    <3>2. Replaced(m, j, u.item, c + 1)
      <4>1. Latest(l.store[j]).ut <= c
        BY <1>3, <2>6, <2>7, <2>8 DEF Replaced
      <4>2. \A v \in Flight(m) : v.item.ut <= c
        BY <1>3, <1>9, <1>11
      <4>3. c < c + 1
        BY <1>3
      <4> QED  BY <1>10, <2>4, <2>10, <4>1, <4>2, <4>3 DEF Replaced
    <3> QED  BY <1>9, <2>5, <2>9, <2>10, <3>1, <3>2
  <2>11. CASE j # k
    <3>1. Latest(m.source[j]) = top
      BY <1>5, <2>11 DEF top
    <3>2. Replaced(m, j, top, c + 1)
      BY <1>9, <1>10, <2>3, <2>6, <2>8, <2>11 DEF Replaced
    <3> QED  BY <1>9, <2>5, <2>11, <3>1, <3>2
  <2> QED  BY <2>10, <2>11
<1> QED  BY <1>14, <1>15, <1>16, <1>17, <1>18, <1>19 DEF FlightOK, LinkOK

\* A version of another source is put at the replica or at the source.
LEMMA OtherPut ==
    ASSUME NEW z, NEW s, NEW l, NEW m, LinkType(l), LinkType(m), LinkOK(z, s, l),
           NEW k \in Key, NEW item \in Item, item.sr # s, item.sr \in z.writers[k],
           \/ /\ m.store = [l.store EXCEPT ![k] = PutValue(l.store[k], item)]
              /\ m.source = l.source
           \/ /\ m.source = [l.source EXCEPT ![k] = PutValue(l.source[k], item)]
              /\ m.store = l.store,
           m.clock = l.clock, Put(m) = Put(l), m.chan = l.chan, m.queue = l.queue,
           m.work = l.work, m.beats = l.beats, m.rlock = l.rlock, m.vv = l.vv
    PROVE  LinkOK(z, s, m)
<1>1. FlightOK(z, s, l) /\ ServedOK(z, l)
  BY DEF LinkOK
<1>2. /\ OrderOK(l) /\ CoreOK(z.single_core, l) /\ ChainOK(l) /\ SourceOK(z.writers, s, l)
      /\ CoverOK(s, l)
  BY <1>1 DEF FlightOK
<1>3. Sent(m) = Sent(l) /\ Queued(m) = Queued(l)
  BY DEF Sent, Queued
<1>4. Flight(m) = Flight(l)
  BY <1>3 DEF Flight
<1>5. \A chain \in Seq(Item) :
        /\ Members(chain) \subseteq Members(PutValue(chain, item))
        /\ Members(PutValue(chain, item)) \subseteq Members(chain) \cup {item}
  BY PutValueIs
<1>6. ASSUME NEW j \in Key
      PROVE  /\ Members(l.store[j]) \subseteq Members(m.store[j])
             /\ Members(m.store[j]) \subseteq Members(l.store[j]) \cup {item}
             /\ Members(l.source[j]) \subseteq Members(m.source[j])
             /\ Members(m.source[j]) \subseteq Members(l.source[j]) \cup {item}
             /\ j # k => m.store[j] = l.store[j] /\ m.source[j] = l.source[j]
  <2>1. l.store[k] \in Seq(Item) /\ l.source[k] \in Seq(Item)
    BY LinkFacts
  <2>2. j # k => m.store[j] = l.store[j] /\ m.source[j] = l.source[j]
    BY DEF LinkType
  <2>3. \/ m.store[k] = PutValue(l.store[k], item) /\ m.source[k] = l.source[k]
        \/ m.source[k] = PutValue(l.source[k], item) /\ m.store[k] = l.store[k]
    BY DEF LinkType
  <2>4. CASE j = k
    BY <1>5, <2>1, <2>3, <2>4
  <2>5. CASE j # k
    BY <2>2, <2>5
  <2> QED  BY <2>2, <2>4, <2>5
<1>7. OrderOK(m) /\ CoreOK(z.single_core, m) /\ ChainOK(m) /\ ServedOK(z, m)
  BY <1>1, <1>2, <1>3 DEF OrderOK, CoreOK, ChainOK, ServedOK
<1>8. SourceOK(z.writers, s, m)
  <2>1. ASSUME NEW v \in Flight(m)
        PROVE  v.item.sr = s /\ s \in z.writers[v.key] /\ v.item \in Members(m.source[v.key])
    <3>1. v.key \in Key
      BY <1>4, LinkFacts, FieldFacts
    <3>2. v.item.sr = s /\ s \in z.writers[v.key] /\ v.item \in Members(l.source[v.key])
      BY <1>2, <1>4 DEF SourceOK
    <3> QED  BY <1>6, <3>1, <3>2
  <2>2. ASSUME NEW j \in Key, NEW i \in Members(m.store[j]), i.sr = s
        PROVE  /\ i \in Members(m.source[j]) /\ i.ut <= m.clock
               /\ \A v \in Flight(m) : i.ut < v.item.ut
    <3>1. i \in Members(l.store[j])
      BY <1>6, <2>2
    <3>2. /\ i \in Members(l.source[j]) /\ i.ut <= l.clock
          /\ \A v \in Flight(l) : i.ut < v.item.ut
      BY <1>2, <2>2, <3>1 DEF SourceOK
    <3> QED  BY <1>4, <1>6, <3>2
  <2>3. \A i \in DOMAIN m.queue : m.queue[i].item.sr = s
    BY <1>2 DEF SourceOK
  <2> QED  BY <2>1, <2>2, <2>3 DEF SourceOK
<1>9. CoverOK(s, m)
  <2> SUFFICES ASSUME NEW j \in Key, NEW i \in Members(m.source[j]), i.sr = s
               PROVE  \/ \E other \in Members(m.store[j]) : ~Older(other, i)
                      \/ \E v \in Flight(m) : v.key = j /\ v.item = i
    BY DEF CoverOK
  <2>1. i \in Members(l.source[j])
    BY <1>6
  <2>2. \/ \E other \in Members(l.store[j]) : ~Older(other, i)
        \/ \E v \in Flight(l) : v.key = j /\ v.item = i
    BY <1>2, <2>1 DEF CoverOK
  <2> QED  BY <1>4, <1>6, <2>2
<1>10. ASSUME z.protocol = "gr", OneWriter(z.writers) PROVE ReplacedOK(z.writers, s, m)
  <2>1. ReplacedOK(z.writers, s, l)
    BY <1>1, <1>10 DEF FlightOK
  <2>2. ASSUME NEW j \in Key, s \in z.writers[j]
        PROVE  m.store[j] = l.store[j] /\ m.source[j] = l.source[j]
    <3>1. j # k
      BY <1>10, <2>2 DEF OneWriter
    <3> QED  BY <1>6, <3>1
  <2> QED  BY <1>4, <2>1, <2>2 DEF ReplacedOK, Replaced
<1> QED  BY <1>7, <1>8, <1>9, <1>10 DEF FlightOK, LinkOK

\* The elements of the rest of a sequence
LEMMA TailIs ==
    ASSUME NEW S, NEW a \in Seq(S), a # <<>>
    PROVE  /\ 1 \in DOMAIN a /\ Head(a) = a[1] /\ a[1] \in S /\ Tail(a) \in Seq(S)
           /\ \A i \in DOMAIN Tail(a) :
                i \in Nat \ {0} /\ i + 1 \in DOMAIN a /\ Tail(a)[i] = a[i + 1]
           /\ \A i \in DOMAIN a : i # 1 =>
                i \in Nat /\ i > 1 /\ i - 1 \in DOMAIN Tail(a) /\ Tail(a)[i - 1] = a[i]
  OBVIOUS

\* The replica takes a heartbeat from the channel.
LEMMA HeartbeatTaken ==
    ASSUME NEW z, NEW s, NEW l, NEW m, LinkType(l), LinkType(m), LinkOK(z, s, l),
           l.chan # <<>>, Head(l.chan).type = "heartbeat", m.chan = Tail(l.chan),
           m.beats \subseteq l.beats \cup {Head(l.chan).time},
           z.single_core => l.work.stage = "idle",
           m.clock = l.clock, Put(m) = Put(l), m.source = l.source, m.store = l.store,
           m.queue = l.queue, m.work = l.work, m.rlock = l.rlock, m.vv = l.vv
    PROVE  LinkOK(z, s, m)
<1> DEFINE t == Head(l.chan).time
<1>1. FlightOK(z, s, l) /\ ServedOK(z, l)
  BY DEF LinkOK
<1>2. OrderOK(l) /\ CoreOK(z.single_core, l) /\ ChainOK(l) /\ SourceOK(z.writers, s, l)
  BY <1>1 DEF FlightOK
<1>3. /\ 1 \in DOMAIN l.chan /\ l.chan[1].type = "heartbeat" /\ t = Stamp(l.chan[1])
      /\ \A i \in DOMAIN m.chan :
            i \in Nat \ {0} /\ i + 1 \in DOMAIN l.chan /\ m.chan[i] = l.chan[i + 1]
      /\ \A i \in DOMAIN l.chan :
            i # 1 => i \in Nat /\ i > 1 /\ i - 1 \in DOMAIN m.chan /\ m.chan[i - 1] = l.chan[i]
  <2>1. l.chan \in Seq(Message)
    BY DEF LinkType
  <2>2. 1 \in DOMAIN l.chan /\ Head(l.chan) = l.chan[1]
    BY <2>1
  <2> QED  BY <2>1, <2>2, TailIs DEF Stamp
<1> HIDE DEF t
<1>4. Sent(m) = Sent(l)
  <2>1. ASSUME NEW u \in Sent(m) PROVE u \in Sent(l)
    <3>1. PICK i \in DOMAIN m.chan : m.chan[i].type = "update" /\ u = m.chan[i].update
      BY ONLY <2>1, FlightIs
    <3>2. i + 1 \in DOMAIN l.chan /\ m.chan[i] = l.chan[i + 1]
      BY <1>3
    <3>3. l.chan[i + 1].type = "update" /\ u = l.chan[i + 1].update
      BY <3>1, <3>2
    <3> QED  BY <3>2, <3>3, FlightIs
  <2>2. ASSUME NEW u \in Sent(l) PROVE u \in Sent(m)
    <3>1. PICK i \in DOMAIN l.chan : l.chan[i].type = "update" /\ u = l.chan[i].update
      BY FlightIs
    <3>2. i # 1
      BY <1>3, <3>1
    <3>3. i - 1 \in DOMAIN m.chan /\ m.chan[i - 1] = l.chan[i]
      BY <1>3, <3>2
    <3>4. m.chan[i - 1].type = "update" /\ u = m.chan[i - 1].update
      BY <3>1, <3>3
    <3> QED  BY <3>3, <3>4, FlightIs
  <2> QED  BY <2>1, <2>2
<1>5. Queued(m) = Queued(l)
  BY DEF Queued
<1>6. Flight(m) = Flight(l)
  BY <1>4, <1>5 DEF Flight
<1>7. \A u \in Sent(l) \cup Put(l) : t < u.item.ut
  <2>1. ASSUME NEW u \in Sent(l) PROVE t < u.item.ut
    <3>1. PICK i \in DOMAIN l.chan : l.chan[i].type = "update" /\ u = l.chan[i].update
      BY FlightIs
    <3>2. i # 1 /\ 1 < i
      BY <1>3, <3>1
    <3>3. Stamp(l.chan[1]) < Stamp(l.chan[i])
      BY <1>2, <1>3, <3>1, <3>2 DEF OrderOK
    <3> QED  BY <1>3, <3>1, <3>3 DEF Stamp
  <2>2. ASSUME NEW u \in Put(l) PROVE t < u.item.ut
    BY <1>2, <1>3 DEF OrderOK
  <2> QED  BY <2>1, <2>2
<1>8. OrderOK(m)
  <2>1. \A i, j \in DOMAIN m.chan :
            i < j /\ m.chan[j].type = "update" => Stamp(m.chan[i]) < Stamp(m.chan[j])
    <3> SUFFICES ASSUME NEW i \in DOMAIN m.chan, NEW j \in DOMAIN m.chan,
                        i < j, m.chan[j].type = "update"
                 PROVE  Stamp(m.chan[i]) < Stamp(m.chan[j])
      OBVIOUS
    <3>1. i + 1 < j + 1
      BY <1>3
    <3> QED  BY <1>2, <1>3, <3>1 DEF OrderOK
  <2>2. \A b \in m.beats : b <= l.clock
    BY <1>2, <1>3 DEF OrderOK, t
  <2> QED  BY <1>2, <1>3, <1>4, <2>1, <2>2 DEF OrderOK
<1>9. CoreOK(z.single_core, m)
  <2>1. \A b \in m.beats : b = t \/ b \in l.beats
    BY DEF t
  <2> QED  BY <1>2, <1>4, <1>5, <1>7, <2>1 DEF CoreOK
<1>10. ChainOK(m) /\ ServedOK(z, m)
  BY <1>1, <1>2 DEF ChainOK, ServedOK
<1>11. l.clock <= m.clock /\ \A i \in DOMAIN m.queue : m.queue[i].item.sr = s
  BY <1>2, LinkFacts DEF SourceOK
<1> QED  BY <1>1, <1>6, <1>8, <1>9, <1>10, <1>11, SameFlight DEF FlightOK, LinkOK

\* A heartbeat is applied, or its lock released.
LEMMA HeartbeatGoesOn ==
    ASSUME NEW z, NEW s, NEW l, NEW m, LinkType(l), LinkType(m), LinkOK(z, s, l),
           m.beats \subseteq l.beats,
           m.vv = l.vv \/ m.vv \in l.beats,
           m.rlock = "update" <=> l.rlock = "update",
           m.clock = l.clock, Put(m) = Put(l), m.source = l.source, m.store = l.store,
           m.chan = l.chan, m.queue = l.queue, m.work = l.work
    PROVE  LinkOK(z, s, m)
<1>1. FlightOK(z, s, l) /\ ServedOK(z, l)
  BY DEF LinkOK
<1>2. OrderOK(l) /\ CoreOK(z.single_core, l) /\ ChainOK(l) /\ SourceOK(z.writers, s, l)
  BY <1>1 DEF FlightOK
<1>3. Sent(m) = Sent(l) /\ Queued(m) = Queued(l)
  BY DEF Sent, Queued
<1>4. Flight(m) = Flight(l)
  BY <1>3 DEF Flight
<1>5. OrderOK(m)
  BY <1>2, <1>3 DEF OrderOK
<1>6. CoreOK(z.single_core, m)
  BY <1>2, <1>3 DEF CoreOK
<1>7. ChainOK(m) /\ ServedOK(z, m)
  BY <1>1, <1>2 DEF ChainOK, ServedOK
<1>8. l.clock <= m.clock /\ \A i \in DOMAIN m.queue : m.queue[i].item.sr = s
  BY <1>2, LinkFacts DEF SourceOK
<1> QED  BY <1>1, <1>4, <1>5, <1>6, <1>7, <1>8, SameFlight DEF FlightOK, LinkOK

\* A set of numbers that is not empty has a least one.
LEMMA Least ==
    ASSUME NEW S, S \subseteq Nat, S # {}
    PROVE  \E n \in S : \A i \in S : n <= i
<1>1. PICK n \in S : \A i \in S : ~(<<i, n>> \in OpToRel(<, Nat))
  BY NatLessThanWellFounded, WFMin
<1>2. ASSUME NEW i \in S, i < n PROVE FALSE
  <2>1. <<i, n>> \in OpToRel(<, Nat)
    BY <1>2 DEF OpToRel
  <2> QED  BY <1>1, <2>1
<1> QED  BY <1>2

\* gr_process_replica_update_work drops the updates before the n-th, which
\* it would not drop.
LEMMA RemainingIs ==
    ASSUME NEW r \in Replica, NEW q \in Seq(Update)
    PROVE  \E n \in Nat :
            /\ 1 <= n /\ n <= Len(q) + 1
            /\ Remaining(r, q) = SubSeq(q, n, Len(q))
            /\ \A i \in DOMAIN q : i < n => Ignored(r, q[i])
            /\ n \in DOMAIN q => ~Ignored(r, q[n])
<1>0. DOMAIN q = 1 .. Len(q) /\ Len(q) \in Nat
  OBVIOUS
<1>1. CASE \A i \in 1 .. Len(q) : Ignored(r, q[i])
  <2>1. Remaining(r, q) = <<>>
    BY <1>1 DEF Remaining
  <2>2. SubSeq(q, Len(q) + 1, Len(q)) = <<>>
    OBVIOUS
  <2> WITNESS Len(q) + 1 \in Nat
  <2>3. 1 <= Len(q) + 1 /\ Len(q) + 1 <= Len(q) + 1 /\ Len(q) + 1 \notin DOMAIN q
    BY <1>0
  <2>4. \A i \in DOMAIN q : Ignored(r, q[i])
    BY <1>0, <1>1
  <2> QED  BY <2>1, <2>2, <2>3, <2>4
<1>2. CASE ~(\A i \in 1 .. Len(q) : Ignored(r, q[i]))
  <2> DEFINE P(i) == ~Ignored(r, q[i]) /\ \A j \in 1 .. i - 1 : Ignored(r, q[j])
             first == CHOOSE i \in 1 .. Len(q) : P(i)
             S == {i \in 1 .. Len(q) : ~Ignored(r, q[i])}
  <2>1. S \subseteq Nat /\ S # {}
    BY <1>2
  <2>2. PICK n \in S : \A i \in S : n <= i
    BY <2>1, Least
  <2>3. n \in 1 .. Len(q) /\ P(n)
    BY <2>2
  <2>4. first \in 1 .. Len(q) /\ P(first)
    BY <2>3
  <2>5. Remaining(r, q) = SubSeq(q, first, Len(q))
    BY <1>2 DEF Remaining
  <2> HIDE DEF first
  <2>6. /\ first \in Nat /\ 1 <= first /\ first <= Len(q) + 1
        /\ \A i \in DOMAIN q : i < first => Ignored(r, q[i])
        /\ ~Ignored(r, q[first])
    BY <1>0, <2>4
  <2> QED  BY <2>5, <2>6
<1> QED  BY <1>1, <1>2

\* The replica takes an update from the channel into the queue.
LEMMA UpdateArrives ==
    ASSUME NEW z, NEW s, NEW l, NEW m, LinkType(l), LinkType(m), LinkOK(z, s, l),
           l.chan # <<>>, Head(l.chan).type = "update", m.chan = Tail(l.chan),
           m.queue = Append(l.queue, Head(l.chan).update),
           m.clock = l.clock, Put(m) = Put(l), m.source = l.source, m.store = l.store,
           m.beats = l.beats, m.work = l.work, m.rlock = l.rlock, m.vv = l.vv
    PROVE  /\ FlightOK(z, s, m)
           /\ z.single_core => l.vv < Head(l.chan).update.item.ut
<1> DEFINE u == Head(l.chan).update
           n == Len(l.queue) + 1
<1>1. FlightOK(z, s, l)
  BY DEF LinkOK
<1>2. OrderOK(l) /\ CoreOK(z.single_core, l) /\ ChainOK(l) /\ SourceOK(z.writers, s, l)
  BY <1>1 DEF FlightOK
<1>3. /\ 1 \in DOMAIN l.chan /\ l.chan[1].type = "update" /\ u = l.chan[1].update
      /\ Stamp(l.chan[1]) = u.item.ut /\ u \in Update /\ u.item.ut \in Int
      /\ \A i \in DOMAIN m.chan :
            i \in Nat \ {0} /\ i + 1 \in DOMAIN l.chan /\ m.chan[i] = l.chan[i + 1]
      /\ \A i \in DOMAIN l.chan :
            i # 1 => i \in Nat /\ i > 1 /\ i - 1 \in DOMAIN m.chan /\ m.chan[i - 1] = l.chan[i]
  <2>1. l.chan \in Seq(Message)
    BY DEF LinkType
  <2>2. 1 \in DOMAIN l.chan /\ Head(l.chan) = l.chan[1] /\ l.chan[1] \in Message
    BY <2>1
  <2>3. l.chan[1].update \in Update /\ Stamp(l.chan[1]) = l.chan[1].update.item.ut
    BY <2>2, MessageFacts
  <2>4. l.chan[1].update.item.ut \in Int
    BY <2>3, FieldFacts
  <2> QED  BY <2>1, <2>2, <2>3, <2>4, TailIs
<1>4. /\ n \in DOMAIN m.queue /\ m.queue[n] = u
      /\ \A i \in DOMAIN l.queue : i \in DOMAIN m.queue /\ m.queue[i] = l.queue[i] /\ i < n
      /\ \A i \in DOMAIN m.queue : i = n \/ (i \in DOMAIN l.queue /\ m.queue[i] = l.queue[i])
      /\ \A i \in DOMAIN m.queue : ~(n < i)
      /\ n = 1 => l.queue = <<>>
      /\ l.queue # <<>> => Head(m.queue) = Head(l.queue)
      /\ m.queue # <<>>
  <2>1. l.queue \in Seq(Update)
    BY DEF LinkType
  <2> HIDE DEF u
  <2>2. m.queue = Append(l.queue, u)
    BY DEF u
  <2> QED  BY <1>3, <2>1, <2>2
<1> HIDE DEF u, n
<1>5. l.work.stage = "unlocking" => n # 1
  BY <1>2, <1>4 DEF ChainOK
<1>6. \A v : v \in Queued(m) <=> v \in Queued(l) \/ v = u
  <2>1. ASSUME NEW v, v \in Queued(m) PROVE v \in Queued(l) \/ v = u
    <3>1. PICK i \in DOMAIN m.queue : (m.work.stage = "unlocking" => i # 1) /\ v = m.queue[i]
      BY ONLY <2>1, FlightIs
    <3>2. CASE i = n
      BY <1>4, <3>1, <3>2
    <3>3. CASE i # n
      BY <1>4, <3>1, <3>3, FlightIs
    <3> QED  BY <3>2, <3>3
  <2>2. ASSUME NEW v, v \in Queued(l) PROVE v \in Queued(m)
    <3>1. PICK i \in DOMAIN l.queue : (l.work.stage = "unlocking" => i # 1) /\ v = l.queue[i]
      BY ONLY <2>2, FlightIs
    <3>2. i \in DOMAIN m.queue /\ (m.work.stage = "unlocking" => i # 1) /\ v = m.queue[i]
      BY <1>4, <3>1
    <3> QED  BY ONLY <3>2, FlightIs
  <2>3. u \in Queued(m)
    <3>1. n \in DOMAIN m.queue /\ (m.work.stage = "unlocking" => n # 1) /\ u = m.queue[n]
      BY <1>4, <1>5
    <3> QED  BY ONLY <3>1, FlightIs
  <2> QED  BY <2>1, <2>2, <2>3
<1>7. \A v : v \in Sent(l) <=> v \in Sent(m) \/ v = u
  <2>1. ASSUME NEW v, v \in Sent(m) PROVE v \in Sent(l)
    <3>1. PICK i \in DOMAIN m.chan : m.chan[i].type = "update" /\ v = m.chan[i].update
      BY ONLY <2>1, FlightIs
    <3>2. i + 1 \in DOMAIN l.chan /\ m.chan[i] = l.chan[i + 1]
      BY <1>3
    <3>3. l.chan[i + 1].type = "update" /\ v = l.chan[i + 1].update
      BY <3>1, <3>2
    <3> QED  BY ONLY <3>2, <3>3, FlightIs
  <2>2. ASSUME NEW v, v \in Sent(l) PROVE v \in Sent(m) \/ v = u
    <3>1. PICK i \in DOMAIN l.chan : l.chan[i].type = "update" /\ v = l.chan[i].update
      BY ONLY <2>2, FlightIs
    <3>2. CASE i = 1
      BY <1>3, <3>1, <3>2
    <3>3. CASE i # 1
      <4>1. i - 1 \in DOMAIN m.chan /\ m.chan[i - 1] = l.chan[i]
        BY <1>3, <3>3
      <4>2. m.chan[i - 1].type = "update" /\ v = m.chan[i - 1].update
        BY <3>1, <4>1
      <4> QED  BY ONLY <4>1, <4>2, FlightIs
    <3> QED  BY <3>2, <3>3
  <2>3. u \in Sent(l)
    BY ONLY <1>3, FlightIs
  <2> QED  BY <2>1, <2>2, <2>3
<1>8. Flight(m) = Flight(l)
  BY <1>6, <1>7 DEF Flight
<1>9. \A v \in Sent(m) \cup Put(m) : u.item.ut < v.item.ut
  <2>1. ASSUME NEW v \in Sent(m) PROVE u.item.ut < v.item.ut
    <3>1. PICK i \in DOMAIN m.chan : m.chan[i].type = "update" /\ v = m.chan[i].update
      BY ONLY <2>1, FlightIs
    <3>2. i + 1 \in DOMAIN l.chan /\ m.chan[i] = l.chan[i + 1] /\ 1 < i + 1
      BY <1>3
    <3>3. Stamp(l.chan[1]) < Stamp(l.chan[i + 1])
      BY <1>2, <1>3, <3>1, <3>2 DEF OrderOK
    <3> QED  BY <1>3, <3>1, <3>2, <3>3 DEF Stamp
  <2>2. ASSUME NEW v \in Put(m) PROVE u.item.ut < v.item.ut
    BY <1>2, <1>3 DEF OrderOK
  <2> QED  BY <2>1, <2>2
<1>10. OrderOK(m)
  <2>1. \A i, j \in DOMAIN m.chan :
            i < j /\ m.chan[j].type = "update" => Stamp(m.chan[i]) < Stamp(m.chan[j])
    <3> SUFFICES ASSUME NEW i \in DOMAIN m.chan, NEW j \in DOMAIN m.chan,
                        i < j, m.chan[j].type = "update"
                 PROVE  Stamp(m.chan[i]) < Stamp(m.chan[j])
      OBVIOUS
    <3>1. i + 1 < j + 1
      BY <1>3
    <3> QED  BY <1>2, <1>3, <3>1 DEF OrderOK
  <2>2. \A i, j \in DOMAIN m.queue : i < j => m.queue[i].item.ut < m.queue[j].item.ut
    <3> SUFFICES ASSUME NEW i \in DOMAIN m.queue, NEW j \in DOMAIN m.queue, i < j
                 PROVE  m.queue[i].item.ut < m.queue[j].item.ut
      OBVIOUS
    <3>1. i # n /\ i \in DOMAIN l.queue /\ m.queue[i] = l.queue[i]
      BY <1>4
    <3>2. CASE j = n
      BY <1>2, <1>4, <1>7, <3>1, <3>2 DEF OrderOK
    <3>3. CASE j # n
      <4>1. j \in DOMAIN l.queue /\ m.queue[j] = l.queue[j]
        BY <1>4, <3>3
      <4> QED  BY <1>2, <3>1, <4>1 DEF OrderOK
    <3> QED  BY <3>2, <3>3
  <2>3. \A i \in DOMAIN m.queue : \A v \in Sent(m) \cup Put(m) : m.queue[i].item.ut < v.item.ut
    <3> TAKE i \in DOMAIN m.queue
    <3>1. CASE i = n
      BY <1>4, <1>9, <3>1
    <3>2. CASE i # n
      BY <1>2, <1>4, <1>7, <3>2 DEF OrderOK
    <3> QED  BY <3>1, <3>2
  <2>4. \A i \in DOMAIN m.queue : m.queue[i].item.ut <= m.clock
    <3> TAKE i \in DOMAIN m.queue
    <3>1. u.item.ut <= l.clock
      BY <1>2, <1>3 DEF OrderOK
    <3> QED  BY <1>2, <1>4, <3>1 DEF OrderOK
  <2>5. \A i \in DOMAIN m.chan : \A v \in Put(m) : Stamp(m.chan[i]) < v.item.ut
    BY <1>2, <1>3 DEF OrderOK
  <2>6. \A i \in DOMAIN m.chan : Stamp(m.chan[i]) <= m.clock
    BY <1>2, <1>3 DEF OrderOK
  <2>7. /\ \A v \in Put(m) : 0 < v.item.ut /\ v.item.ut <= m.clock
        /\ \A t \in m.beats : t <= m.clock
        /\ m.vv <= m.clock
    BY <1>2 DEF OrderOK
  <2> QED  BY <2>1, <2>2, <2>3, <2>4, <2>5, <2>6, <2>7 DEF OrderOK
<1>11. CoreOK(z.single_core, m) /\ (z.single_core => l.vv < u.item.ut)
  BY <1>2, <1>6, <1>7 DEF CoreOK
<1>12. ChainOK(m)
  BY <1>2, <1>4 DEF ChainOK
<1>13. \A i \in DOMAIN m.queue : m.queue[i].item.sr = s
  <2>1. u \in Flight(l)
    BY <1>7 DEF Flight
  <2>2. u.item.sr = s
    BY <1>2, <2>1 DEF SourceOK
  <2> QED  BY <1>2, <1>4, <2>2 DEF SourceOK
<1>14. l.clock <= m.clock
  BY LinkFacts
<1> QED  BY <1>1, <1>8, <1>10, <1>11, <1>12, <1>13, <1>14, SameFlight DEF FlightOK, u

\* The replica would drop the update.
Dropped(l, u) ==
    u.previous # Latest(l.store[u.key]) /\ Older(u.item, Latest(l.store[u.key]))

\* The chain that the work on a queue starts
Starts(z, l, q) ==
    IF q # <<>> /\ (z.protocol = "grv" \/ Head(q).previous = Latest(l.store[Head(q).key]))
    THEN [stage |-> "locking", update |-> Head(q)]
    ELSE Idle

\* What the work on the queue q leaves of it, and the chain that it starts
Worked(z, l, q, left, chain) ==
    /\ \E n \in Nat :
        /\ 1 <= n /\ n <= Len(q) + 1
        /\ left = SubSeq(q, n, Len(q))
        /\ \A i \in DOMAIN q : i < n => Dropped(l, q[i])
        /\ n \in DOMAIN q => ~Dropped(l, q[n])
    /\ chain = Starts(z, l, left)

\* Without conflicts the head of a queue replaces what the replica has.
LEMMA HeadReplaces ==
    ASSUME NEW w, NEW s, NEW l, LinkType(l), OrderOK(l), SourceOK(w, s, l),
           ReplacedOK(w, s, l), l.work = Idle, l.queue # <<>>
    PROVE  l.queue[1].previous = Latest(l.store[l.queue[1].key])
<1> DEFINE u == l.queue[1]
<1>1. 1 \in DOMAIN l.queue /\ l.queue[1] \in Update
  BY DEF LinkType
<1>2. l.work.stage = "idle"
  BY DEF Idle
<1>3. u \in Queued(l) /\ u \in Flight(l)
  BY <1>1, <1>2, FlightIs
<1>4. u.key \in Key /\ s \in w[u.key] /\ u.previous.ut \in Int /\ u.item.ut \in Int
  BY <1>1, <1>3, FieldFacts DEF SourceOK
<1>5. Replaced(l, u.key, u.previous, u.item.ut)
  BY <1>3, <1>4 DEF ReplacedOK
<1>6. ASSUME NEW v \in Flight(l), v.item = u.previous PROVE FALSE
  <2>1. v.item.ut < u.item.ut
    BY <1>5, <1>6 DEF Replaced
  <2>2. CASE v \in Queued(l)
    <3>1. PICK i \in DOMAIN l.queue : v = l.queue[i]
      BY <2>2, FlightIs
    <3>2. i \in Nat /\ 1 <= i
      BY <3>1, LinkFacts
    <3>3. CASE i = 1
      BY <1>4, <2>1, <3>1, <3>3
    <3>4. CASE i # 1
      <4>1. u.item.ut < v.item.ut /\ v.item.ut \in Int
        BY <1>1, <3>1, <3>2, <3>4, LinkFacts DEF OrderOK
      <4> QED  BY <1>4, <2>1, <4>1
    <3> QED  BY <3>3, <3>4
  <2>3. CASE v \in Sent(l) \cup Put(l)
    <3>1. u.item.ut < v.item.ut /\ v.item.ut \in Int
      BY <1>1, <2>3, LinkFacts DEF OrderOK
    <3> QED  BY <1>4, <2>1, <3>1
  <2> QED  BY <2>2, <2>3, FlightIs
<1> QED  BY <1>5, <1>6 DEF Replaced

\* The replica works on a queue that no chain works on: it drops what is
\* older than what it has, and starts a chain for the next update.
LEMMA WorkDone ==
    ASSUME NEW z, NEW s, NEW l, NEW m, LinkType(l), LinkType(m), FlightOK(z, s, l),
           z.protocol \in {"gr", "grv"}, l.work = Idle,
           z.single_core => l.beats = {} /\ \A u \in Queued(l) : l.vv < u.item.ut,
           Worked(z, l, l.queue, m.queue, m.work),
           m.clock = l.clock, Put(m) = Put(l), m.source = l.source, m.store = l.store,
           m.chan = l.chan, m.beats = l.beats, m.rlock = l.rlock, m.vv = l.vv
    PROVE  LinkOK(z, s, m)
<1>1. /\ OrderOK(l) /\ CoreOK(z.single_core, l) /\ ChainOK(l) /\ SourceOK(z.writers, s, l)
      /\ CoverOK(s, l)
  BY DEF FlightOK
<1>2. l.queue \in Seq(Update) /\ m.queue \in Seq(Update)
  BY DEF LinkType
<1>3. PICK n \in Nat :
        /\ 1 <= n /\ n <= Len(l.queue) + 1
        /\ m.queue = SubSeq(l.queue, n, Len(l.queue))
        /\ \A i \in DOMAIN l.queue : i < n => Dropped(l, l.queue[i])
        /\ n \in DOMAIN l.queue => ~Dropped(l, l.queue[n])
  BY DEF Worked
<1>4. m.work = Starts(z, l, m.queue)
  BY DEF Worked
<1>5. /\ \A i \in DOMAIN m.queue :
            i \in Nat /\ 1 <= i /\ n - 1 + i \in DOMAIN l.queue /\ m.queue[i] = l.queue[n - 1 + i]
      /\ m.queue # <<>> => n \in DOMAIN l.queue /\ Head(m.queue) = l.queue[n]
      /\ \A i \in DOMAIN l.queue : i >= n =>
            i - n + 1 \in DOMAIN m.queue /\ m.queue[i - n + 1] = l.queue[i]
      /\ n = 1 => m.queue = l.queue
  <2> DEFINE q == l.queue
             left == m.queue
  <2>0. n \in Nat /\ 1 <= n
    BY <1>3
  <2>1. n <= Len(q) + 1 /\ q \in Seq(Update) /\ left = SubSeq(q, n, Len(q))
    BY <1>3, <1>2
  <2> HIDE DEF q, left
  <2>2. /\ \A i \in DOMAIN left :
            i \in Nat /\ 1 <= i /\ n - 1 + i \in DOMAIN q /\ left[i] = q[n - 1 + i]
        /\ left # <<>> => n \in DOMAIN q /\ Head(left) = q[n]
        /\ \A i \in DOMAIN q : i >= n =>
            i - n + 1 \in DOMAIN left /\ left[i - n + 1] = q[i]
        /\ n = 1 => left = q
    BY ONLY <2>1, <2>0
  <2> QED  BY <2>1, <2>2 DEF q, left
<1>6. /\ \/ m.work = Idle
         \/ m.work = [stage |-> "locking", update |-> Head(m.queue)] /\ m.queue # <<>>
      /\ m.work.stage \in {"idle", "locking"}
      /\ l.work.stage = "idle"
      /\ z.protocol = "grv" /\ m.queue # <<>> => m.work.stage = "locking"
  <2>1. l.work.stage = "idle" /\ Idle.stage = "idle"
    BY DEF Idle
  <2>2. CASE m.work = Idle /\ ~(z.protocol = "grv" /\ m.queue # <<>>)
    BY ONLY <2>1, <2>2
  <2>3. CASE m.work = [stage |-> "locking", update |-> Head(m.queue)] /\ m.queue # <<>>
    BY ONLY <2>1, <2>3
  <2> QED  BY ONLY <1>4, <2>2, <2>3 DEF Starts
<1>7. Sent(m) = Sent(l)
  BY DEF Sent
<1>8. \A u : u \in Queued(l) <=> \E i \in DOMAIN l.queue : u = l.queue[i]
  BY <1>6, FlightIs
<1>9. \A u : u \in Queued(m) <=> \E i \in DOMAIN m.queue : u = m.queue[i]
  BY ONLY <1>6, FlightIs
<1>10. \A u \in Queued(m) : u \in Queued(l)
  <2> TAKE u \in Queued(m)
  <2>1. PICK i \in DOMAIN m.queue : u = m.queue[i]
    BY <1>9
  <2>2. n - 1 + i \in DOMAIN l.queue /\ u = l.queue[n - 1 + i]
    BY <1>5, <2>1
  <2> QED  BY ONLY <1>8, <2>2
<1>11. \A u \in Queued(l) : u \in Queued(m) \/ Dropped(l, u)
  <2> TAKE u \in Queued(l)
  <2>1. PICK i \in DOMAIN l.queue : u = l.queue[i]
    BY <1>8
  <2>2. i \in Nat
    BY LinkFacts
  <2>3. CASE i < n
    BY <1>3, <2>1, <2>3
  <2>4. CASE i >= n
    <3>1. i - n + 1 \in DOMAIN m.queue /\ u = m.queue[i - n + 1]
      BY <1>5, <2>1, <2>4
    <3> QED  BY ONLY <1>9, <3>1
  <2> QED  BY <2>2, <2>3, <2>4
<1>12. \A u \in Flight(m) : u \in Flight(l)
  BY <1>7, <1>10, FlightIs
<1>13. \A u \in Flight(l) : u \in Flight(m) \/ Dropped(l, u)
  BY <1>7, <1>11, FlightIs
<1>14. OrderOK(m)
  <2>1. \A i, j \in DOMAIN m.queue : i < j => m.queue[i].item.ut < m.queue[j].item.ut
    <3> SUFFICES ASSUME NEW i \in DOMAIN m.queue, NEW j \in DOMAIN m.queue, i < j
                 PROVE  m.queue[i].item.ut < m.queue[j].item.ut
      OBVIOUS
    <3>1. /\ n - 1 + i \in DOMAIN l.queue /\ m.queue[i] = l.queue[n - 1 + i]
          /\ n - 1 + j \in DOMAIN l.queue /\ m.queue[j] = l.queue[n - 1 + j]
          /\ n - 1 + i < n - 1 + j
      BY <1>5
    <3> QED  BY <1>1, <3>1 DEF OrderOK
  <2>2. \A i \in DOMAIN m.queue :
            /\ m.queue[i].item.ut <= m.clock
            /\ \A u \in Sent(m) \cup Put(m) : m.queue[i].item.ut < u.item.ut
    BY <1>1, <1>5, <1>7 DEF OrderOK
  <2> QED  BY <1>1, <1>7, <2>1, <2>2 DEF OrderOK
<1>15. \A i \in DOMAIN m.queue : m.queue[i].item.sr = s
  BY <1>1, <1>5 DEF SourceOK
<1>16. SourceOK(z.writers, s, m)
  BY <1>1, <1>12, <1>15 DEF SourceOK
<1>17. CoreOK(z.single_core, m)
  BY <1>1, <1>7, <1>10 DEF CoreOK
<1>18. CoverOK(s, m)
  <2> SUFFICES ASSUME NEW k \in Key, NEW item \in Members(l.source[k]), item.sr = s
               PROVE  \/ \E other \in Members(l.store[k]) : ~Older(other, item)
                      \/ \E u \in Flight(m) : u.key = k /\ u.item = item
    BY DEF CoverOK
  <2>1. CASE \E other \in Members(l.store[k]) : ~Older(other, item)
    BY <2>1
  <2>2. CASE \E u \in Flight(l) : u.key = k /\ u.item = item
    <3>1. PICK u \in Flight(l) : u.key = k /\ u.item = item
      BY <2>2
    <3>2. CASE u \in Flight(m)
      BY <3>1, <3>2
    <3>3. CASE Dropped(l, u)
      <4> DEFINE top == Latest(l.store[k])
      <4>1. Older(item, top) /\ l.store[k] \in Seq(Item)
        BY <3>1, <3>3, LinkFacts DEF Dropped
      <4>2. item \in Item /\ top \in Item
        BY <3>1, <4>1, LinkFacts, LatestIs
      <4>3. l.store[k] # <<>>
        <5>1. SUFFICES ASSUME l.store[k] = <<>> PROVE FALSE
          OBVIOUS
        <5>2. top = NoItem
          BY <5>1 DEF Latest
        <5>3. 0 <= item.ut /\ item.ut \in Int /\ 0 <= item.sr /\ item.sr \in Int
          <6>1. item.ut \in Time /\ item.sr \in Replica
            BY <4>2 DEF Item
          <6>2. \A t \in Time : t \in Int /\ 0 <= t
            BY TimeFacts
          <6>3. \A x \in Replica : x \in Int /\ 0 <= x
            BY TimeFacts
          <6> QED  BY ONLY <6>1, <6>2, <6>3
        <5>4. Older(item, NoItem)
          BY <4>1, <5>2
        <5> QED  BY <5>3, <5>4 DEF NoItem, Older
      <4>4. top \in Members(l.store[k]) /\ ~Older(top, item)
        BY <4>1, <4>2, <4>3, LatestIs, OlderIs
      <4> QED  BY <4>4
    <3> QED  BY <1>13, <3>2, <3>3
  <2> QED  BY <1>1, <2>1, <2>2 DEF CoverOK
<1>19. ChainOK(m)
  BY <1>1, <1>6 DEF ChainOK
<1>20. ASSUME z.protocol = "gr", OneWriter(z.writers)
       PROVE  ReplacedOK(z.writers, s, m) /\ (m.queue # <<>> => m.work.stage # "idle")
  <2>1. ReplacedOK(z.writers, s, l)
    BY <1>20 DEF FlightOK
  <2>2. l.queue # <<>> => l.queue[1].previous = Latest(l.store[l.queue[1].key])
    BY <1>1, <2>1, HeadReplaces
  <2>3. n = 1
    <3>1. SUFFICES ASSUME n # 1 PROVE FALSE
      OBVIOUS
    <3>2. 1 \in DOMAIN l.queue /\ 1 < n
      BY <1>3, <1>2, <3>1
    <3>3. Dropped(l, l.queue[1]) /\ l.queue # <<>>
      BY <1>3, <3>2
    <3> QED  BY <2>2, <3>3 DEF Dropped
  <2>4. m.queue = l.queue
    BY <1>5, <2>3
  <2>5. Flight(m) = Flight(l)
    BY <1>7, <1>8, <1>9, <2>4 DEF Flight
  <2>6. l.clock <= m.clock
    BY LinkFacts
  <2>7. m.queue # <<>> => m.work.stage # "idle"
    BY <1>5, <1>4, <2>2, <2>3, <2>4 DEF Starts
  <2> QED  BY <1>15, <1>20, <2>5, <2>6, <2>7, SameFlight
<1>21. ServedOK(z, m)
  BY <1>6, <1>20 DEF ServedOK
<1> QED  BY <1>14, <1>16, <1>17, <1>18, <1>19, <1>20, <1>21 DEF FlightOK, LinkOK

\* The replica applies the update at the head of the queue.
LEMMA UpdateApplied ==
    ASSUME NEW z, NEW s, NEW l, NEW m, LinkType(l), LinkType(m), LinkOK(z, s, l),
           NEW u, u = l.work.update, l.work.stage = "locking",
           m.work.stage = "unlocking", m.work.update = u, m.rlock = "update",
           m.store = [l.store EXCEPT ![u.key] = PutValue(l.store[u.key], u.item)],
           m.vv = u.item.ut,
           m.clock = l.clock, Put(m) = Put(l), m.source = l.source,
           m.chan = l.chan, m.queue = l.queue, m.beats = l.beats
    PROVE  LinkOK(z, s, m)
<1> DEFINE k == u.key
           old == l.store[k]
           new == PutValue(old, u.item)
<1>1. FlightOK(z, s, l)
  BY DEF LinkOK
<1>2. /\ OrderOK(l) /\ CoreOK(z.single_core, l) /\ ChainOK(l) /\ SourceOK(z.writers, s, l)
      /\ CoverOK(s, l)
  BY <1>1 DEF FlightOK
<1>3. 1 \in DOMAIN l.queue /\ l.queue[1] = u /\ l.queue # <<>>
  <2>1. l.queue # <<>> /\ Head(l.queue) = u
    BY <1>2 DEF ChainOK
  <2>2. l.queue \in Seq(Update)
    BY DEF LinkType
  <2> QED  BY <2>1, <2>2, TailIs
<1>4. u \in Update /\ k \in Key /\ u.item \in Item /\ u.item.ut \in Int
  <2>1. u \in Update
    BY <1>3, LinkFacts
  <2> QED  BY <2>1, FieldFacts
<1>5. old \in Seq(Item) /\ m.store[k] = new /\ \A j \in Key \ {k} : m.store[j] = l.store[j]
  BY <1>4 DEF LinkType
<1>6. \/ new = old /\ old # <<>> /\ Latest(old).ut > u.item.ut
      \/ Members(new) = Members(old) \cup {u.item} /\ Latest(new) = u.item
  BY <1>4, <1>5, PutValueIs
<1> HIDE DEF new, old
<1>7. Sent(m) = Sent(l)
  BY DEF Sent
<1>8. u \in Queued(l) /\ u \in Flight(l)
  <2>1. 1 \in DOMAIN l.queue /\ (l.work.stage = "unlocking" => 1 # 1) /\ u = l.queue[1]
    BY <1>3
  <2> QED  BY ONLY <2>1, FlightIs
<1>9. \A v \in Queued(m) : v \in Queued(l) /\ u.item.ut < v.item.ut
  <2> TAKE v \in Queued(m)
  <2>1. PICK i \in DOMAIN m.queue : (m.work.stage = "unlocking" => i # 1) /\ v = m.queue[i]
    BY ONLY v \in Queued(m), FlightIs
  <2>2. i \in DOMAIN l.queue /\ (l.work.stage = "unlocking" => i # 1) /\ v = l.queue[i] /\ i # 1
    BY <2>1
  <2>3. 1 < i
    BY <2>2, LinkFacts
  <2>4. u.item.ut < v.item.ut
    BY <1>2, <1>3, <2>2, <2>3 DEF OrderOK
  <2>5. v \in Queued(l)
    BY ONLY <2>2, FlightIs
  <2> QED  BY <2>4, <2>5
<1>10. \A v \in Queued(l) : v = u \/ v \in Queued(m)
  <2> TAKE v \in Queued(l)
  <2>1. PICK i \in DOMAIN l.queue : v = l.queue[i]
    BY ONLY v \in Queued(l), FlightIs
  <2>2. CASE i = 1
    BY <1>3, <2>1, <2>2
  <2>3. CASE i # 1
    <3>1. i \in DOMAIN m.queue /\ (m.work.stage = "unlocking" => i # 1) /\ v = m.queue[i]
      BY <2>1, <2>3
    <3> QED  BY ONLY <3>1, FlightIs
  <2> QED  BY <2>2, <2>3
<1>11. \A v \in Sent(l) \cup Put(l) : u.item.ut < v.item.ut
  BY <1>2, <1>3 DEF OrderOK
<1>12. \A v \in Flight(m) : v \in Flight(l) /\ u.item.ut < v.item.ut
  BY <1>7, <1>9, <1>11, FlightIs
<1>13. \A v \in Flight(l) : v = u \/ v \in Flight(m)
  BY <1>7, <1>10, FlightIs
<1>14. u.item.sr = s /\ s \in z.writers[k] /\ u.item \in Members(l.source[k])
  BY <1>2, <1>8 DEF SourceOK
<1>15. u.item.ut <= l.clock
  BY <1>2, <1>3 DEF OrderOK
<1>16. \A j \in Key : /\ Members(l.store[j]) \subseteq Members(m.store[j])
                      /\ \A item \in Members(m.store[j]) :
                            item \in Members(l.store[j]) \/ (j = k /\ item = u.item)
  <2> TAKE j \in Key
  <2>1. CASE j = k
    BY <1>5, <1>6, <2>1 DEF old
  <2>2. CASE j # k
    BY <1>5, <2>2
  <2> QED  BY <2>1, <2>2
<1>17. OrderOK(m)
  BY <1>2, <1>7, <1>15 DEF OrderOK
<1>18. SourceOK(z.writers, s, m)
  <2>1. ASSUME NEW j \in Key, NEW item \in Members(m.store[j]), item.sr = s
        PROVE  /\ item \in Members(m.source[j]) /\ item.ut <= m.clock
               /\ \A v \in Flight(m) : item.ut < v.item.ut
    <3>1. CASE item \in Members(l.store[j])
      BY <1>2, <1>12, <2>1, <3>1 DEF SourceOK
    <3>2. CASE j = k /\ item = u.item
      BY <1>12, <1>14, <1>15, <3>2
    <3> QED  BY <1>16, <3>1, <3>2
  <2>2. \A v \in Flight(m) :
            v.item.sr = s /\ s \in z.writers[v.key] /\ v.item \in Members(m.source[v.key])
    BY <1>2, <1>12 DEF SourceOK
  <2>3. \A i \in DOMAIN m.queue : m.queue[i].item.sr = s
    BY <1>2 DEF SourceOK
  <2> QED  BY <2>1, <2>2, <2>3 DEF SourceOK
<1>19. CoreOK(z.single_core, m)
  <2>1. z.single_core => m.beats = {}
    BY <1>2 DEF CoreOK
  <2>2. \A v \in Sent(m) \cup Put(m) : m.vv < v.item.ut
    BY <1>7, <1>11
  <2>3. \A v \in Queued(m) : m.vv < v.item.ut
    BY <1>9
  <2> QED  BY <2>1, <2>2, <2>3 DEF CoreOK
<1>20. CoverOK(s, m)
  <2> SUFFICES ASSUME NEW j \in Key, NEW item \in Members(l.source[j]), item.sr = s
               PROVE  \/ \E other \in Members(m.store[j]) : ~Older(other, item)
                      \/ \E v \in Flight(m) : v.key = j /\ v.item = item
    BY DEF CoverOK
  <2>1. CASE \E other \in Members(l.store[j]) : ~Older(other, item)
    BY <1>16, <2>1
  <2>2. CASE \E v \in Flight(l) : v.key = j /\ v.item = item
    <3>1. PICK v \in Flight(l) : v.key = j /\ v.item = item
      BY <2>2
    <3>2. CASE v \in Flight(m)
      BY <3>1, <3>2
    <3>3. CASE v = u
      <4>1. j = k /\ item = u.item
        BY <3>1, <3>3
      <4>2. CASE Members(new) = Members(old) \cup {u.item}
        <5>1. ~Older(u.item, u.item)
          BY <1>4, OlderIs
        <5> QED  BY <1>5, <4>1, <4>2, <5>1
      <4>3. CASE new = old /\ old # <<>> /\ Latest(old).ut > u.item.ut
        <5>1. Latest(old) \in Members(old) /\ Latest(old) \in Item /\ Latest(old).ut \in Int
          BY <1>5, <4>3, LatestIs
        <5>2. u.item.ut < Latest(old).ut
          BY <1>4, <4>3, <5>1
        <5>3. ~Older(Latest(old), u.item)
          BY <1>4, <5>1, <5>2, OlderIs
        <5> QED  BY <1>5, <4>1, <4>3, <5>1, <5>3
      <4> QED  BY <1>6, <4>2, <4>3
    <3> QED  BY <1>13, <3>2, <3>3
  <2> QED  BY <1>2, <2>1, <2>2 DEF CoverOK
<1>21. ChainOK(m) /\ ServedOK(z, m)
  BY <1>2 DEF ChainOK, ServedOK
<1>22. ASSUME z.protocol = "gr", OneWriter(z.writers) PROVE ReplacedOK(z.writers, s, m)
  <2>1. ReplacedOK(z.writers, s, l)
    BY <1>1, <1>22 DEF FlightOK
  <2>2. Replaced(l, k, u.previous, u.item.ut)
    BY <1>4, <1>8, <1>14, <2>1 DEF ReplacedOK
  <2>3. Latest(old).ut < u.item.ut
    <3>1. Latest(old).ut <= u.previous.ut /\ u.previous.ut < u.item.ut
      BY <2>2 DEF Replaced, old
    <3>2. Latest(old).ut \in Int /\ u.previous.ut \in Int
      BY <1>4, <1>5, LatestIs, FieldFacts
    <3> QED  BY <1>4, <3>1, <3>2
  <2>4. Latest(m.store[k]) = u.item
    <3>1. ~(Latest(old).ut > u.item.ut)
      <4>1. Latest(old).ut \in Int
        BY <1>5, LatestIs
      <4> QED  BY <1>4, <2>3, <4>1
    <3> QED  BY <1>5, <1>6, <3>1
  <2>5. ASSUME NEW j \in Key, NEW b \in Item, NEW t \in Int, Replaced(l, j, b, t), u.item.ut < t
        PROVE  Replaced(m, j, b, t)
    <3>1. CASE j = k
      <4>1. u.item.ut <= b.ut
        BY <1>8, <2>5, <3>1 DEF Replaced
      <4>2. b # Latest(old)
        <5>1. b.ut \in Int
          BY FieldFacts
        <5> QED  BY <1>4, <2>3, <4>1, <5>1
      <4>3. \E v \in Flight(l) : v.key = k /\ v.item = b
        BY <2>5, <3>1, <4>2 DEF Replaced, old
      <4>4. b = Latest(m.store[k]) \/ \E v \in Flight(m) : v.key = k /\ v.item = b
        BY <1>13, <2>4, <4>3
      <4> QED  BY <1>12, <2>4, <2>5, <3>1, <4>1, <4>4 DEF Replaced
    <3>2. CASE j # k
      <4>1. m.store[j] = l.store[j]
        BY <1>5, <3>2
      <4>2. \A v \in Flight(l) : v.key = j => v \in Flight(m)
        BY <1>13, <3>2
      <4> QED  BY <1>12, <2>5, <4>1, <4>2 DEF Replaced
    <3> QED  BY <3>1, <3>2
  <2> SUFFICES ASSUME NEW j \in Key, s \in z.writers[j]
               PROVE  /\ \A v \in Flight(m) : v.key = j => Replaced(m, j, v.previous, v.item.ut)
                      /\ Replaced(m, j, Latest(m.source[j]), m.clock + 1)
    BY DEF ReplacedOK
  <2>6. ASSUME NEW v \in Flight(m), v.key = j PROVE Replaced(m, j, v.previous, v.item.ut)
    <3>1. Replaced(l, j, v.previous, v.item.ut)
      BY <1>12, <2>1, <2>6 DEF ReplacedOK
    <3>2. v.previous \in Item /\ v.item.ut \in Int
      BY <1>12, LinkFacts, FieldFacts
    <3> QED  BY <1>12, <2>5, <3>1, <3>2
  <2>7. Replaced(m, j, Latest(l.source[j]), l.clock + 1)
    <3>1. Replaced(l, j, Latest(l.source[j]), l.clock + 1)
      BY <2>1 DEF ReplacedOK
    <3>2. Latest(l.source[j]) \in Item /\ l.clock + 1 \in Int /\ u.item.ut < l.clock + 1
      <4>1. l.clock \in Int /\ l.source[j] \in Seq(Item)
        BY LinkFacts
      <4>2. Latest(l.source[j]) \in Item
        BY <4>1, LatestIs
      <4> QED  BY <1>4, <1>15, <4>1, <4>2
    <3> QED  BY <2>5, <3>1, <3>2
  <2> QED  BY <2>6, <2>7
<1> QED  BY <1>17, <1>18, <1>19, <1>20, <1>21, <1>22 DEF FlightOK, LinkOK

\* The replica takes the update that it has applied off the queue.
LEMMA UpdateDequeued ==
    ASSUME NEW z, NEW s, NEW l, NEW m, LinkType(l), LinkType(m), LinkOK(z, s, l),
           l.work.stage = "unlocking", m.queue = Tail(l.queue), m.work = Idle,
           m.rlock = "free",
           m.clock = l.clock, Put(m) = Put(l), m.source = l.source, m.store = l.store,
           m.chan = l.chan, m.beats = l.beats, m.vv = l.vv
    PROVE  /\ FlightOK(z, s, m)
           /\ z.single_core => m.beats = {} /\ \A u \in Queued(m) : m.vv < u.item.ut
<1>1. FlightOK(z, s, l)
  BY DEF LinkOK
<1>2. OrderOK(l) /\ CoreOK(z.single_core, l) /\ ChainOK(l) /\ SourceOK(z.writers, s, l)
  BY <1>1 DEF FlightOK
<1>3. l.queue # <<>> /\ l.queue \in Seq(Update)
  BY <1>2 DEF ChainOK, LinkType
<1>4. /\ \A i \in DOMAIN m.queue :
            i \in Nat \ {0} /\ i + 1 \in DOMAIN l.queue /\ m.queue[i] = l.queue[i + 1]
      /\ \A i \in DOMAIN l.queue : i # 1 =>
            i \in Nat /\ i > 1 /\ i - 1 \in DOMAIN m.queue /\ m.queue[i - 1] = l.queue[i]
  BY <1>3, TailIs
<1>5. Sent(m) = Sent(l)
  BY DEF Sent
<1>6. m.work.stage = "idle"
  BY DEF Idle
<1>7. Queued(m) = Queued(l)
  <2>1. ASSUME NEW u \in Queued(m) PROVE u \in Queued(l)
    <3>1. PICK i \in DOMAIN m.queue : u = m.queue[i]
      BY ONLY <2>1, FlightIs
    <3>2. i + 1 \in DOMAIN l.queue /\ i + 1 # 1 /\ u = l.queue[i + 1]
      BY <1>4, <3>1
    <3> QED  BY ONLY <3>2, FlightIs
  <2>2. ASSUME NEW u \in Queued(l) PROVE u \in Queued(m)
    <3>1. PICK i \in DOMAIN l.queue : (l.work.stage = "unlocking" => i # 1) /\ u = l.queue[i]
      BY ONLY <2>2, FlightIs
    <3>2. i - 1 \in DOMAIN m.queue /\ u = m.queue[i - 1]
      BY <1>4, <3>1
    <3> QED  BY ONLY <1>6, <3>2, FlightIs
  <2> QED  BY <2>1, <2>2
<1>8. Flight(m) = Flight(l)
  BY <1>5, <1>7 DEF Flight
<1>9. OrderOK(m)
  <2>1. \A i, j \in DOMAIN m.queue : i < j => m.queue[i].item.ut < m.queue[j].item.ut
    <3> SUFFICES ASSUME NEW i \in DOMAIN m.queue, NEW j \in DOMAIN m.queue, i < j
                 PROVE  m.queue[i].item.ut < m.queue[j].item.ut
      OBVIOUS
    <3>1. i + 1 < j + 1
      BY <1>4
    <3> QED  BY <1>2, <1>4, <3>1 DEF OrderOK
  <2>2. \A i \in DOMAIN m.queue :
            /\ m.queue[i].item.ut <= m.clock
            /\ \A u \in Sent(m) \cup Put(m) : m.queue[i].item.ut < u.item.ut
    BY <1>2, <1>4, <1>5 DEF OrderOK
  <2> QED  BY <1>2, <1>5, <2>1, <2>2 DEF OrderOK
<1>10. CoreOK(z.single_core, m)
  BY <1>2, <1>5, <1>6 DEF CoreOK
<1>11. ChainOK(m)
  BY <1>6 DEF ChainOK
<1>12. \A i \in DOMAIN m.queue : m.queue[i].item.sr = s
  BY <1>2, <1>4 DEF SourceOK
<1>13. l.clock <= m.clock
  BY LinkFacts
<1>14. z.single_core => m.beats = {} /\ \A u \in Queued(m) : m.vv < u.item.ut
  BY <1>2, <1>7 DEF CoreOK
<1> QED  BY <1>1, <1>8, <1>9, <1>10, <1>11, <1>12, <1>13, <1>14, SameFlight DEF FlightOK

-----------------------------------------------------------------------------
(***************************************************************************)
(* The steps                                                               *)
(***************************************************************************)
\* What a parameter file fixes
LEMMA SettingFacts ==
    ASSUME Types
    PROVE  /\ setting.protocol \in {"gr", "grv"} /\ setting.single_core \in BOOLEAN
           /\ setting.writers \in [Key -> SUBSET Replica]
           /\ \A c \in Clock : c \in Time /\ c \in Int
<1>1. setting \in Setting
  BY ReplicationAssumption DEF Types
<1>2. /\ setting.protocol \in {"gr", "grv"} /\ setting.single_core \in BOOLEAN
      /\ setting.writers \in [Key -> SUBSET Replica] /\ setting.end \in Time
  BY <1>1 DEF Setting
<1>3. setting.end \in 0 .. MaxTime /\ MaxTime \in Nat
  BY <1>2, ReplicationAssumption DEF Time
<1>4. \A c \in Clock : c \in Time /\ c \in Int
  BY <1>3 DEF Clock, Time
<1> QED  BY <1>2, <1>4

\* The parts of a link
LEMMA LinkIs ==
    ASSUME NEW a, NEW b
    PROVE  /\ Link(a, b).clock = clock[b] /\ Link(a, b).main = main[b]
           /\ Link(a, b).source = store[b] /\ Link(a, b).chan = chan[b][a]
           /\ Link(a, b).queue = update_queue[a][b] /\ Link(a, b).work = work[a][b]
           /\ Link(a, b).beats = beats[a][b] /\ Link(a, b).rlock = rlock[a][b]
           /\ Link(a, b).vv = version_vector[a][b] /\ Link(a, b).store = store[a]
  BY DEF Link

\* The parts of a link after a step
LEMMA LinkIsNext ==
    ASSUME NEW a, NEW b
    PROVE  /\ Link(a, b)'.clock = clock'[b] /\ Link(a, b)'.main = main'[b]
           /\ Link(a, b)'.source = store'[b] /\ Link(a, b)'.chan = chan'[b][a]
           /\ Link(a, b)'.queue = update_queue'[a][b] /\ Link(a, b)'.work = work'[a][b]
           /\ Link(a, b)'.beats = beats'[a][b] /\ Link(a, b)'.rlock = rlock'[a][b]
           /\ Link(a, b)'.vv = version_vector'[a][b] /\ Link(a, b)'.store = store'[a]
  BY DEF Link

\* The types of a link
LEMMA LinkTypes ==
    ASSUME Types, NEW a \in Replica, NEW b \in Replica
    PROVE  LinkType(Link(a, b))
<1> DEFINE l == Link(a, b)
<1>1. /\ l.clock = clock[b] /\ l.main = main[b]
      /\ l.source = store[b] /\ l.chan = chan[b][a]
      /\ l.queue = update_queue[a][b] /\ l.work = work[a][b]
      /\ l.beats = beats[a][b] /\ l.vv = version_vector[a][b] /\ l.store = store[a]
  BY LinkIs
<1> HIDE DEF l
<1>2. /\ clock[b] \in Time /\ version_vector[a][b] \in Time /\ beats[a][b] \subseteq Time
      /\ main[b] \in {Idle} \cup PutMain \cup TickMain
      /\ store[b] \in [Key -> Seq(Item)] /\ store[a] \in [Key -> Seq(Item)]
      /\ chan[b][a] \in Seq(Message) /\ update_queue[a][b] \in Seq(Update)
      /\ work[a][b] \in {Idle} \cup OpenChain
  BY DEF Types
<1>3. LinkType(l)
  BY <1>1, <1>2 DEF LinkType
<1> QED  BY <1>3 DEF l

\* The types of a link after a step
LEMMA LinkTypesNext ==
    ASSUME Types', NEW a \in Replica, NEW b \in Replica
    PROVE  LinkType(Link(a, b)')
<1> DEFINE l == Link(a, b)'
<1>1. /\ l.clock = clock'[b] /\ l.main = main'[b]
      /\ l.source = store'[b] /\ l.chan = chan'[b][a]
      /\ l.queue = update_queue'[a][b] /\ l.work = work'[a][b]
      /\ l.beats = beats'[a][b] /\ l.vv = version_vector'[a][b] /\ l.store = store'[a]
  BY LinkIsNext
<1> HIDE DEF l
<1>2. /\ clock'[b] \in Time /\ version_vector'[a][b] \in Time /\ beats'[a][b] \subseteq Time
      /\ main'[b] \in {Idle} \cup PutMain \cup TickMain
      /\ store'[b] \in [Key -> Seq(Item)] /\ store'[a] \in [Key -> Seq(Item)]
      /\ chan'[b][a] \in Seq(Message) /\ update_queue'[a][b] \in Seq(Update)
      /\ work'[a][b] \in {Idle} \cup OpenChain
  BY DEF Types
<1>3. LinkType(l)
  BY <1>1, <1>2 DEF LinkType
<1> QED  BY <1>3 DEF l

\* A put is taken.
LEMMA PutRequestLockedStep ==
    ASSUME IInv, UNCHANGED setting,
           NEW r \in Replica, NEW k \in Key, NEW c \in Clock, PutRequestLocked(r, k, c)
    PROVE  IInv'
<1> DEFINE item == [ut |-> c, sr |-> r]
           chain == store[r][k]
           new == PutValue(chain, item)
           u == [key |-> k, item |-> item, previous |-> Latest(chain)]
<1>1. Types /\ \A x \in Replica : ReplicaOK(x)
  BY DEF IInv
<1>2. \A a, b \in Replica : a # b => LinkOK(setting, b, Link(a, b))
  BY DEF IInv
<1>3. c \in Time /\ c \in Int /\ clock[r] \in Int /\ clock[r] < c
  BY <1>1, SettingFacts, TimeFacts DEF Types, PutRequestLocked
<1>4. item \in Item /\ item.ut = c /\ item.sr = r
  BY <1>3 DEF Item
<1>5. chain \in Seq(Item) /\ Latest(chain) \in Item
  <2>1. chain \in Seq(Item)
    BY <1>1 DEF Types
  <2> QED  BY <2>1, LatestIs
<1>6. u \in Update /\ u.key = k /\ u.item = item /\ u.previous = Latest(chain)
  BY <1>4, <1>5 DEF Update
<1>7. new \in Seq(Item) /\ \A x \in Members(new) : x \in Members(chain) \/ x = item
  BY <1>4, <1>5, PutMembers
<1>8. /\ clock' = [clock EXCEPT ![r] = c]
      /\ version_vector' = [version_vector EXCEPT ![r][r] = c]
      /\ store' = [store EXCEPT ![r][k] = new]
      /\ main' = [main EXCEPT ![r] = [stage |-> "put", discarded |-> new = chain, update |-> u]]
      /\ main[r] = Idle /\ r \in setting.writers[k]
      /\ UNCHANGED <<next_tick, ticking, update_queue, work, beats, rlock, chan>>
  BY DEF PutRequestLocked
<1> HIDE DEF u, new, item
<1>9. Types'
  <2>1. clock' \in [Replica -> Time] /\ version_vector' \in [Replica -> [Replica -> Time]]
    BY <1>1, <1>3, <1>8 DEF Types
  <2>2. store' \in [Replica -> [Key -> Seq(Item)]]
    BY <1>1, <1>7, <1>8 DEF Types
  <2>3. [stage |-> "put", discarded |-> new = chain, update |-> u] \in PutMain
    BY <1>6 DEF PutMain
  <2>4. main' \in [Replica -> {Idle} \cup PutMain \cup TickMain]
    BY <1>1, <1>8, <2>3 DEF Types
  <2> QED  BY <1>1, <1>8, <2>1, <2>2, <2>4 DEF Types
<1>10. ASSUME NEW x \in Replica PROVE ReplicaOK(x)'
  <2>1. ReplicaOK(x)
    BY <1>1
  <2>2. CASE x = r
    <3>1. clock'[r] = c /\ version_vector'[r][r] = c /\ c <= c
      BY <1>1, <1>3, <1>8 DEF Types
    <3>2. ASSUME NEW j \in Key
          PROVE  /\ Sorted(store'[r][j])
                 /\ \A i \in Members(store'[r][j]) :
                        i.sr \in setting.writers[j] /\ (i.sr = r => i.ut <= c)
      <4>1. /\ Sorted(store[r][j]) /\ store[r][j] \in Seq(Item)
            /\ \A i \in Members(store[r][j]) :
                    i.sr \in setting.writers[j] /\ (i.sr = r => i.ut <= clock[r])
        BY <1>1, <2>1, <2>2 DEF ReplicaOK, Types
      <4>2. \A i \in Members(store[r][j]) : i.sr = r => i.ut < c /\ i.ut <= c
        <5> TAKE i \in Members(store[r][j])
        <5>1. i.ut \in Int
          BY <4>1, LatestIs, FieldFacts
        <5> QED  BY <1>3, <4>1, <5>1
      <4>3. CASE j = k
        <5>1. store'[r][j] = new
          BY <1>1, <1>8, <4>3 DEF Types
        <5>2. item \notin Members(chain)
          BY <1>3, <1>4, <4>2, <4>3
        <5>3. Sorted(new)
          BY <1>4, <1>5, <4>1, <4>3, <5>2, PutSorted DEF new
        <5> QED  BY <1>3, <1>4, <1>7, <1>8, <4>1, <4>2, <4>3, <5>1, <5>3
      <4>4. CASE j # k
        <5>1. store'[r][j] = store[r][j]
          BY <1>1, <1>8, <4>4 DEF Types
        <5> QED  BY <4>1, <4>2, <5>1
      <4> QED  BY <4>3, <4>4
    <3> QED  BY <1>8, <2>1, <2>2, <3>1, <3>2 DEF ReplicaOK
  <2>3. CASE x # r
    <3>1. clock'[x] = clock[x] /\ version_vector'[x] = version_vector[x] /\ store'[x] = store[x]
      BY <1>1, <1>8, <2>3 DEF Types
    <3> QED  BY <1>8, <2>1, <3>1 DEF ReplicaOK
  <2> QED  BY <2>2, <2>3
<1>11. ASSUME NEW a \in Replica, NEW b \in Replica, a # b
       PROVE  LinkOK(setting, b, Link(a, b)')
  <2> DEFINE l == Link(a, b)
             m == Link(a, b)'
  <2>1. LinkOK(setting, b, l) /\ LinkType(l) /\ LinkType(m)
    BY <1>1, <1>2, <1>9, <1>11, LinkTypes, LinkTypesNext
  <2>2. /\ l.clock = clock[b] /\ l.main = main[b] /\ l.source = store[b] /\ l.store = store[a]
        /\ m.clock = clock'[b] /\ m.main = main'[b] /\ m.source = store'[b] /\ m.store = store'[a]
        /\ m.chan = l.chan /\ m.queue = l.queue /\ m.work = l.work /\ m.beats = l.beats
        /\ m.rlock = l.rlock
        /\ l.vv = version_vector[a][b] /\ m.vv = version_vector'[a][b]
    BY <1>8, LinkIs, LinkIsNext
  <2> HIDE DEF l, m
  <2>3. m.vv = l.vv
    BY <1>1, <1>8, <1>11, <2>2 DEF Types
  <2>4. CASE b = r
    <3>1. m.clock = c /\ l.clock < c
      BY <1>1, <1>3, <1>8, <2>2, <2>4 DEF Types
    <3>2. m.source = [l.source EXCEPT ![k] = PutValue(l.source[k], item)] /\ m.store = l.store
      BY <1>1, <1>8, <1>11, <2>2, <2>4 DEF Types, new
    <3>3. l.source[k] = chain
      BY <2>2, <2>4
    <3>4. Put(l) = {}
      BY <1>8, <2>2, <2>4 DEF Put, Idle
    <3>5. m.main = [stage |-> "put", discarded |-> new = chain, update |-> u]
      BY <1>1, <1>8, <2>2, <2>4 DEF Types
    <3>6. Put(m) = IF new = chain THEN {} ELSE {u}
      <4> DEFINE d == new = chain
      <4>1. m.main = [stage |-> "put", discarded |-> d, update |-> u]
        BY <3>5
      <4> HIDE DEF d
      <4>2. m.main.stage = "put" /\ m.main.update = u /\ m.main.discarded = d
        BY <4>1
      <4>3. Put(m) = IF d THEN {} ELSE {u}
        BY ONLY <4>2 DEF Put
      <4> QED  BY <4>3 DEF d
    <3>7. Put(m) = IF PutValue(l.source[k], item) = l.source[k] THEN {} ELSE {u}
      BY <3>3, <3>6 DEF new
    <3> QED  BY <1>4, <1>6, <1>8, <2>1, <2>2, <2>3, <2>4, <3>1, <3>2, <3>3, <3>4, <3>7, PutTaken DEF m
  <2>5. CASE a = r
    <3>1. m.clock = l.clock /\ m.main = l.main /\ m.source = l.source
      BY <1>1, <1>8, <1>11, <2>2, <2>5 DEF Types
    <3>2. m.store = [l.store EXCEPT ![k] = PutValue(l.store[k], item)]
      BY <1>1, <1>8, <2>2, <2>5 DEF Types, new
    <3>3. Put(m) = Put(l)
      BY <3>1 DEF Put
    <3>4. item.sr # b /\ item.sr \in setting.writers[k]
      BY <1>4, <1>8, <1>11, <2>5
    <3> QED  BY <1>4, <2>1, <2>2, <2>3, <3>1, <3>2, <3>3, <3>4, OtherPut DEF m
  <2>6. CASE a # r /\ b # r
    <3>1. m.clock = l.clock /\ m.main = l.main /\ m.source = l.source /\ m.store = l.store
      BY <1>1, <1>8, <2>2, <2>6 DEF Types
    <3>2. l.clock <= m.clock /\ Put(m) = Put(l)
      BY <2>1, <3>1, LinkFacts DEF Put
    <3> QED  BY <2>1, <2>2, <2>3, <3>1, <3>2, ClockGrows DEF m
  <2> QED  BY <2>4, <2>5, <2>6
<1> QED  BY <1>9, <1>10, <1>11 DEF IInv

\* A step under state->lock that leaves the store alone.  It changes the links
\* from r only.
LEMMA MainStep ==
    ASSUME IInv, Types', NEW r \in Replica,
           UNCHANGED <<setting, store, update_queue, work, beats, rlock>>,
           \A x \in Replica : x # r =>
                /\ clock'[x] = clock[x] /\ main'[x] = main[x] /\ chan'[x] = chan[x]
                /\ version_vector'[x] = version_vector[x]
                /\ version_vector'[r][x] = version_vector[r][x],
           chan'[r][r] = chan[r][r],
           version_vector'[r][r] <= clock'[r], clock[r] <= clock'[r],
           \A a \in Replica : a # r => LinkOK(setting, r, Link(a, r)')
    PROVE  IInv'
<1>1. Types /\ \A x \in Replica : ReplicaOK(x)
  BY DEF IInv
<1>2. \A a, b \in Replica : a # b => LinkOK(setting, b, Link(a, b))
  BY DEF IInv
<1>3. ASSUME NEW x \in Replica PROVE ReplicaOK(x)'
  <2>1. ReplicaOK(x)
    BY <1>1
  <2>2. CASE x = r
    <3>1. ASSUME NEW k \in Key, NEW i \in Members(store[r][k]), i.sr = r PROVE i.ut <= clock'[r]
      <4>1. i.ut <= clock[r]
        BY <2>1, <2>2, <3>1 DEF ReplicaOK
      <4>2. i.ut \in Int /\ clock[r] \in Int /\ clock'[r] \in Int
        <5>1. store[r][k] \in Seq(Item) /\ clock[r] \in Time /\ clock'[r] \in Time
          BY <1>1 DEF Types
        <5> QED  BY <5>1, LatestIs, FieldFacts, TimeFacts
      <4> QED  BY <4>1, <4>2
    <3> QED  BY <2>1, <2>2, <3>1 DEF ReplicaOK
  <2>3. CASE x # r
    <3>1. /\ clock'[x] = clock[x] /\ version_vector'[x] = version_vector[x]
          /\ chan'[x] = chan[x]
      BY <2>3
    <3> QED  BY <2>1, <3>1 DEF ReplicaOK
  <2> QED  BY <2>2, <2>3
<1>4. ASSUME NEW a \in Replica, NEW b \in Replica, a # b
      PROVE  LinkOK(setting, b, Link(a, b)')
  <2>1. CASE b = r
    BY <1>4, <2>1
  <2>2. CASE b # r
    <3>1. /\ clock'[b] = clock[b] /\ main'[b] = main[b] /\ chan'[b] = chan[b]
          /\ version_vector'[a][b] = version_vector[a][b]
      BY <2>2
    <3>2. Link(a, b)' = Link(a, b)
      BY <3>1 DEF Link
    <3> QED  BY <1>2, <1>4, <3>2
  <2> QED  BY <2>1, <2>2
<1> QED  BY <1>3, <1>4 DEF IInv

\* A message to every other replica
LEMMA SendIs ==
    ASSUME Types, NEW r \in Replica, NEW msg \in Message, SendToReplicas(r, msg)
    PROVE  /\ chan' \in [Replica -> [Replica -> Seq(Message)]]
           /\ chan'[r][r] = chan[r][r]
           /\ \A x \in Replica : x # r =>
                chan'[x] = chan[x] /\ chan'[r][x] = Append(chan[r][x], msg)
<1>1. chan \in [Replica -> [Replica -> Seq(Message)]]
  BY DEF Types
<1>2. \A x \in Replica : Append(chan[r][x], msg) \in Seq(Message)
  BY <1>1
<1> DEFINE row == [x \in Replica |-> IF x = r THEN chan[r][x] ELSE Append(chan[r][x], msg)]
<1>3. row \in [Replica -> Seq(Message)]
  BY <1>1, <1>2
<1>4. chan' = [chan EXCEPT ![r] = row]
  BY <1>1 DEF SendToReplicas
<1>5. row[r] = chan[r][r] /\ \A x \in Replica : x # r => row[x] = Append(chan[r][x], msg)
  OBVIOUS
<1> HIDE DEF row
<1>6. chan' \in [Replica -> [Replica -> Seq(Message)]] /\ chan'[r] = row
  BY <1>1, <1>3, <1>4
<1>7. \A x \in Replica : x # r => chan'[x] = chan[x]
  BY <1>1, <1>4
<1> QED  BY <1>5, <1>6, <1>7

\* The update of a put is sent.
LEMMA PutRequestUnlockedStep ==
    ASSUME IInv, UNCHANGED setting, NEW r \in Replica, PutRequestUnlocked(r)
    PROVE  IInv'
<1>1. Types /\ ReplicaOK(r)
  BY DEF IInv
<1>2. \A a \in Replica : a # r => LinkOK(setting, r, Link(a, r))
  BY DEF IInv
<1>3. /\ main' = [main EXCEPT ![r] = Idle] /\ main[r].stage = "put"
      /\ UNCHANGED <<clock, next_tick, ticking, version_vector, store, update_queue, work,
                     beats, rlock>>
  BY DEF PutRequestUnlocked
<1>4. main[r] \in PutMain
  <2>1. main[r] \in {Idle} \cup PutMain \cup TickMain
    BY <1>1 DEF Types
  <2> QED  BY <1>3, <2>1 DEF Idle, TickMain
<1>5. main[r].update \in Update /\ main[r].discarded \in BOOLEAN
  BY <1>4 DEF PutMain
<1>6. main' \in [Replica -> {Idle} \cup PutMain \cup TickMain]
  BY <1>1, <1>3 DEF Types
<1>7. /\ main'[r] = Idle /\ Idle.stage = "idle"
      /\ \A x \in Replica : x # r => main'[x] = main[x]
  BY <1>1, <1>3 DEF Types, Idle
<1>8. version_vector'[r][r] <= clock'[r] /\ clock[r] <= clock'[r]
  <2>1. clock[r] \in Int
    BY <1>1, TimeFacts DEF Types
  <2> QED  BY <1>1, <1>3, <2>1 DEF ReplicaOK
<1>9. CASE main[r].discarded /\ UNCHANGED chan
  <2>1. Types'
    BY <1>1, <1>3, <1>6, <1>9 DEF Types
  <2>2. ASSUME NEW a \in Replica, a # r PROVE LinkOK(setting, r, Link(a, r)')
    <3> DEFINE l == Link(a, r)
               m == Link(a, r)'
    <3>1. LinkOK(setting, r, l) /\ LinkType(l) /\ LinkType(m)
      BY <1>1, <1>2, <2>1, <2>2, LinkTypes, LinkTypesNext
    <3>2. /\ m.clock = l.clock /\ m.source = l.source /\ m.store = l.store /\ m.chan = l.chan
          /\ m.queue = l.queue /\ m.work = l.work /\ m.beats = l.beats
          /\ m.rlock = l.rlock /\ m.vv = l.vv /\ l.main = main[r] /\ m.main = main'[r]
      BY <1>3, <1>9, LinkIs, LinkIsNext
    <3> HIDE DEF l, m
    <3>3. Put(m) = {} /\ Put(l) = {}
      BY <1>7, <1>9, <3>2 DEF Put
    <3>4. l.clock <= m.clock
      BY <3>1, <3>2, LinkFacts
    <3> QED  BY <3>1, <3>2, <3>3, <3>4, ClockGrows DEF m
  <2> QED  BY <1>3, <1>7, <1>8, <1>9, <2>1, <2>2, MainStep
<1>10. CASE ~main[r].discarded /\ SendToReplicas(r, UpdateMsg(main[r].update))
  <2> DEFINE u == main[r].update
  <2>1. UpdateMsg(u) \in Message
    BY <1>5, MessageFacts
  <2>2. /\ chan' \in [Replica -> [Replica -> Seq(Message)]]
        /\ chan'[r][r] = chan[r][r]
        /\ \A x \in Replica : x # r =>
                chan'[x] = chan[x] /\ chan'[r][x] = Append(chan[r][x], UpdateMsg(u))
    BY <1>1, <1>10, <2>1, SendIs
  <2>3. Types'
    BY <1>1, <1>3, <1>6, <2>2 DEF Types
  <2>4. ASSUME NEW a \in Replica, a # r PROVE LinkOK(setting, r, Link(a, r)')
    <3> DEFINE l == Link(a, r)
               m == Link(a, r)'
    <3>1. LinkOK(setting, r, l) /\ LinkType(l) /\ LinkType(m)
      BY <1>1, <1>2, <2>3, <2>4, LinkTypes, LinkTypesNext
    <3>2. /\ m.clock = l.clock /\ m.source = l.source /\ m.store = l.store
          /\ l.chan = chan[r][a] /\ m.chan = chan'[r][a]
          /\ m.queue = l.queue /\ m.work = l.work /\ m.beats = l.beats
          /\ m.rlock = l.rlock /\ m.vv = l.vv /\ l.main = main[r] /\ m.main = main'[r]
      BY <1>3, LinkIs, LinkIsNext
    <3> HIDE DEF l, m
    <3>3. Put(m) = {} /\ Put(l) = {u}
      BY <1>3, <1>7, <1>10, <3>2 DEF Put
    <3>4. m.chan = Append(l.chan, UpdateMsg(u))
      BY <2>2, <2>4, <3>2
    <3> HIDE DEF u
    <3> QED  BY <1>5, <3>1, <3>2, <3>3, <3>4, UpdateSent DEF m, u
  <2> QED  BY <1>3, <1>7, <1>8, <2>2, <2>3, <2>4, MainStep
<1> QED  BY <1>9, <1>10 DEF PutRequestUnlocked

\* The source sends a heartbeat, or only its clock goes on.
LEMMA TickLink ==
    ASSUME IInv, Types', NEW r \in Replica, NEW a \in Replica, a # r,
           UNCHANGED <<setting, store, update_queue, work, beats, rlock>>,
           clock[r] <= clock'[r], version_vector'[a] = version_vector[a],
           \/ main'[r] = main[r]
           \/ main[r].stage # "put" /\ main'[r].stage # "put",
           \/ chan'[r][a] = chan[r][a]
           \/ \E t \in Time :
                /\ chan'[r][a] = Append(chan[r][a], HeartbeatMsg(t)) /\ t <= clock'[r]
                /\ t = 0 \/ main[r].stage # "put"
    PROVE  LinkOK(setting, r, Link(a, r)')
<1> DEFINE l == Link(a, r)
           m == Link(a, r)'
<1>1. Types /\ LinkOK(setting, r, l)
  BY DEF IInv
<1>2. LinkType(l) /\ LinkType(m)
  BY <1>1, LinkTypes, LinkTypesNext
<1>3. /\ l.clock = clock[r] /\ m.clock = clock'[r] /\ l.main = main[r] /\ m.main = main'[r]
      /\ l.chan = chan[r][a] /\ m.chan = chan'[r][a]
      /\ m.source = l.source /\ m.store = l.store
      /\ m.queue = l.queue /\ m.work = l.work /\ m.beats = l.beats
      /\ m.rlock = l.rlock /\ m.vv = l.vv
  BY LinkIs, LinkIsNext
<1> HIDE DEF l, m
<1>4. Put(m) = Put(l) /\ l.clock <= m.clock /\ (main[r].stage # "put" => Put(l) = {})
  BY <1>3 DEF Put
<1>5. CASE chan'[r][a] = chan[r][a]
  <2>1. m.chan = l.chan
    BY <1>3, <1>5
  <2> QED  BY <1>1, <1>2, <1>3, <1>4, <2>1, ClockGrows DEF m
<1>6. ASSUME NEW t \in Time, chan'[r][a] = Append(chan[r][a], HeartbeatMsg(t)), t <= clock'[r],
             t = 0 \/ main[r].stage # "put"
      PROVE  LinkOK(setting, r, Link(a, r)')
  <2>1. m.chan = Append(l.chan, HeartbeatMsg(t)) /\ t <= m.clock /\ (t = 0 \/ Put(l) = {})
    BY <1>3, <1>4, <1>6
  <2> QED  BY <1>1, <1>2, <1>3, <1>4, <2>1, HeartbeatSent DEF m
<1> QED  BY <1>5, <1>6

\* A clock tick starts: it waits for the lock or sends an empty heartbeat.
LEMMA ClockTickStep ==
    ASSUME IInv, UNCHANGED setting, NEW r \in Replica, NEW c \in Clock, ClockTick(r, c)
    PROVE  IInv'
<1>1. Types /\ ReplicaOK(r)
  BY DEF IInv
<1>2. /\ clock' = [clock EXCEPT ![r] = c] /\ clock[r] <= c
      /\ UNCHANGED <<version_vector, store, update_queue, main, work, beats, rlock>>
  <2>1. clock[r] \in Int /\ c \in Int
    BY <1>1, SettingFacts, TimeFacts DEF Types
  <2> QED  BY <2>1 DEF ClockTick
<1>3. c \in Time /\ c \in Int /\ clock[r] \in Int /\ version_vector[r][r] \in Int
  BY <1>1, SettingFacts, TimeFacts DEF Types
<1>4. /\ clock' \in [Replica -> Time] /\ clock'[r] = c
      /\ \A x \in Replica : x # r => clock'[x] = clock[x]
  BY <1>1, <1>2, <1>3 DEF Types
<1>5. version_vector'[r][r] <= clock'[r] /\ clock[r] <= clock'[r]
  BY <1>1, <1>2, <1>3, <1>4 DEF ReplicaOK
<1>6. CASE /\ ticking' = [ticking EXCEPT ![r] = TRUE]
           /\ UNCHANGED <<next_tick, chan>>
  <2>1. ticking' \in [Replica -> BOOLEAN]
    BY <1>1, <1>6 DEF Types
  <2>2. Types'
    BY <1>1, <1>2, <1>4, <1>6, <2>1 DEF Types
  <2>3. \A a \in Replica : a # r => LinkOK(setting, r, Link(a, r)')
    BY <1>2, <1>5, <1>6, <2>2, TickLink
  <2> QED  BY <1>2, <1>4, <1>5, <1>6, <2>2, <2>3, MainStep
<1>7. CASE /\ next_tick' = [next_tick EXCEPT ![r] = c + Interval]
           /\ SendToReplicas(r, HeartbeatMsg(0))
           /\ UNCHANGED ticking
  <2>1. next_tick' \in [Replica -> Nat]
    <3>1. c + Interval \in Nat
      <4>1. c \in Nat /\ Interval \in Nat
        BY <1>3, TimeFacts, ReplicationAssumption
      <4> QED  BY <4>1
    <3> QED  BY <1>1, <1>7, <3>1 DEF Types
  <2>2. /\ chan' \in [Replica -> [Replica -> Seq(Message)]]
        /\ chan'[r][r] = chan[r][r]
        /\ \A x \in Replica : x # r =>
                chan'[x] = chan[x] /\ chan'[r][x] = Append(chan[r][x], HeartbeatMsg(0))
    <3>1. HeartbeatMsg(0) \in Message
      BY MessageFacts, TimeFacts
    <3> QED  BY <1>1, <1>7, <3>1, SendIs
  <2>3. Types'
    BY <1>1, <1>2, <1>4, <1>7, <2>1, <2>2 DEF Types
  <2>4. 0 \in Time /\ 0 <= clock'[r]
    BY <1>3, <1>4, TimeFacts
  <2>5. \A a \in Replica : a # r => LinkOK(setting, r, Link(a, r)')
    BY <1>2, <1>5, <2>2, <2>3, <2>4, TickLink
  <2> QED  BY <1>2, <1>4, <1>5, <2>2, <2>3, <2>5, MainStep
<1> QED  BY <1>6, <1>7 DEF ClockTick

\* A clock tick has the lock.
LEMMA TickLockedStep ==
    ASSUME IInv, UNCHANGED setting, NEW r \in Replica, NEW c \in Clock, NEW send_time \in BOOLEAN,
           main[r] = Idle, c >= clock[r],
           clock' = [clock EXCEPT ![r] = c],
           ticking' = [ticking EXCEPT ![r] = FALSE],
           version_vector' = [version_vector EXCEPT ![r][r] = IF send_time THEN c ELSE @],
           main' = [main EXCEPT ![r] = [stage |-> "tick", send_time |-> send_time]],
           UNCHANGED <<next_tick, store, update_queue, work, beats, rlock, chan>>
    PROVE  IInv'
<1>1. Types /\ ReplicaOK(r)
  BY DEF IInv
<1>2. c \in Time /\ c \in Int /\ clock[r] \in Int /\ version_vector[r][r] \in Int /\ clock[r] <= c
  BY <1>1, SettingFacts, TimeFacts DEF Types
<1>3. /\ clock' \in [Replica -> Time] /\ clock'[r] = c
      /\ \A x \in Replica : x # r => clock'[x] = clock[x]
  BY <1>1, <1>2 DEF Types
<1>4. /\ version_vector' \in [Replica -> [Replica -> Time]]
      /\ version_vector'[r][r] = c \/ version_vector'[r][r] = version_vector[r][r]
      /\ \A x \in Replica : x # r =>
            version_vector'[x] = version_vector[x] /\ version_vector'[r][x] = version_vector[r][x]
  BY <1>1, <1>2 DEF Types
<1>5. [stage |-> "tick", send_time |-> send_time] \in TickMain
  BY DEF TickMain
<1>6. /\ main' \in [Replica -> {Idle} \cup PutMain \cup TickMain]
      /\ main'[r].stage = "tick" /\ main[r].stage = "idle"
      /\ \A x \in Replica : x # r => main'[x] = main[x]
  BY <1>1, <1>5 DEF Types, Idle
<1>7. ticking' \in [Replica -> BOOLEAN]
  BY <1>1 DEF Types
<1>8. Types'
  BY <1>1, <1>3, <1>4, <1>6, <1>7 DEF Types
<1>9. version_vector'[r][r] <= clock'[r] /\ clock[r] <= clock'[r]
  BY <1>1, <1>2, <1>3, <1>4 DEF ReplicaOK
<1>10. \A a \in Replica : a # r => LinkOK(setting, r, Link(a, r)')
  BY <1>4, <1>6, <1>8, <1>9, TickLink
<1> QED  BY <1>3, <1>4, <1>6, <1>8, <1>9, <1>10, MainStep

\* gr checks again under the lock.
LEMMA ClockTickLockedStep ==
    ASSUME IInv, UNCHANGED setting, NEW r \in Replica, NEW c \in Clock, ClockTickLocked(r, c)
    PROVE  IInv'
<1> DEFINE send_time == c >= version_vector[r][r] + Interval
<1>1. send_time \in BOOLEAN
  OBVIOUS
<1>2. /\ main[r] = Idle /\ c >= clock[r] /\ clock' = [clock EXCEPT ![r] = c]
      /\ ticking' = [ticking EXCEPT ![r] = FALSE]
      /\ version_vector' = [version_vector EXCEPT ![r][r] = IF send_time THEN c ELSE @]
      /\ main' = [main EXCEPT ![r] = [stage |-> "tick", send_time |-> send_time]]
      /\ UNCHANGED <<next_tick, store, update_queue, work, beats, rlock, chan>>
  BY DEF ClockTickLocked
<1> HIDE DEF send_time
<1> QED  BY <1>1, <1>2, TickLockedStep

\* grv does not.
LEMMA GrvClockTickLockedStep ==
    ASSUME IInv, UNCHANGED setting, NEW r \in Replica, NEW c \in Clock, GrvClockTickLocked(r, c)
    PROVE  IInv'
<1>1. /\ main[r] = Idle /\ c >= clock[r] /\ clock' = [clock EXCEPT ![r] = c]
      /\ ticking' = [ticking EXCEPT ![r] = FALSE]
      /\ version_vector' = [version_vector EXCEPT ![r][r] = IF TRUE THEN c ELSE @]
      /\ main' = [main EXCEPT ![r] = [stage |-> "tick", send_time |-> TRUE]]
      /\ UNCHANGED <<next_tick, store, update_queue, work, beats, rlock, chan>>
  BY DEF GrvClockTickLocked, VvFree
<1> QED  BY <1>1, TickLockedStep

\* A clock tick sends its heartbeat.
LEMMA ClockTickUnlockedStep ==
    ASSUME IInv, UNCHANGED setting, NEW r \in Replica, NEW c \in Clock, ClockTickUnlocked(r, c)
    PROVE  IInv'
<1> DEFINE t == IF main[r].send_time THEN c ELSE 0
<1>1. Types /\ ReplicaOK(r)
  BY DEF IInv
<1>2. /\ main[r].stage = "tick" /\ clock' = [clock EXCEPT ![r] = c] /\ c >= clock[r]
      /\ SendToReplicas(r, HeartbeatMsg(t))
      /\ main' = [main EXCEPT ![r] = Idle]
      /\ next_tick' = [next_tick EXCEPT ![r] = c + Interval]
      /\ UNCHANGED <<ticking, version_vector, store, update_queue, work, beats, rlock>>
  BY DEF ClockTickUnlocked
<1>3. /\ c \in Time /\ c \in Int /\ c \in Nat /\ 0 <= c /\ clock[r] \in Int /\ clock[r] <= c
      /\ version_vector[r][r] \in Int
  BY <1>1, <1>2, SettingFacts, TimeFacts DEF Types
<1>4. /\ clock' \in [Replica -> Time] /\ clock'[r] = c
      /\ \A x \in Replica : x # r => clock'[x] = clock[x]
  BY <1>1, <1>2, <1>3 DEF Types
<1>5. t \in Time /\ t <= c
  BY <1>3, TimeFacts
<1> HIDE DEF t
<1>6. HeartbeatMsg(t) \in Message
  BY <1>5, MessageFacts
<1>7. /\ chan' \in [Replica -> [Replica -> Seq(Message)]]
      /\ chan'[r][r] = chan[r][r]
      /\ \A x \in Replica : x # r =>
            chan'[x] = chan[x] /\ chan'[r][x] = Append(chan[r][x], HeartbeatMsg(t))
  BY <1>1, <1>2, <1>6, SendIs
<1>8. next_tick' \in [Replica -> Nat]
  <2>1. c + Interval \in Nat
    BY <1>3, ReplicationAssumption
  <2> QED  BY <1>1, <1>2, <2>1 DEF Types
<1>9. /\ main' \in [Replica -> {Idle} \cup PutMain \cup TickMain]
      /\ main'[r].stage = "idle" /\ main[r].stage = "tick"
      /\ \A x \in Replica : x # r => main'[x] = main[x]
  BY <1>1, <1>2 DEF Types, Idle
<1>10. Types'
  BY <1>1, <1>2, <1>4, <1>7, <1>8, <1>9 DEF Types
<1>11. version_vector'[r][r] <= clock'[r] /\ clock[r] <= clock'[r]
  BY <1>1, <1>2, <1>3, <1>4 DEF ReplicaOK
<1>12. ASSUME NEW a \in Replica, a # r PROVE LinkOK(setting, r, Link(a, r)')
  <2>1. chan'[r][a] = Append(chan[r][a], HeartbeatMsg(t)) /\ t <= clock'[r]
    BY <1>4, <1>5, <1>7, <1>12
  <2> QED  BY <1>2, <1>5, <1>9, <1>10, <1>11, <1>12, <2>1, TickLink
<1> QED  BY <1>2, <1>4, <1>7, <1>9, <1>10, <1>11, <1>12, MainStep

\* A step on the link from s to r that leaves the store alone
LEMMA ReceiveStep ==
    ASSUME IInv, Types', NEW r \in Replica, NEW s \in Replica, r # s,
           UNCHANGED <<setting, clock, main, store>>,
           \A a, b \in Replica : a # r \/ b # s =>
                /\ update_queue'[a][b] = update_queue[a][b] /\ work'[a][b] = work[a][b]
                /\ beats'[a][b] = beats[a][b] /\ rlock'[a][b] = rlock[a][b]
                /\ version_vector'[a][b] = version_vector[a][b] /\ chan'[b][a] = chan[b][a],
           LinkOK(setting, s, Link(r, s)')
    PROVE  IInv'
<1>1. \A a, b \in Replica : a # b => LinkOK(setting, b, Link(a, b))
  BY DEF IInv
<1>2. ASSUME NEW x \in Replica PROVE ReplicaOK(x)'
  <2>1. ReplicaOK(x)
    BY DEF IInv
  <2>2. /\ update_queue'[x][x] = update_queue[x][x] /\ work'[x][x] = work[x][x]
        /\ beats'[x][x] = beats[x][x] /\ rlock'[x][x] = rlock[x][x]
        /\ version_vector'[x][x] = version_vector[x][x] /\ chan'[x][x] = chan[x][x]
    <3>1. x # r \/ x # s
      OBVIOUS
    <3> QED  BY <3>1
  <2> QED  BY <2>1, <2>2 DEF ReplicaOK
<1>3. ASSUME NEW a \in Replica, NEW b \in Replica, a # b
      PROVE  LinkOK(setting, b, Link(a, b)')
  <2>1. CASE a = r /\ b = s
    BY <2>1
  <2>2. CASE a # r \/ b # s
    <3>1. /\ update_queue'[a][b] = update_queue[a][b] /\ work'[a][b] = work[a][b]
          /\ beats'[a][b] = beats[a][b] /\ rlock'[a][b] = rlock[a][b]
          /\ version_vector'[a][b] = version_vector[a][b] /\ chan'[b][a] = chan[b][a]
      BY <2>2
    <3>2. Link(a, b)' = Link(a, b)
      BY <3>1 DEF Link
    <3> QED  BY <1>1, <1>3, <3>2
  <2> QED  BY <2>1, <2>2
<1> QED  BY <1>2, <1>3 DEF IInv

\* With one core a chain starts only when no other is open.
LEMMA CoreIs ==
    ASSUME NEW r \in Replica, NEW s \in Replica, CoreFor(r), setting.single_core
    PROVE  work[r][s].stage = "idle" /\ beats[r][s] = {}
  BY DEF CoreFor, NoChain

\* A heartbeat arrives.
LEMMA ProcessHeartbeatStep ==
    ASSUME IInv, UNCHANGED setting, NEW r \in Replica, NEW s \in Replica,
           ProcessHeartbeat(r, s) \/ GrvProcessHeartbeat(r, s)
    PROVE  IInv'
<1> DEFINE t == Head(chan[s][r]).time
           B == beats'[r][s]
<1>1. Types /\ ReplicaOK(r)
  BY DEF IInv
<1>2. /\ chan[s][r] # <<>> /\ Head(chan[s][r]).type = "heartbeat" /\ CoreFor(r)
      /\ chan' = [chan EXCEPT ![s][r] = Tail(@)]
      /\ UNCHANGED <<clock, next_tick, ticking, version_vector, store, update_queue, main,
                     work, rlock>>
  BY DEF ProcessHeartbeat, GrvProcessHeartbeat, Arrives
<1>3. /\ beats' = [beats EXCEPT ![r][s] = B]
      /\ B \subseteq beats[r][s] \cup {t}
  <2>1. beats \in [Replica -> [Replica -> SUBSET Time]]
    BY <1>1 DEF Types
  <2>2. CASE ProcessHeartbeat(r, s)
    BY <2>1, <2>2 DEF ProcessHeartbeat
  <2>3. CASE GrvProcessHeartbeat(r, s)
    BY <2>1, <2>3 DEF GrvProcessHeartbeat
  <2> QED  BY <2>2, <2>3
<1> HIDE DEF B
<1>4. r # s
  BY <1>1, <1>2 DEF ReplicaOK
<1>5. chan[s][r] \in Seq(Message) /\ t \in Time /\ Tail(chan[s][r]) \in Seq(Message)
  <2>1. chan[s][r] \in Seq(Message)
    BY <1>1 DEF Types
  <2>2. Head(chan[s][r]) \in Message /\ Tail(chan[s][r]) \in Seq(Message)
    BY <1>2, <2>1
  <2> QED  BY <1>2, <2>1, <2>2, MessageFacts
<1>6. /\ chan' \in [Replica -> [Replica -> Seq(Message)]]
      /\ beats' \in [Replica -> [Replica -> SUBSET Time]]
  <2>1. B \in SUBSET Time
    BY <1>1, <1>3, <1>5 DEF Types
  <2> QED  BY <1>1, <1>2, <1>3, <1>5, <2>1 DEF Types
<1>7. Types'
  BY <1>1, <1>2, <1>6 DEF Types
<1>8. /\ chan'[s][r] = Tail(chan[s][r]) /\ beats'[r][s] = B
      /\ \A a, b \in Replica : a # r \/ b # s =>
            beats'[a][b] = beats[a][b] /\ chan'[b][a] = chan[b][a]
  BY <1>1, <1>2, <1>3 DEF Types
<1>9. LinkOK(setting, s, Link(r, s)')
  <2> DEFINE l == Link(r, s)
             m == Link(r, s)'
  <2>1. LinkOK(setting, s, l) /\ LinkType(l) /\ LinkType(m)
    BY <1>1, <1>4, <1>7, LinkTypes, LinkTypesNext DEF IInv
  <2>2. /\ m.clock = l.clock /\ m.main = l.main /\ m.source = l.source /\ m.store = l.store
        /\ m.queue = l.queue /\ m.work = l.work /\ m.rlock = l.rlock /\ m.vv = l.vv
        /\ l.chan = chan[s][r] /\ m.chan = chan'[s][r]
        /\ l.beats = beats[r][s] /\ m.beats = beats'[r][s] /\ l.work = work[r][s]
    BY <1>2, LinkIs, LinkIsNext
  <2> HIDE DEF l, m
  <2>3. Put(m) = Put(l)
    BY <2>2 DEF Put
  <2>4. setting.single_core => l.work.stage = "idle"
    BY <1>2, <2>2, CoreIs
  <2>5. /\ l.chan # <<>> /\ Head(l.chan).type = "heartbeat" /\ m.chan = Tail(l.chan)
        /\ m.beats \subseteq l.beats \cup {Head(l.chan).time}
    BY <1>2, <1>3, <1>8, <2>2
  <2> QED  BY <2>1, <2>2, <2>3, <2>4, <2>5, HeartbeatTaken DEF m
<1> QED  BY <1>2, <1>4, <1>7, <1>8, <1>9, ReceiveStep

\* A heartbeat moves the version vector.
LEMMA HeartbeatLockedStep ==
    ASSUME IInv, UNCHANGED setting, NEW r \in Replica, NEW s \in Replica, NEW t \in Time,
           HeartbeatLocked(r, s, t)
    PROVE  IInv'
<1> DEFINE v == IF version_vector[r][s] < t THEN t ELSE version_vector[r][s]
<1>1. Types /\ ReplicaOK(r)
  BY DEF IInv
<1>2. /\ t \in beats[r][s] /\ rlock[r][s] = "free"
      /\ rlock' = [rlock EXCEPT ![r][s] = "heartbeat"]
      /\ beats' = [beats EXCEPT ![r][s] = beats[r][s] \ {t}]
      /\ version_vector' = [version_vector EXCEPT ![r][s] = v]
      /\ UNCHANGED <<clock, next_tick, ticking, store, update_queue, main, work, chan>>
  BY <1>1 DEF HeartbeatLocked, Types
<1>3. r # s
  BY <1>1, <1>2 DEF ReplicaOK
<1>4. v \in Time /\ (v = t \/ v = version_vector[r][s])
  BY <1>1 DEF Types
<1> HIDE DEF v
<1>5. /\ rlock' \in [Replica -> [Replica -> {"free", "update", "heartbeat"}]]
      /\ version_vector' \in [Replica -> [Replica -> Time]]
      /\ beats' \in [Replica -> [Replica -> SUBSET Time]]
  <2>1. beats[r][s] \ {t} \in SUBSET Time
    BY <1>1 DEF Types
  <2> QED  BY <1>1, <1>2, <1>4, <2>1 DEF Types
<1>6. Types'
  BY <1>1, <1>2, <1>5 DEF Types
<1>7. /\ beats'[r][s] = beats[r][s] \ {t} /\ rlock'[r][s] = "heartbeat"
      /\ version_vector'[r][s] = v
      /\ \A a, b \in Replica : a # r \/ b # s =>
            /\ beats'[a][b] = beats[a][b] /\ rlock'[a][b] = rlock[a][b]
            /\ version_vector'[a][b] = version_vector[a][b]
  BY <1>1, <1>2 DEF Types
<1>8. LinkOK(setting, s, Link(r, s)')
  <2> DEFINE l == Link(r, s)
             m == Link(r, s)'
  <2>1. LinkOK(setting, s, l) /\ LinkType(l) /\ LinkType(m)
    BY <1>1, <1>3, <1>6, LinkTypes, LinkTypesNext DEF IInv
  <2>0. UNCHANGED <<clock, store, update_queue, main, work, chan>>
    BY <1>2
  <2>2. /\ m.clock = l.clock /\ m.main = l.main /\ m.source = l.source /\ m.store = l.store
        /\ m.queue = l.queue /\ m.work = l.work /\ m.chan = l.chan
        /\ l.rlock = rlock[r][s] /\ m.rlock = rlock'[r][s]
        /\ l.beats = beats[r][s] /\ m.beats = beats'[r][s]
        /\ l.vv = version_vector[r][s] /\ m.vv = version_vector'[r][s]
    BY ONLY <2>0, LinkIs, LinkIsNext
  <2> HIDE DEF l, m
  <2>3. Put(m) = Put(l)
    BY <2>2 DEF Put
  <2>4. /\ m.beats \subseteq l.beats /\ (m.vv = l.vv \/ m.vv \in l.beats)
        /\ m.rlock # "update" /\ l.rlock # "update"
    BY <1>2, <1>4, <1>7, <2>2
  <2> QED  BY <2>1, <2>2, <2>3, <2>4, HeartbeatGoesOn DEF m
<1> QED  BY <1>2, <1>3, <1>6, <1>7, <1>8, ReceiveStep

\* A heartbeat releases its lock.
LEMMA HeartbeatUnlockedStep ==
    ASSUME IInv, UNCHANGED setting, NEW r \in Replica, NEW s \in Replica, HeartbeatUnlocked(r, s)
    PROVE  IInv'
<1>1. Types /\ ReplicaOK(r)
  BY DEF IInv
<1>2. /\ rlock[r][s] = "heartbeat"
      /\ rlock' = [rlock EXCEPT ![r][s] = "free"]
      /\ UNCHANGED <<clock, next_tick, ticking, version_vector, store, update_queue, main,
                     work, beats, chan>>
  BY DEF HeartbeatUnlocked
<1>3. r # s
  BY <1>1, <1>2 DEF ReplicaOK
<1>4. /\ rlock' \in [Replica -> [Replica -> {"free", "update", "heartbeat"}]]
      /\ rlock'[r][s] = "free"
      /\ \A a, b \in Replica : a # r \/ b # s => rlock'[a][b] = rlock[a][b]
  BY <1>1, <1>2 DEF Types
<1>5. Types'
  BY <1>1, <1>2, <1>4 DEF Types
<1>6. LinkOK(setting, s, Link(r, s)')
  <2> DEFINE l == Link(r, s)
             m == Link(r, s)'
  <2>1. LinkOK(setting, s, l) /\ LinkType(l) /\ LinkType(m)
    BY <1>1, <1>3, <1>5, LinkTypes, LinkTypesNext DEF IInv
  <2>2. /\ m.clock = l.clock /\ m.main = l.main /\ m.source = l.source /\ m.store = l.store
        /\ m.queue = l.queue /\ m.work = l.work /\ m.chan = l.chan /\ m.beats = l.beats
        /\ m.vv = l.vv /\ l.rlock = rlock[r][s] /\ m.rlock = rlock'[r][s]
    BY <1>2, LinkIs, LinkIsNext
  <2> HIDE DEF l, m
  <2>3. Put(m) = Put(l)
    BY <2>2 DEF Put
  <2>4. m.rlock # "update" /\ l.rlock # "update"
    BY <1>2, <1>4, <2>2
  <2> QED  BY <2>1, <2>2, <2>3, <2>4, HeartbeatGoesOn DEF m
<1> QED  BY <1>2, <1>3, <1>4, <1>5, <1>6, ReceiveStep

\* The work on a queue drops updates and starts a chain.
LEMMA WorkIs ==
    ASSUME Types, NEW r \in Replica, NEW s \in Replica, NEW q \in Seq(Update),
           \/ setting.protocol = "gr" /\ Work(r, s, q)
           \/ setting.protocol = "grv" /\ GrvWork(r, s, q),
           NEW l, l.store = store[r]
    PROVE  /\ Worked(setting, l, q, update_queue'[r][s], work'[r][s])
           /\ update_queue' \in [Replica -> [Replica -> Seq(Update)]]
           /\ work' \in [Replica -> [Replica -> {Idle} \cup OpenChain]]
           /\ \A a, b \in Replica : a # r \/ b # s =>
                update_queue'[a][b] = update_queue[a][b] /\ work'[a][b] = work[a][b]
<1> DEFINE left == Remaining(r, q)
           chain == Starts(setting, l, left)
<1>1. PICK n \in Nat :
            /\ 1 <= n /\ n <= Len(q) + 1
            /\ left = SubSeq(q, n, Len(q))
            /\ \A i \in DOMAIN q : i < n => Ignored(r, q[i])
            /\ n \in DOMAIN q => ~Ignored(r, q[n])
  BY RemainingIs
<1> HIDE DEF left
<1>2. left \in Seq(Update) /\ (left # <<>> => Head(left) \in Update)
  <2>1. left \in Seq(Update)
    BY <1>1
  <2> QED  BY <2>1
<1>3. \A u : Ignored(r, u) <=> Dropped(l, u)
  BY DEF Ignored, Conflicts, Dropped
<1>4. /\ update_queue' = [update_queue EXCEPT ![r][s] = left]
      /\ work' = [work EXCEPT ![r][s] = chain]
  <2>1. CASE setting.protocol = "gr" /\ Work(r, s, q)
    <3>1. chain = Chain(r, left)
      BY <2>1 DEF Starts, Chain, Conflicts
    <3> QED  BY <2>1, <3>1 DEF Work, left
  <2>2. CASE setting.protocol = "grv" /\ GrvWork(r, s, q)
    <3>1. chain = IF left = <<>> THEN Idle ELSE [stage |-> "locking", update |-> Head(left)]
      BY <2>2 DEF Starts
    <3> QED  BY <2>2, <3>1 DEF GrvWork, left
  <2> QED  BY <2>1, <2>2
<1>5. chain \in {Idle} \cup OpenChain
  BY <1>2 DEF Starts, OpenChain
<1> HIDE DEF chain
<1>6. /\ update_queue' \in [Replica -> [Replica -> Seq(Update)]] /\ update_queue'[r][s] = left
      /\ \A a, b \in Replica : a # r \/ b # s => update_queue'[a][b] = update_queue[a][b]
  BY <1>2, <1>4 DEF Types
<1>7. /\ work' \in [Replica -> [Replica -> {Idle} \cup OpenChain]] /\ work'[r][s] = chain
      /\ \A a, b \in Replica : a # r \/ b # s => work'[a][b] = work[a][b]
  BY <1>4, <1>5 DEF Types
<1>8. Worked(setting, l, q, left, chain)
  BY <1>1, <1>3 DEF Worked, chain
<1> QED  BY <1>6, <1>7, <1>8

\* An update arrives.
LEMMA ProcessReplicaUpdateStep ==
    ASSUME IInv, UNCHANGED setting, NEW r \in Replica, NEW s \in Replica,
           \/ setting.protocol = "gr" /\ ProcessReplicaUpdate(r, s)
           \/ setting.protocol = "grv" /\ GrvProcessReplicaUpdate(r, s)
    PROVE  IInv'
<1> DEFINE u == Head(chan[s][r]).update
           q == update_queue[r][s]
<1>1. Types /\ ReplicaOK(r)
  BY DEF IInv
<1>2. /\ chan[s][r] # <<>> /\ Head(chan[s][r]).type = "update" /\ CoreFor(r)
      /\ chan' = [chan EXCEPT ![s][r] = Tail(@)]
      /\ UNCHANGED <<clock, next_tick, ticking, version_vector, store, main, beats, rlock>>
  BY DEF ProcessReplicaUpdate, GrvProcessReplicaUpdate, Arrives
<1>3. r # s
  BY <1>1, <1>2 DEF ReplicaOK
<1>4. u \in Update /\ Tail(chan[s][r]) \in Seq(Message) /\ q \in Seq(Update)
  <2>1. chan[s][r] \in Seq(Message) /\ q \in Seq(Update)
    BY <1>1 DEF Types
  <2>2. Head(chan[s][r]) \in Message /\ Tail(chan[s][r]) \in Seq(Message)
    BY <1>2, <2>1
  <2> QED  BY <1>2, <2>1, <2>2, MessageFacts
<1>5. /\ chan' \in [Replica -> [Replica -> Seq(Message)]]
      /\ chan'[s][r] = Tail(chan[s][r])
      /\ \A a, b \in Replica : a # r \/ b # s => chan'[b][a] = chan[b][a]
  BY <1>1, <1>2, <1>4 DEF Types
<1> DEFINE l == Link(r, s)
           m == Link(r, s)'
           p == [clock |-> clock[s], main |-> main[s], source |-> store[s],
                 chan |-> chan'[s][r], queue |-> Append(q, u), work |-> work[r][s],
                 beats |-> beats[r][s], rlock |-> rlock[r][s], vv |-> version_vector[r][s],
                 store |-> store[r]]
<1>6. LinkOK(setting, s, l) /\ LinkType(l)
  BY <1>1, <1>3, LinkTypes DEF IInv
<1>7. /\ p.clock = l.clock /\ p.main = l.main /\ p.source = l.source /\ p.store = l.store
      /\ p.work = l.work /\ p.beats = l.beats /\ p.rlock = l.rlock /\ p.vv = l.vv
      /\ l.queue = q /\ p.queue = Append(q, u) /\ l.chan = chan[s][r] /\ p.chan = chan'[s][r]
      /\ l.work = work[r][s] /\ l.beats = beats[r][s] /\ l.store = store[r]
  BY LinkIs
<1>8. /\ m.clock = p.clock /\ m.main = p.main /\ m.source = p.source /\ m.store = p.store
      /\ m.beats = p.beats /\ m.rlock = p.rlock /\ m.vv = p.vv /\ m.chan = p.chan
      /\ m.queue = update_queue'[r][s] /\ m.work = work'[r][s]
  BY <1>2, LinkIsNext
<1> HIDE DEF l, m, p, u, q
<1>9. LinkType(p)
  <2>1. Append(q, u) \in Seq(Update)
    BY <1>4
  <2>2. p.chan \in Seq(Message)
    BY <1>4, <1>5, <1>7
  <2> QED  BY <1>6, <1>7, <2>1, <2>2 DEF LinkType
<1>10. Put(p) = Put(l) /\ Put(m) = Put(p)
  BY <1>7, <1>8 DEF Put
<1>11. /\ l.chan # <<>> /\ Head(l.chan).type = "update" /\ p.chan = Tail(l.chan)
       /\ p.queue = Append(l.queue, Head(l.chan).update) /\ u = Head(l.chan).update
  BY <1>2, <1>5, <1>7 DEF u
<1>12. FlightOK(setting, s, p) /\ (setting.single_core => l.vv < u.item.ut)
  BY <1>6, <1>7, <1>9, <1>10, <1>11, UpdateArrives
<1>13. CASE q # <<>> /\ update_queue' = [update_queue EXCEPT ![r][s] = Append(q, u)] /\ UNCHANGED work
  <2>1. Append(q, u) \in Seq(Update)
    BY <1>4
  <2>2. /\ update_queue' \in [Replica -> [Replica -> Seq(Update)]]
        /\ update_queue'[r][s] = Append(q, u)
        /\ \A a, b \in Replica : a # r \/ b # s => update_queue'[a][b] = update_queue[a][b]
    BY <1>1, <1>13, <2>1 DEF Types
  <2>3. Types'
    BY <1>1, <1>2, <1>5, <1>13, <2>2 DEF Types
  <2>4. m.queue = p.queue /\ m.work = p.work
    BY <1>7, <1>8, <1>13, <2>2
  <2>5. LinkType(m)
    BY <2>3, LinkTypesNext DEF m
  <2>6. ServedOK(setting, p)
    BY <1>6, <1>7, <1>13 DEF LinkOK, ServedOK
  <2>7. LinkOK(setting, s, p)
    BY <1>12, <2>6 DEF LinkOK
  <2>8. p.clock <= m.clock
    BY <1>8, <1>9, LinkFacts
  <2>9. LinkOK(setting, s, Link(r, s)')
    BY <1>8, <1>9, <1>10, <2>4, <2>5, <2>7, <2>8, ClockGrows DEF m
  <2> QED  BY <1>2, <1>3, <1>5, <1>13, <2>2, <2>3, <2>9, ReceiveStep
<1>14. CASE /\ q = <<>>
            /\ \/ setting.protocol = "gr" /\ Work(r, s, <<u>>)
               \/ setting.protocol = "grv" /\ GrvWork(r, s, <<u>>)
  <2> DEFINE q1 == <<u>>
  <2>0. \/ setting.protocol = "gr" /\ Work(r, s, q1)
        \/ setting.protocol = "grv" /\ GrvWork(r, s, q1)
    BY <1>14
  <2>1. p.queue = q1 /\ q1 \in Seq(Update)
    BY <1>4, <1>7, <1>14
  <2> HIDE DEF q1
  <2>2. p.store = store[r] /\ setting.protocol \in {"gr", "grv"}
    BY <1>1, <1>7, SettingFacts
  <2>3. /\ Worked(setting, p, q1, update_queue'[r][s], work'[r][s])
        /\ update_queue' \in [Replica -> [Replica -> Seq(Update)]]
        /\ work' \in [Replica -> [Replica -> {Idle} \cup OpenChain]]
        /\ \A a, b \in Replica : a # r \/ b # s =>
                update_queue'[a][b] = update_queue[a][b] /\ work'[a][b] = work[a][b]
    BY ONLY <1>1, <2>0, <2>1, <2>2, WorkIs
  <2>4. Worked(setting, p, p.queue, m.queue, m.work)
    BY <1>8, <2>1, <2>3
  <2>6. Types'
    BY <1>1, <1>2, <1>5, <2>3 DEF Types
  <2>7. LinkType(m)
    BY <2>6, LinkTypesNext DEF m
  <2>8. p.work = Idle
    <3>1. l.work.stage = "idle"
      BY <1>6, <1>7, <1>14 DEF LinkOK, FlightOK, ChainOK
    <3>2. l.work \in {Idle} \cup OpenChain
      BY <1>6 DEF LinkType
    <3> QED  BY <1>7, <3>1, <3>2 DEF OpenChain
  <2>9. setting.single_core => p.beats = {} /\ \A v \in Queued(p) : p.vv < v.item.ut
    <3>1. ASSUME NEW v \in Queued(p) PROVE v = u
      <4>1. PICK i \in DOMAIN p.queue : v = p.queue[i]
        BY ONLY <3>1, FlightIs
      <4> QED  BY ONLY <2>1, <4>1 DEF q1
    <3> QED  BY <1>2, <1>7, <1>12, <3>1, CoreIs
  <2>10. LinkOK(setting, s, Link(r, s)')
    BY <1>8, <1>9, <1>10, <1>12, <2>2, <2>4, <2>7, <2>8, <2>9, WorkDone DEF m
  <2> QED  BY <1>2, <1>3, <1>5, <2>3, <2>6, <2>10, ReceiveStep
<1> QED  BY <1>13, <1>14 DEF ProcessReplicaUpdate, GrvProcessReplicaUpdate, q, u

\* An update is applied.
LEMMA ReplicaUpdateLockedStep ==
    ASSUME IInv, UNCHANGED setting, NEW r \in Replica, NEW s \in Replica,
           ReplicaUpdateLocked(r, s)
    PROVE  IInv'
<1> DEFINE u == work[r][s].update
           k == u.key
           chain == store[r][k]
           new == PutValue(chain, u.item)
<1>1. Types /\ \A x \in Replica : ReplicaOK(x)
  BY DEF IInv
<1>2. \A a, b \in Replica : a # b => LinkOK(setting, b, Link(a, b))
  BY DEF IInv
<1>3. /\ work[r][s].stage = "locking" /\ rlock[r][s] = "free"
      /\ UNCHANGED <<clock, next_tick, ticking, update_queue, main, beats, chan>>
  BY DEF ReplicaUpdateLocked
<1>4. r # s
  BY <1>1, <1>3 DEF ReplicaOK, Idle
<1>5. /\ LinkOK(setting, s, Link(r, s)) /\ LinkType(Link(r, s))
      /\ work[r][s] = [stage |-> "locking", update |-> u] /\ u \in Update
  <2>1. work[r][s] \in {Idle} \cup OpenChain
    BY <1>1 DEF Types
  <2>2. work[r][s] \in OpenChain
    BY <1>3, <2>1 DEF Idle
  <2> QED  BY <1>1, <1>2, <1>3, <1>4, <2>2, LinkTypes DEF OpenChain
<1>6. /\ k \in Key /\ u.item \in Item /\ u.item.ut \in Time /\ u.item.sr = s
      /\ s \in setting.writers[k]
      /\ \A item \in Members(store[r][k]) : item.sr = s => item.ut < u.item.ut
  <2> DEFINE l == Link(r, s)
  <2>1. l.queue = update_queue[r][s] /\ l.work = work[r][s] /\ l.store = store[r]
    BY LinkIs
  <2>2. SourceOK(setting.writers, s, l) /\ ChainOK(l) /\ l.queue \in Seq(Update)
    BY <1>5 DEF LinkOK, FlightOK, LinkType
  <2> HIDE DEF l
  <2>3. l.queue # <<>> /\ Head(l.queue) = u
    BY <1>3, <2>1, <2>2 DEF ChainOK
  <2>4. 1 \in DOMAIN l.queue /\ (l.work.stage = "unlocking" => 1 # 1) /\ u = l.queue[1]
    BY <1>3, <2>1, <2>2, <2>3, TailIs
  <2>5. u \in Flight(l)
    BY ONLY <2>4, FlightIs
  <2>6. k \in Key /\ u.item \in Item /\ u.item.ut \in Time
    BY <1>5, FieldFacts
  <2> QED  BY <2>1, <2>2, <2>5, <2>6 DEF SourceOK
<1>7. chain \in Seq(Item)
  BY <1>1, <1>6 DEF Types
<1>8. new \in Seq(Item) /\ \A x \in Members(new) : x \in Members(chain) \/ x = u.item
  BY <1>6, <1>7, PutMembers
<1>9. /\ store' = [store EXCEPT ![r][k] = new]
      /\ version_vector' = [version_vector EXCEPT ![r][s] = u.item.ut]
      /\ rlock' = [rlock EXCEPT ![r][s] = "update"]
      /\ work' = [work EXCEPT ![r][s] = [stage |-> "unlocking", update |-> u]]
  <2>1. [work[r][s] EXCEPT !.stage = "unlocking"] = [stage |-> "unlocking", update |-> u]
    BY <1>5
  <2>2. work' = [work EXCEPT ![r][s] = [work[r][s] EXCEPT !.stage = "unlocking"]]
    BY <1>1 DEF ReplicaUpdateLocked, Types
  <2>3. /\ store' = [store EXCEPT ![r][k] = new]
        /\ version_vector' = [version_vector EXCEPT ![r][s] = u.item.ut]
        /\ rlock' = [rlock EXCEPT ![r][s] = "update"]
    BY <1>6 DEF ReplicaUpdateLocked
  <2> QED  BY <2>1, <2>2, <2>3
<1> HIDE DEF u, new, k
<1>10. /\ store' \in [Replica -> [Key -> Seq(Item)]]
       /\ store'[r] = [store[r] EXCEPT ![k] = new]
       /\ store'[r][k] = new /\ \A j \in Key \ {k} : store'[r][j] = store[r][j]
       /\ \A x \in Replica : x # r => store'[x] = store[x]
  BY <1>1, <1>6, <1>8, <1>9 DEF Types
<1>11. /\ version_vector' \in [Replica -> [Replica -> Time]]
       /\ rlock' \in [Replica -> [Replica -> {"free", "update", "heartbeat"}]]
       /\ version_vector'[r][s] = u.item.ut /\ rlock'[r][s] = "update"
       /\ \A a, b \in Replica : a # r \/ b # s =>
            version_vector'[a][b] = version_vector[a][b] /\ rlock'[a][b] = rlock[a][b]
  BY <1>1, <1>6, <1>9 DEF Types
<1>12. /\ work' \in [Replica -> [Replica -> {Idle} \cup OpenChain]]
       /\ work'[r][s] = [stage |-> "unlocking", update |-> u]
       /\ \A a, b \in Replica : a # r \/ b # s => work'[a][b] = work[a][b]
  <2>1. [stage |-> "unlocking", update |-> u] \in OpenChain
    BY <1>5 DEF OpenChain
  <2> QED  BY <1>1, <1>9, <2>1 DEF Types
<1>13. Types'
  BY <1>1, <1>3, <1>10, <1>11, <1>12 DEF Types
<1>14. ASSUME NEW x \in Replica PROVE ReplicaOK(x)'
  <2>1. ReplicaOK(x)
    BY <1>1
  <2>2. /\ work'[x][x] = work[x][x] /\ rlock'[x][x] = rlock[x][x]
        /\ version_vector'[x][x] = version_vector[x][x]
    <3>1. x # r \/ x # s
      BY <1>4
    <3> QED  BY <1>11, <1>12, <3>1
  <2>3. ASSUME NEW j \in Key
        PROVE  /\ Sorted(store'[x][j])
               /\ \A i \in Members(store'[x][j]) :
                    i.sr \in setting.writers[j] /\ (i.sr = x => i.ut <= clock[x])
    <3>1. /\ Sorted(store[x][j])
          /\ \A i \in Members(store[x][j]) :
                i.sr \in setting.writers[j] /\ (i.sr = x => i.ut <= clock[x])
      BY <2>1 DEF ReplicaOK
    <3>2. CASE x = r /\ j = k
      <4>1. u.item \notin Members(chain)
        <5>1. u.item.ut \in Int
          BY <1>6, TimeFacts
        <5> QED  BY <1>6, <5>1 DEF k
      <4>2. Sorted(new)
        BY <1>6, <1>7, <3>1, <3>2, <4>1, PutSorted DEF new, k
      <4> QED  BY <1>4, <1>6, <1>8, <1>10, <3>1, <3>2, <4>2
    <3>3. CASE x # r \/ j # k
      <4>1. store'[x][j] = store[x][j]
        BY <1>10, <3>3
      <4> QED  BY <3>1, <4>1
    <3> QED  BY <3>2, <3>3
  <2> QED  BY <1>3, <2>1, <2>2, <2>3 DEF ReplicaOK
<1>15. ASSUME NEW a \in Replica, NEW b \in Replica, a # b
       PROVE  LinkOK(setting, b, Link(a, b)')
  <2> DEFINE l == Link(a, b)
             m == Link(a, b)'
  <2>1. LinkOK(setting, b, l) /\ LinkType(l) /\ LinkType(m)
    BY <1>1, <1>2, <1>13, <1>15, LinkTypes, LinkTypesNext
  <2>2. /\ m.clock = l.clock /\ m.main = l.main /\ m.chan = l.chan /\ m.queue = l.queue
        /\ m.beats = l.beats
        /\ l.source = store[b] /\ m.source = store'[b] /\ l.store = store[a] /\ m.store = store'[a]
        /\ l.work = work[a][b] /\ m.work = work'[a][b]
        /\ l.rlock = rlock[a][b] /\ m.rlock = rlock'[a][b]
        /\ l.vv = version_vector[a][b] /\ m.vv = version_vector'[a][b]
    BY <1>3, LinkIs, LinkIsNext
  <2> HIDE DEF l, m
  <2>3. Put(m) = Put(l)
    BY <2>2 DEF Put
  <2>4. CASE a = r /\ b = s
    <3>1. m.source = l.source
      BY <1>4, <1>10, <2>2, <2>4
    <3>2. m.store = [l.store EXCEPT ![u.key] = PutValue(l.store[u.key], u.item)]
      BY <1>10, <2>2, <2>4 DEF new, k
    <3>3. /\ l.work.stage = "locking" /\ u = l.work.update
          /\ m.work.stage = "unlocking" /\ m.work.update = u /\ m.rlock = "update"
          /\ m.vv = u.item.ut
      BY <1>3, <1>11, <1>12, <2>2, <2>4 DEF u
    <3> QED  BY <2>1, <2>2, <2>3, <2>4, <3>1, <3>2, <3>3, UpdateApplied DEF m
  <2>5. CASE a # r \/ b # s
    <3>1. m.work = l.work /\ m.rlock = l.rlock /\ m.vv = l.vv
      BY <1>11, <1>12, <2>2, <2>5
    <3>2. CASE a = r
      <4>1. m.store = [l.store EXCEPT ![k] = PutValue(l.store[k], u.item)] /\ m.source = l.source
        BY <1>10, <1>15, <2>2, <3>2 DEF new
      <4>2. u.item.sr # b /\ u.item.sr \in setting.writers[k]
        BY <1>6, <2>5, <3>2
      <4> QED  BY <1>6, <2>1, <2>2, <2>3, <3>1, <4>1, <4>2, OtherPut DEF m
    <3>3. CASE b = r
      <4>1. m.source = [l.source EXCEPT ![k] = PutValue(l.source[k], u.item)] /\ m.store = l.store
        BY <1>10, <1>15, <2>2, <3>3 DEF new
      <4>2. u.item.sr # b /\ u.item.sr \in setting.writers[k]
        BY <1>4, <1>6, <3>3
      <4> QED  BY <1>6, <2>1, <2>2, <2>3, <3>1, <4>1, <4>2, OtherPut DEF m
    <3>4. CASE a # r /\ b # r
      <4>1. m.source = l.source /\ m.store = l.store
        BY <1>10, <2>2, <3>4
      <4>2. l.clock <= m.clock
        BY <2>1, <2>2, LinkFacts
      <4> QED  BY <2>1, <2>2, <2>3, <3>1, <4>1, <4>2, ClockGrows DEF m
    <3> QED  BY <3>2, <3>3, <3>4
  <2> QED  BY <2>4, <2>5
<1> QED  BY <1>13, <1>14, <1>15 DEF IInv

\* An applied update is taken off its queue, and the next one started.
LEMMA ReplicaUpdateUnlockedStep ==
    ASSUME IInv, UNCHANGED setting, NEW r \in Replica, NEW s \in Replica,
           \/ setting.protocol = "gr" /\ ReplicaUpdateUnlocked(r, s)
           \/ setting.protocol = "grv" /\ GrvReplicaUpdateVvUnlocked(r, s)
    PROVE  IInv'
<1> DEFINE q == Tail(update_queue[r][s])
<1>1. Types /\ ReplicaOK(r)
  BY DEF IInv
<1>2. /\ work[r][s].stage = "unlocking" /\ rlock' = [rlock EXCEPT ![r][s] = "free"]
      /\ UNCHANGED <<clock, next_tick, ticking, version_vector, store, main, beats, chan>>
  BY DEF ReplicaUpdateUnlocked, GrvReplicaUpdateVvUnlocked
<1>3. \/ setting.protocol = "gr" /\ Work(r, s, q)
      \/ setting.protocol = "grv" /\ GrvWork(r, s, q)
  BY DEF ReplicaUpdateUnlocked, GrvReplicaUpdateVvUnlocked
<1>4. r # s
  BY <1>1, <1>2 DEF ReplicaOK, Idle
<1> DEFINE l == Link(r, s)
           m == Link(r, s)'
           p == [clock |-> clock[s], main |-> main[s], source |-> store[s],
                 chan |-> chan[s][r], queue |-> q, work |-> Idle,
                 beats |-> beats[r][s], rlock |-> "free", vv |-> version_vector[r][s],
                 store |-> store[r]]
<1>5. LinkOK(setting, s, l) /\ LinkType(l)
  BY <1>1, <1>4, LinkTypes DEF IInv
<1>6. /\ p.clock = l.clock /\ p.main = l.main /\ p.source = l.source /\ p.store = l.store
      /\ p.beats = l.beats /\ p.vv = l.vv /\ p.chan = l.chan
      /\ p.queue = q /\ p.queue = Tail(l.queue) /\ l.queue = update_queue[r][s]
      /\ p.work = Idle /\ p.rlock = "free" /\ l.work = work[r][s] /\ l.store = store[r]
  BY LinkIs
<1>7. /\ m.clock = p.clock /\ m.main = p.main /\ m.source = p.source /\ m.store = p.store
      /\ m.beats = p.beats /\ m.vv = p.vv /\ m.chan = p.chan
      /\ m.queue = update_queue'[r][s] /\ m.work = work'[r][s] /\ m.rlock = rlock'[r][s]
  <2>1. UNCHANGED <<clock, version_vector, store, main, beats, chan>>
    BY <1>2
  <2> QED  BY ONLY <2>1, LinkIsNext
<1> HIDE DEF l, m, p
<1>8. q \in Seq(Update)
  <2>1. update_queue[r][s] \in Seq(Update)
    BY <1>1 DEF Types
  <2>2. update_queue[r][s] # <<>>
    BY <1>2, <1>5, <1>6 DEF LinkOK, FlightOK, ChainOK
  <2> QED  BY <2>1, <2>2, TailIs
<1> HIDE DEF q
<1>9. /\ Worked(setting, p, q, update_queue'[r][s], work'[r][s])
      /\ update_queue' \in [Replica -> [Replica -> Seq(Update)]]
      /\ work' \in [Replica -> [Replica -> {Idle} \cup OpenChain]]
      /\ \A a, b \in Replica : a # r \/ b # s =>
            update_queue'[a][b] = update_queue[a][b] /\ work'[a][b] = work[a][b]
  <2>1. p.store = store[r]
    BY <1>6
  <2> QED  BY ONLY <1>1, <1>3, <1>8, <2>1, WorkIs
<1>10. /\ rlock' \in [Replica -> [Replica -> {"free", "update", "heartbeat"}]]
       /\ rlock'[r][s] = "free"
       /\ \A a, b \in Replica : a # r \/ b # s => rlock'[a][b] = rlock[a][b]
  BY <1>1, <1>2 DEF Types
<1>11. Types'
  BY <1>1, <1>2, <1>9, <1>10 DEF Types
<1>12. LinkType(m) /\ LinkType(p)
  <2>1. LinkType(m)
    BY <1>11, LinkTypesNext DEF m
  <2>2. LinkType(p)
    BY <1>5, <1>6, <1>8 DEF LinkType
  <2> QED  BY <2>1, <2>2
<1>13. Put(p) = Put(l) /\ Put(m) = Put(p)
  BY <1>6, <1>7 DEF Put
<1>14. l.work.stage = "unlocking"
  BY <1>2, <1>6
<1>15. /\ FlightOK(setting, s, p)
       /\ setting.single_core => p.beats = {} /\ \A u \in Queued(p) : p.vv < u.item.ut
  BY <1>5, <1>6, <1>12, <1>13, <1>14, UpdateDequeued
<1>16. Worked(setting, p, p.queue, m.queue, m.work) /\ m.rlock = p.rlock
  BY <1>6, <1>7, <1>9, <1>10
<1>17. setting.protocol \in {"gr", "grv"}
  BY <1>1, SettingFacts
<1>18. LinkOK(setting, s, Link(r, s)')
  BY <1>6, <1>7, <1>12, <1>13, <1>15, <1>16, <1>17, WorkDone DEF m
<1> QED  BY <1>2, <1>4, <1>9, <1>10, <1>11, <1>18, ReceiveStep

\* A state in which nothing changes
LEMMA StutterStep ==
    ASSUME IInv, UNCHANGED vars
    PROVE  IInv'
<1>1. /\ setting' = setting /\ clock' = clock /\ next_tick' = next_tick /\ ticking' = ticking
      /\ version_vector' = version_vector /\ store' = store /\ update_queue' = update_queue
      /\ main' = main /\ work' = work /\ beats' = beats /\ rlock' = rlock /\ chan' = chan
  BY DEF vars, state
<1>2. Types'
  BY <1>1 DEF IInv, Types
<1>3. ASSUME NEW x \in Replica PROVE ReplicaOK(x)'
  BY <1>1 DEF IInv, ReplicaOK
<1>4. ASSUME NEW a \in Replica, NEW b \in Replica PROVE Link(a, b)' = Link(a, b)
  BY <1>1 DEF Link
<1> QED  BY <1>1, <1>2, <1>3, <1>4 DEF IInv

\* Every step of gr and of grv keeps the invariant.
LEMMA NextStep ==
    ASSUME IInv, [ProtocolNext]_vars
    PROVE  IInv'
<1>1. CASE setting.protocol = "gr" /\ Next
  <2>1. CASE UNCHANGED vars
    BY <2>1, StutterStep
  <2>2. ASSUME UNCHANGED setting, NEW r \in Replica, Main(r) PROVE IInv'
    BY <2>2, PutRequestUnlockedStep, ClockTickStep, ClockTickLockedStep, ClockTickUnlockedStep
    DEF Main
  <2>3. ASSUME UNCHANGED setting, NEW r \in Replica, NEW k \in Key, NEW c \in Clock,
               PutRequestLocked(r, k, c)
        PROVE  IInv'
    BY <2>3, PutRequestLockedStep
  <2>4. ASSUME UNCHANGED setting, NEW r \in Replica, NEW s \in Replica, Receive(r, s)
        PROVE  IInv'
    BY <1>1, <2>4, ProcessHeartbeatStep, HeartbeatLockedStep, HeartbeatUnlockedStep,
       ProcessReplicaUpdateStep, ReplicaUpdateLockedStep, ReplicaUpdateUnlockedStep
    DEF Receive
  <2> QED  BY <1>1, <2>1, <2>2, <2>3, <2>4 DEF Next, Stopped
<1>2. CASE setting.protocol = "grv" /\ GrvNext
  <2>1. CASE UNCHANGED vars
    BY <2>1, StutterStep
  <2>2. ASSUME UNCHANGED setting, NEW r \in Replica, GrvMain(r) PROVE IInv'
    BY <2>2, PutRequestUnlockedStep, ClockTickStep, GrvClockTickLockedStep, ClockTickUnlockedStep
    DEF GrvMain, GrvPutRequestUnlocked, GrvClockTick, GrvClockTickUnlocked
  <2>3. ASSUME UNCHANGED setting, NEW r \in Replica, NEW k \in Key, NEW c \in Clock,
               GrvPutRequestLocked(r, k, c)
        PROVE  IInv'
    BY <2>3, PutRequestLockedStep DEF GrvPutRequestLocked
  <2>4. ASSUME UNCHANGED setting, NEW r \in Replica, NEW s \in Replica, GrvReceive(r, s)
        PROVE  IInv'
    BY <1>2, <2>4, ProcessHeartbeatStep, HeartbeatLockedStep, HeartbeatUnlockedStep,
       ProcessReplicaUpdateStep, ReplicaUpdateLockedStep, ReplicaUpdateUnlockedStep
    DEF GrvReceive, GrvHeartbeatLocked, GrvReplicaUpdateVvLocked
  <2> QED  BY <1>2, <2>1, <2>2, <2>3, <2>4 DEF GrvNext, Stopped
<1>3. CASE UNCHANGED vars
  BY <1>3, StutterStep
<1> QED  BY <1>1, <1>2, <1>3 DEF ProtocolNext

\* A link on which nothing has been sent
LEMMA EmptyLink ==
    ASSUME NEW z, NEW s, NEW l, LinkType(l),
           l.clock = 0, l.vv = 0, l.main = Idle, l.work = Idle, l.rlock = "free",
           l.chan = <<>>, l.queue = <<>>, l.beats = {},
           \A k \in Key : l.source[k] = <<>> /\ l.store[k] = <<>>
    PROVE  LinkOK(z, s, l)
<1>1. DOMAIN l.chan = {} /\ DOMAIN l.queue = {}
  OBVIOUS
<1>2. l.main.stage = "idle" /\ l.work.stage = "idle"
  BY DEF Idle
<1>3. Queued(l) = {} /\ Sent(l) = {} /\ Put(l) = {}
  BY <1>1, <1>2 DEF Queued, Sent, Put
<1>4. Flight(l) = {}
  BY <1>3 DEF Flight
<1>5. \A k \in Key : /\ Members(l.source[k]) = {} /\ Members(l.store[k]) = {}
                     /\ Latest(l.source[k]) = Latest(l.store[k]) /\ Latest(l.store[k]).ut = 0
  <2> TAKE k \in Key
  <2>1. l.source[k] = <<>> /\ l.store[k] = <<>> /\ l.store[k] \in Seq(Item)
    BY LinkFacts
  <2> QED  BY <2>1, LatestIs
<1>6. OrderOK(l)
  BY <1>1, <1>3 DEF OrderOK
<1>7. SourceOK(z.writers, s, l) /\ CoverOK(s, l)
  BY <1>1, <1>4, <1>5 DEF SourceOK, CoverOK
<1>8. CoreOK(z.single_core, l) /\ ChainOK(l) /\ ServedOK(z, l)
  BY <1>2, <1>3 DEF CoreOK, ChainOK, ServedOK
<1>9. ReplacedOK(z.writers, s, l)
  BY <1>4, <1>5 DEF ReplacedOK, Replaced
<1> QED  BY <1>6, <1>7, <1>8, <1>9 DEF FlightOK, LinkOK

\* The invariant holds at the start.
LEMMA InitStep ==
    ASSUME Init
    PROVE  IInv
<1>1. /\ \A x \in Replica :
            /\ clock[x] = 0 /\ main[x] = Idle
            /\ \A k \in Key : store[x][k] = <<>>
      /\ \A a, b \in Replica :
            /\ version_vector[a][b] = 0 /\ update_queue[a][b] = <<>> /\ work[a][b] = Idle
            /\ beats[a][b] = {} /\ rlock[a][b] = "free" /\ chan[b][a] = <<>>
  BY DEF Init
<1>2. Types
  <2>1. 0 \in Time /\ Interval \in Nat
    BY TimeFacts, ReplicationAssumption
  <2>2. <<>> \in Seq(Item) /\ <<>> \in Seq(Update) /\ <<>> \in Seq(Message)
    OBVIOUS
  <2> QED  BY <2>1, <2>2 DEF Init, Types
<1>3. ASSUME NEW x \in Replica PROVE ReplicaOK(x)
  <2>1. \A k \in Key : Sorted(store[x][k]) /\ Members(store[x][k]) = {}
    BY <1>1 DEF Sorted, Members
  <2>2. /\ version_vector[x][x] <= clock[x]
        /\ chan[x][x] = <<>> /\ update_queue[x][x] = <<>>
        /\ work[x][x] = Idle /\ beats[x][x] = {} /\ rlock[x][x] = "free"
    BY <1>1
  <2> QED  BY <2>1, <2>2 DEF ReplicaOK
<1>4. ASSUME NEW a \in Replica, NEW b \in Replica PROVE LinkOK(setting, b, Link(a, b))
  <2> DEFINE l == Link(a, b)
  <2>1. LinkType(l)
    BY <1>2, LinkTypes
  <2>2. /\ l.clock = 0 /\ l.vv = 0 /\ l.main = Idle /\ l.work = Idle /\ l.rlock = "free"
        /\ l.chan = <<>> /\ l.queue = <<>> /\ l.beats = {}
        /\ \A k \in Key : l.source[k] = <<>> /\ l.store[k] = <<>>
    BY <1>1, LinkIs
  <2> HIDE DEF l
  <2>3. LinkOK(setting, b, l)
    BY <2>1, <2>2, EmptyLink
  <2> QED  BY <2>3 DEF l
<1> QED  BY <1>2, <1>3, <1>4 DEF IInv

\* The invariant holds in every state of either protocol: what is in flight
\* from one replica to another is in the order of its times, between what has
\* arrived and the clock of the source.
THEOREM InvariantHolds == ProtocolSpec => []IInv
<1>1. Init => IInv
  BY InitStep
<1>2. IInv /\ [ProtocolNext]_vars => IInv'
  BY NextStep
<1> QED  BY <1>1, <1>2, PTL DEF ProtocolSpec

-----------------------------------------------------------------------------
(***************************************************************************)
(* The properties                                                          *)
(***************************************************************************)
\* A key that at most one replica puts has one writer.
LEMMA ConflictFreeIs ==
    ASSUME Types, ConflictFree
    PROVE  OneWriter(setting.writers)
<1> SUFFICES ASSUME NEW k \in Key, NEW a \in setting.writers[k], NEW b \in setting.writers[k], a # b
             PROVE  FALSE
  BY DEF OneWriter
<1> DEFINE W == setting.writers[k]
<1>1. W \subseteq Replica
  BY SettingFacts
<1>2. IsFiniteSet(Replica)
  BY FS_Interval, ReplicationAssumption DEF Replica
<1>3. IsFiniteSet(W) /\ Cardinality(W) \in Nat
  BY <1>1, <1>2, FS_Subset, FS_CardinalityType
<1>4. Cardinality({a}) = 1 /\ IsFiniteSet({a})
  BY FS_Singleton
<1>5. Cardinality({a} \cup {b}) = 2
  BY <1>4, FS_AddElement
<1>6. {a} \cup {b} \subseteq W
  OBVIOUS
<1>7. Cardinality({a} \cup {b}) <= Cardinality(W)
  BY <1>3, <1>6, FS_Subset
<1>8. Cardinality(W) <= 1
  BY DEF ConflictFree
<1> HIDE DEF W
<1> QED  BY <1>3, <1>5, <1>7, <1>8

\* The links of a lossless setting serve their queues.
LEMMA LosslessIs ==
    ASSUME IInv, Lossless, NEW r \in Replica, NEW s \in Replica, update_queue[r][s] # <<>>
    PROVE  work[r][s].stage # "idle"
<1>1. Types /\ ReplicaOK(r)
  BY DEF IInv
<1>2. r # s
  BY <1>1 DEF ReplicaOK
<1>3. ServedOK(setting, Link(r, s))
  BY <1>2 DEF IInv, LinkOK
<1>4. setting.protocol = "grv" \/ OneWriter(setting.writers)
  BY <1>1, ConflictFreeIs DEF Lossless
<1>5. Link(r, s).queue = update_queue[r][s] /\ Link(r, s).work = work[r][s]
  BY LinkIs
<1> QED  BY <1>3, <1>4, <1>5 DEF ServedOK

\* Every variable has the type its C declaration and use give it.
THEOREM TypeCorrect == ProtocolSpec => []TypeOK
<1>1. ASSUME IInv PROVE TypeOK
  <2>1. Types
    BY <1>1 DEF IInv
  <2>2. ASSUME NEW r \in Replica
        PROVE  /\ \A k \in Key : Members(store[r][k]) \subseteq Item
               /\ main[r].stage \in {"idle", "put", "tick"}
    <3>1. \A k \in Key : store[r][k] \in Seq(Item)
      BY <2>1 DEF Types
    <3>2. main[r] \in {Idle} \cup PutMain \cup TickMain
      BY <2>1 DEF Types
    <3>3. main[r].stage \in {"idle", "put", "tick"}
      BY <3>2 DEF Idle, PutMain, TickMain
    <3> QED  BY <3>1, <3>3, LatestIs
  <2>3. ASSUME NEW r \in Replica, NEW s \in Replica
        PROVE  /\ Members(update_queue[r][s]) \subseteq Update
               /\ work[r][s].stage \in {"idle", "locking", "unlocking"}
               /\ beats[r][s] \subseteq Time
               /\ rlock[r][s] \in {"free", "update", "heartbeat"}
               /\ \A m \in Members(chan[s][r]) : m.type \in {"update", "heartbeat"}
    <3>1. /\ update_queue[r][s] \in Seq(Update) /\ chan[s][r] \in Seq(Message)
          /\ beats[r][s] \subseteq Time /\ rlock[r][s] \in {"free", "update", "heartbeat"}
          /\ work[r][s] \in {Idle} \cup OpenChain
      BY <2>1 DEF Types
    <3>2. work[r][s].stage \in {"idle", "locking", "unlocking"}
      BY <3>1 DEF Idle, OpenChain
    <3>3. \A i \in DOMAIN chan[s][r] : chan[s][r][i].type \in {"update", "heartbeat"}
      BY <3>1, MessageFacts
    <3>4. \A i \in DOMAIN update_queue[r][s] : update_queue[r][s][i] \in Update
      BY <3>1
    <3> QED  BY <3>1, <3>2, <3>3, <3>4 DEF Members
  <2> QED  BY <2>1, <2>2, <2>3 DEF TypeOK, Types
<1> QED  BY <1>1, InvariantHolds, PTL

\* The version chain of a key that a read at a snapshot time walks
\* (gr/store.c) is newest first and has no version twice.
THEOREM ChainsAreSorted == ProtocolSpec => []ChainsSorted
<1>1. ASSUME IInv PROVE ChainsSorted
  BY <1>1 DEF IInv, ReplicaOK, Sorted, ChainsSorted
<1> QED  BY <1>1, InvariantHolds, PTL

\* A chain takes the update off the queue that it has applied, and releases
\* the lock that it holds: the assertions of gr/replication.c and
\* grv/replication.c never fail.
THEOREM ChainsDequeueTheirUpdate == ProtocolSpec => []DequeuesWhatItApplied
<1>1. ASSUME IInv PROVE DequeuesWhatItApplied
  <2> SUFFICES ASSUME NEW r \in Replica, NEW s \in Replica
               PROVE  /\ work[r][s].stage # "idle" =>
                            /\ update_queue[r][s] # <<>>
                            /\ Head(update_queue[r][s]) = work[r][s].update
                      /\ (work[r][s].stage = "unlocking") <=> (rlock[r][s] = "update")
    BY DEF DequeuesWhatItApplied
  <2>1. CASE r = s
    BY <1>1, <2>1 DEF IInv, ReplicaOK, Idle
  <2>2. CASE r # s
    <3>1. ChainOK(Link(r, s))
      BY <1>1, <2>2 DEF IInv, LinkOK, FlightOK
    <3>2. /\ Link(r, s).queue = update_queue[r][s] /\ Link(r, s).work = work[r][s]
          /\ Link(r, s).rlock = rlock[r][s]
      BY LinkIs
    <3> QED  BY <3>1, <3>2 DEF ChainOK
  <2> QED  BY <2>1, <2>2
<1> QED  BY <1>1, InvariantHolds, PTL

\* No update is left in a queue without a chain that works on it: under gr as
\* long as updates do not conflict, under grv in any case.
THEOREM QueuesServed == ProtocolSpec => []QueuesAreServed
<1>1. ASSUME IInv PROVE QueuesAreServed
  BY <1>1, LosslessIs DEF QueuesAreServed, QueueIsServed
<1> QED  BY <1>1, InvariantHolds, PTL

\* What an entry of a version vector promises, for one core per server: when
\* r's entry for s is t, r has every version of s up to t, or a newer one of
\* the same key.
THEOREM VersionVectorIsCovered == ProtocolSpec => []VersionVectorCovers
<1>1. ASSUME IInv PROVE VersionVectorCovers
  <2> SUFFICES ASSUME setting.single_core, Lossless, NEW r \in Replica, NEW s \in Replica,
                      NEW k \in Key, NEW item \in Members(store[s][k]),
                      item.sr = s, item.ut <= version_vector[r][s]
               PROVE  \E other \in Members(store[r][k]) : ~Older(other, item)
    BY DEF VersionVectorCovers
  <2>1. item \in Item /\ item.ut \in Int
    <3>1. store[s][k] \in Seq(Item)
      BY <1>1 DEF IInv, Types
    <3>2. item \in Item
      BY <3>1, LatestIs
    <3> QED  BY <3>2, FieldFacts
  <2>2. CASE r = s
    BY <2>1, <2>2, OlderIs
  <2>3. CASE r # s
    <3> DEFINE l == Link(r, s)
    <3>1. LinkOK(setting, s, l) /\ LinkType(l)
      BY <1>1, <2>3, LinkTypes DEF IInv
    <3>2. /\ l.source = store[s] /\ l.store = store[r] /\ l.vv = version_vector[r][s]
          /\ l.queue = update_queue[r][s] /\ l.work = work[r][s]
      BY LinkIs
    <3> HIDE DEF l
    <3>3. CoverOK(s, l) /\ CoreOK(setting.single_core, l)
      BY <3>1 DEF LinkOK, FlightOK
    <3>4. ASSUME NEW u \in Flight(l), u.item = item PROVE FALSE
      <4>1. l.vv < u.item.ut
        <5>1. CASE u \in Sent(l) \cup Put(l)
          BY <3>3, <5>1 DEF CoreOK
        <5>2. CASE u \in Queued(l)
          <6>1. l.queue # <<>>
            BY ONLY <5>2, FlightIs
          <6>2. l.work.stage # "idle"
            BY <1>1, <3>2, <6>1, LosslessIs
          <6> QED  BY <3>3, <5>2, <6>2 DEF CoreOK
        <5> QED  BY <5>1, <5>2, FlightIs
      <4>2. l.vv \in Int
        BY <3>1, LinkFacts
      <4> QED  BY <2>1, <3>2, <3>4, <4>1, <4>2
    <3> QED  BY <3>2, <3>3, <3>4 DEF CoverOK
  <2> QED  BY <2>2, <2>3
<1> QED  BY <1>1, InvariantHolds, PTL

\* When nothing is in flight, what any replica has every other has, or newer.
LEMMA QuietCovers ==
    ASSUME IInv, Quiet, Lossless, NEW r \in Replica, NEW s \in Replica, NEW k \in Key,
           NEW item \in Members(store[s][k])
    PROVE  \E other \in Members(store[r][k]) : item.ut <= other.ut
<1>1. Types
  BY DEF IInv
<1>2. \A x \in Replica : store[x][k] \in Seq(Item)
  BY <1>1 DEF Types
<1>3. item \in Item /\ item.ut \in Int /\ item.sr \in Replica
  <2>1. item \in Item
    BY <1>2, LatestIs
  <2> QED  BY <2>1, FieldFacts
<1> DEFINE o == item.sr
<1>4. item \in Members(store[o][k])
  <2>1. CASE o = s
    BY <2>1
  <2>2. CASE o # s
    <3>1. SourceOK(setting.writers, o, Link(s, o))
      BY <1>3, <2>2 DEF IInv, LinkOK, FlightOK
    <3>2. Link(s, o).source = store[o] /\ Link(s, o).store = store[s]
      BY LinkIs
    <3> QED  BY <3>1, <3>2 DEF SourceOK
  <2> QED  BY <2>1, <2>2
<1>5. CASE r = o
  BY <1>3, <1>4, <1>5
<1>6. CASE r # o
  <2> DEFINE l == Link(r, o)
  <2>1. LinkOK(setting, o, l) /\ LinkType(l)
    BY <1>1, <1>3, <1>6, LinkTypes DEF IInv
  <2>2. /\ l.source = store[o] /\ l.store = store[r] /\ l.chan = chan[o][r] /\ l.main = main[o]
        /\ l.queue = update_queue[r][o] /\ l.work = work[r][o]
    BY LinkIs
  <2> HIDE DEF l
  <2>3. chan[o][r] = <<>> /\ main[o] = Idle /\ work[r][o].stage = "idle"
    BY <1>3 DEF Quiet, NoChain
  <2>4. update_queue[r][o] = <<>>
    BY <1>3, <2>3, LosslessIs
  <2>5. Queued(l) = {} /\ Sent(l) = {} /\ Put(l) = {}
    <3>1. DOMAIN l.queue = {} /\ DOMAIN l.chan = {} /\ l.main.stage = "idle"
      BY <2>2, <2>3, <2>4 DEF Idle
    <3> QED  BY <3>1 DEF Queued, Sent, Put
  <2>6. Flight(l) = {}
    BY <2>5 DEF Flight
  <2>7. CoverOK(o, l)
    BY <2>1 DEF LinkOK, FlightOK
  <2>8. PICK other \in Members(store[r][k]) : ~Older(other, item)
    BY <1>4, <2>2, <2>6, <2>7 DEF CoverOK
  <2>9. other \in Item
    BY <1>2, LatestIs
  <2> QED  BY <1>3, <2>8, <2>9, OlderIs
<1> QED  BY <1>5, <1>6

\* When nothing is in flight the replicas agree on the latest version of every
\* key: without conflicting puts under either protocol, and with them under
\* grv unless two clocks gave the very same time.
THEOREM ReplicasConverge == ProtocolSpec => []Convergence
<1>1. ASSUME IInv PROVE Convergence
  <2> SUFFICES ASSUME Quiet, ConflictFree \/ (setting.protocol = "grv" /\ NoTies),
                      NEW r \in Replica, NEW s \in Replica, NEW k \in Key
               PROVE  Latest(store[r][k]) = Latest(store[s][k])
    BY DEF Convergence
  <2>1. Lossless
    BY DEF Lossless
  <2>2. Types /\ \A x \in Replica : store[x][k] \in Seq(Item) /\ Sorted(store[x][k])
    BY <1>1 DEF IInv, Types, ReplicaOK
  <2>3. ASSUME NEW a \in Replica, NEW b \in Replica, store[b][k] # <<>>
        PROVE  store[a][k] # <<>> /\ Latest(store[b][k]).ut <= Latest(store[a][k]).ut
    <3> DEFINE top == Latest(store[b][k])
    <3>1. top \in Members(store[b][k]) /\ top.ut \in Int
      BY <2>2, <2>3, LatestIs
    <3> HIDE DEF top
    <3>2. PICK other \in Members(store[a][k]) : top.ut <= other.ut
      BY <1>1, <2>1, <3>1, QuietCovers
    <3>3. other.ut <= Latest(store[a][k]).ut /\ store[a][k] # <<>>
      BY <2>2, LatestIsNewest
    <3>4. other.ut \in Int /\ Latest(store[a][k]).ut \in Int
      BY <2>2, LatestIs, FieldFacts
    <3> QED  BY <3>1, <3>2, <3>3, <3>4 DEF top
  <2>4. CASE store[r][k] = <<>> /\ store[s][k] = <<>>
    BY <2>4
  <2>5. CASE store[r][k] # <<>> /\ store[s][k] # <<>>
    <3> DEFINE a == Latest(store[r][k])
               b == Latest(store[s][k])
    <3>1. a \in Members(store[r][k]) /\ b \in Members(store[s][k]) /\ a \in Item /\ b \in Item
      BY <2>2, <2>5, LatestIs
    <3>2. a.ut = b.ut
      <4>1. a.ut <= b.ut /\ b.ut <= a.ut
        BY <2>3, <2>5
      <4>2. a.ut \in Int /\ b.ut \in Int
        BY <3>1, FieldFacts
      <4> HIDE DEF a, b
      <4> QED  BY <4>1, <4>2
    <3> HIDE DEF a, b
    <3>3. CASE NoTies
      BY <3>1, <3>2, <3>3 DEF NoTies, a, b
    <3>4. CASE ConflictFree
      <4>1. OneWriter(setting.writers)
        BY <2>2, <3>4, ConflictFreeIs
      <4>2. a.sr \in setting.writers[k] /\ b.sr \in setting.writers[k]
        BY <1>1, <3>1 DEF IInv, ReplicaOK
      <4>3. a.sr = b.sr
        BY <4>1, <4>2 DEF OneWriter
      <4>4. a = b
        BY <3>1, <3>2, <4>3 DEF Item
      <4> QED  BY <4>4 DEF a, b
    <3> QED  BY <3>3, <3>4
  <2>6. store[r][k] = <<>> <=> store[s][k] = <<>>
    BY <2>3
  <2> QED  BY <2>4, <2>5, <2>6
<1> QED  BY <1>1, InvariantHolds, PTL

\* A step moves no entry of a version vector back: with one core per server
\* none at all, with any number of cores not a server's own.
LEMMA EntriesGrow ==
    ASSUME IInv, [ProtocolNext]_vars, NEW r \in Replica, NEW s \in Replica,
           setting.single_core \/ r = s
    PROVE  version_vector'[r][s] >= version_vector[r][s]
<1>1. Types /\ \A x \in Replica : ReplicaOK(x)
  BY DEF IInv
<1>2. /\ version_vector \in [Replica -> [Replica -> Time]] /\ clock \in [Replica -> Time]
      /\ \A x, y \in Replica : version_vector[x][y] \in Int
      /\ \A x \in Replica : clock[x] \in Int /\ version_vector[x][x] <= clock[x]
  <2>1. version_vector \in [Replica -> [Replica -> Time]] /\ clock \in [Replica -> Time]
    BY <1>1 DEF Types
  <2>2. \A t \in Time : t \in Int
    BY TimeFacts
  <2>3. \A x \in Replica : version_vector[x][x] <= clock[x]
    BY <1>1 DEF ReplicaOK
  <2>4. (\A x, y \in Replica : version_vector[x][y] \in Int) /\ \A x \in Replica : clock[x] \in Int
    BY ONLY <2>1, <2>2
  <2> QED  BY <2>1, <2>3, <2>4
<1>3. CASE version_vector' = version_vector
  BY <1>2, <1>3
<1>4. ASSUME NEW x \in Replica, NEW c \in Clock, c >= clock[x],
             \/ version_vector' = [version_vector EXCEPT ![x][x] = c]
             \/ version_vector' = version_vector
      PROVE  version_vector'[r][s] >= version_vector[r][s]
  <2>1. c \in Int
    BY <1>1, SettingFacts
  <2>2. version_vector[x][x] <= c
    BY <1>2, <1>4, <2>1
  <2>3. \/ version_vector'[r][s] = version_vector[r][s]
        \/ r = x /\ s = x /\ version_vector'[r][s] = c
    BY <1>2, <1>4
  <2> QED  BY <1>2, <2>1, <2>2, <2>3
<1>5. ASSUME NEW x \in Replica, NEW y \in Replica, NEW t \in Time, HeartbeatLocked(x, y, t)
      PROVE  version_vector'[r][s] >= version_vector[r][s]
  <2> DEFINE v == version_vector[x][y]
  <2>1. version_vector' = [version_vector EXCEPT ![x][y] = IF v < t THEN t ELSE v]
    BY <1>2, <1>5 DEF HeartbeatLocked
  <2>2. t \in Int /\ v \in Int
    BY <1>2, TimeFacts
  <2>3. \/ version_vector'[r][s] = version_vector[r][s]
        \/ r = x /\ s = y /\ version_vector'[r][s] = IF v < t THEN t ELSE v
    BY <1>2, <2>1
  <2>4. (IF v < t THEN t ELSE v) >= v
    BY <2>2
  <2> QED  BY <1>2, <2>3, <2>4
<1>6. ASSUME NEW x \in Replica, NEW y \in Replica, ReplicaUpdateLocked(x, y)
      PROVE  version_vector'[r][s] >= version_vector[r][s]
  <2> DEFINE u == work[x][y].update
             l == Link(x, y)
  <2>1. /\ work[x][y].stage = "locking"
        /\ version_vector' = [version_vector EXCEPT ![x][u.item.sr] = u.item.ut]
    BY <1>6 DEF ReplicaUpdateLocked
  <2>2. x # y
    BY <1>1, <2>1 DEF ReplicaOK, Idle
  <2>3. LinkOK(setting, y, l) /\ LinkType(l)
    BY <1>1, <2>2, LinkTypes DEF IInv
  <2>4. l.queue = update_queue[x][y] /\ l.work = work[x][y] /\ l.vv = version_vector[x][y]
    BY LinkIs
  <2> HIDE DEF l, u
  <2>5. SourceOK(setting.writers, y, l) /\ ChainOK(l) /\ CoreOK(setting.single_core, l)
    BY <2>3 DEF LinkOK, FlightOK
  <2>6. l.queue # <<>> /\ Head(l.queue) = u /\ l.queue \in Seq(Update)
    BY <2>1, <2>3, <2>4, <2>5 DEF ChainOK, LinkType, u
  <2>7. 1 \in DOMAIN l.queue /\ (l.work.stage = "unlocking" => 1 # 1) /\ u = l.queue[1]
    BY <2>1, <2>4, <2>6, TailIs
  <2>8. u \in Queued(l)
    BY ONLY <2>7, FlightIs
  <2>9. u.item.sr = y /\ u.item.ut \in Int
    BY <2>3, <2>5, <2>7, LinkFacts DEF SourceOK
  <2>10. setting.single_core => version_vector[x][y] < u.item.ut
    BY <2>1, <2>4, <2>5, <2>8 DEF CoreOK
  <2>11. \/ version_vector'[r][s] = version_vector[r][s]
         \/ r = x /\ s = y /\ version_vector'[r][s] = u.item.ut
    BY <1>2, <2>1, <2>9
  <2> QED  BY <1>2, <2>2, <2>9, <2>10, <2>11
<1>7. ASSUME NEW x \in Replica, NEW c \in Clock, ClockTickLocked(x, c)
      PROVE  version_vector'[r][s] >= version_vector[r][s]
  <2>1. c >= clock[x]
    BY <1>7 DEF ClockTickLocked
  <2>2. \/ version_vector' = [version_vector EXCEPT ![x][x] = c]
        \/ version_vector' = version_vector
    BY <1>2, <1>7 DEF ClockTickLocked
  <2> QED  BY <1>4, <2>1, <2>2
<1>8. ASSUME NEW x \in Replica, NEW c \in Clock, GrvClockTickLocked(x, c)
      PROVE  version_vector'[r][s] >= version_vector[r][s]
  BY <1>4, <1>8 DEF GrvClockTickLocked
<1>9. ASSUME NEW x \in Replica, NEW k \in Key, NEW c \in Clock, PutRequestLocked(x, k, c)
      PROVE  version_vector'[r][s] >= version_vector[r][s]
  <2>1. c >= clock[x]
    <3>1. c \in Int /\ clock[x] \in Int
      BY <1>1, <1>2, SettingFacts
    <3> QED  BY <1>9, <3>1 DEF PutRequestLocked
  <2>2. version_vector' = [version_vector EXCEPT ![x][x] = c]
    BY <1>9 DEF PutRequestLocked
  <2> QED  BY <1>4, <2>1, <2>2
<1>10. CASE UNCHANGED vars
  BY <1>3, <1>10 DEF vars, state
<1>11. CASE Next
  BY <1>3, <1>5, <1>6, <1>7, <1>9, <1>10, <1>11
  DEF Next, Main, Receive, Stopped, PutRequestUnlocked, ClockTick, ClockTickUnlocked,
      ProcessHeartbeat, HeartbeatUnlocked, ProcessReplicaUpdate, ReplicaUpdateUnlocked
<1>12. CASE GrvNext
  BY <1>3, <1>5, <1>6, <1>8, <1>9, <1>10, <1>12
  DEF GrvNext, GrvMain, GrvReceive, Stopped, GrvPutRequestLocked, GrvPutRequestUnlocked,
      GrvClockTick, GrvClockTickUnlocked, PutRequestUnlocked, ClockTick, ClockTickUnlocked,
      GrvProcessHeartbeat, GrvHeartbeatLocked, HeartbeatUnlocked, GrvProcessReplicaUpdate,
      GrvReplicaUpdateVvLocked, GrvReplicaUpdateVvUnlocked
<1> QED  BY <1>10, <1>11, <1>12 DEF ProtocolNext

\* With one core per server no entry of a version vector ever goes back, and
\* with any number of cores a server's own entry does not.
THEOREM VersionVectorGrows == ProtocolSpec => VersionVectorMonotonic
<1>1. ASSUME IInv, [ProtocolNext]_vars
      PROVE  [\A r, s \in Replica :
                setting.single_core \/ r = s =>
                    version_vector'[r][s] >= version_vector[r][s]]_vars
  BY <1>1, EntriesGrow
<1> QED  BY <1>1, InvariantHolds, PTL DEF ProtocolSpec, VersionVectorMonotonic
=============================================================================
