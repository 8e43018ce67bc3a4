----------------------------- MODULE CpuProofs -----------------------------
(***************************************************************************)
(* Proofs about module Cpu, for any tasks, locks and number of cores, and  *)
(* whether or not events tie.                                              *)
(*                                                                         *)
(* An event of the CPU is made of pieces (a core is released, an item is   *)
(* taken from the run queue, a handler runs, a lock is taken...), and the  *)
(* inductive invariant holds between the pieces as well.  It is therefore  *)
(* stated over explicit values, Ok(st, wa, se, q, busy, lk, lq, ev); there *)
(* is one lemma for each piece, and an event is a chain of lemmas.  A task *)
(* taken from a list is "done" until its piece gives it its next stage.    *)
(***************************************************************************)
EXTENDS Cpu, FiniteSetTheorems, SequenceTheorems, TLAPS

Ready   == {"queued", "woken"}
OnCores == {"locking", "unlocking", "freeing"}
Locking == {"locking", "blocked", "woken", "unlocking"}

\* The tasks and what they ask for.  (TypeOK, and a task that is dealing with
\* a lock names one.)
TasksOk(st, wa, se) ==
    /\ st \in [Tasks -> Stages]
    /\ wa \in [Tasks -> Locks \cup {NoLock}]
    /\ se \in [Tasks -> 0 .. MaxSections]
    /\ \A t \in Tasks : st[t] \in Locking => wa[t] \in Locks

\* The run queue holds each ready task once, and nothing else.
RunQueueOk(st, q) ==
    /\ q \in Seq(Tasks)
    /\ \A i \in 1 .. Len(q) : st[q[i]] \in Ready
    /\ \A t \in Tasks : st[t] \in Ready => \E i \in 1 .. Len(q) : q[i] = t
    /\ \A i, j \in 1 .. Len(q) : q[i] = q[j] => i = j

\* A lock's queue holds each task that waits for it once, and nothing else.
LockQueuesOk(st, wa, lq) ==
    /\ lq \in [Locks -> Seq(Tasks)]
    /\ \A l \in Locks : \A i \in 1 .. Len(lq[l]) :
            st[lq[l][i]] = "blocked" /\ wa[lq[l][i]] = l
    /\ \A t \in Tasks : st[t] = "blocked" =>
            \E i \in 1 .. Len(lq[wa[t]]) : lq[wa[t]][i] = t
    /\ \A l \in Locks : \A i, j \in 1 .. Len(lq[l]) :
            lq[l][i] = lq[l][j] => i = j

\* MutualExclusion over explicit values.
LocksOk(st, wa, lk) ==
    /\ lk \in [Locks -> BOOLEAN]
    /\ \A t \in Tasks : st[t] = "unlocking" => lk[wa[t]]
    /\ \A l \in Locks : lk[l] => \E t \in Tasks : st[t] = "unlocking" /\ wa[t] = l
    /\ \A t, u \in Tasks :
            st[t] = "unlocking" /\ st[u] = "unlocking" /\ wa[t] = wa[u] => t = u

\* CoreAccounting over explicit values.
Running(st) == {t \in Tasks : st[t] \in OnCores}

CoresOk(st, busy) == busy = Cardinality(Running(st)) /\ busy <= Cores

Ok(st, wa, se, q, busy, lk, lq, ev) ==
    /\ TasksOk(st, wa, se)
    /\ RunQueueOk(st, q)
    /\ LockQueuesOk(st, wa, lq)
    /\ LocksOk(st, wa, lk)
    /\ CoresOk(st, busy)
    /\ ev \in Nat

IInv == Ok(stage, wants, sections, queue, busy_cores, locked, lock_queue,
           cpu_events)

-----------------------------------------------------------------------------
(***************************************************************************)
(* Cores                                                                   *)
(***************************************************************************)

\* The number of busy cores is a natural number, and positive while a task is
\* on a core: state.c:11 never fails.
LEMMA BusyCores ==
    ASSUME NEW st, NEW busy, CoresOk(st, busy)
    PROVE  /\ busy \in 0 .. Cores
           /\ \A t \in Tasks : st[t] \in OnCores => busy > 0
<1>1. IsFiniteSet(Running(st)) /\ Cardinality(Running(st)) \in Nat
  BY CpuAssumption, FS_Subset, FS_CardinalityType DEF Running
<1>2. busy \in 0 .. Cores
  BY <1>1, CpuAssumption DEF CoresOk
<1>3. \A t \in Tasks : st[t] \in OnCores => busy > 0
  BY <1>1, FS_EmptySet DEF CoresOk, Running
<1> QED  BY <1>2, <1>3

\* A task gets on a core, or off it, or stays where it is.
LEMMA CoreChanges ==
    ASSUME NEW st \in [Tasks -> Stages], NEW busy, CoresOk(st, busy),
           NEW t \in Tasks, NEW s \in Stages
    PROVE  /\ st[t] \notin OnCores /\ s \in OnCores /\ busy < Cores
                => CoresOk([st EXCEPT ![t] = s], busy + 1)
           /\ st[t] \in OnCores /\ s \notin OnCores
                => CoresOk([st EXCEPT ![t] = s], busy - 1)
           /\ (st[t] \in OnCores <=> s \in OnCores)
                => CoresOk([st EXCEPT ![t] = s], busy)
<1> DEFINE R == Running(st)
           N == Running([st EXCEPT ![t] = s])
<1>1. IsFiniteSet(R)
  BY CpuAssumption, FS_Subset DEF Running
<1>2. busy \in 0 .. Cores
  BY BusyCores
<1>3. ASSUME st[t] \notin OnCores, s \in OnCores, busy < Cores
      PROVE  CoresOk([st EXCEPT ![t] = s], busy + 1)
  <2>1. N = R \cup {t} /\ t \notin R
    BY <1>3 DEF Running
  <2>2. Cardinality(N) = Cardinality(R) + 1
    BY <1>1, <2>1, FS_AddElement
  <2> QED  BY <1>2, <1>3, <2>2, CpuAssumption DEF CoresOk
<1>4. ASSUME st[t] \in OnCores, s \notin OnCores
      PROVE  CoresOk([st EXCEPT ![t] = s], busy - 1)
  <2>1. N = R \ {t} /\ t \in R
    BY <1>4 DEF Running
  <2>2. Cardinality(N) = Cardinality(R) - 1
    BY <1>1, <2>1, FS_RemoveElement
  <2> QED  BY <1>2, <2>2, CpuAssumption DEF CoresOk
<1>5. ASSUME st[t] \in OnCores <=> s \in OnCores
      PROVE  CoresOk([st EXCEPT ![t] = s], busy)
  <2>1. N = R
    BY <1>5 DEF Running
  <2> QED  BY <2>1 DEF CoresOk
<1> QED  BY <1>3, <1>4, <1>5

\* A task that is not ready before nor after a change of stage is no concern
\* of the run queue.
LEMMA RunQueueUnchanged ==
    ASSUME NEW st \in [Tasks -> Stages], NEW q, RunQueueOk(st, q),
           NEW t \in Tasks, NEW s \in Stages, st[t] \notin Ready, s \notin Ready
    PROVE  RunQueueOk([st EXCEPT ![t] = s], q)
<1> DEFINE n == [st EXCEPT ![t] = s]
<1>1. \A i \in 1 .. Len(q) : q[i] \in Tasks
  BY ElementOfSeq DEF RunQueueOk
<1>2. \A u \in Tasks : n[u] = IF u = t THEN s ELSE st[u]
  OBVIOUS
<1> HIDE DEF n
<1>3. \A i \in 1 .. Len(q) : n[q[i]] \in Ready
  BY <1>1, <1>2 DEF RunQueueOk
<1>4. \A u \in Tasks : n[u] \in Ready => \E i \in 1 .. Len(q) : q[i] = u
  BY <1>2 DEF RunQueueOk
<1>5. RunQueueOk(n, q)
  BY <1>3, <1>4 DEF RunQueueOk
<1> QED  BY <1>5 DEF n

-----------------------------------------------------------------------------
(***************************************************************************)
(* The pieces of an event                                                  *)
(***************************************************************************)

\* RunHandler: a handler that ends keeps its core until CPU_FREE_CORE.
LEMMA HandlerEnds ==
    ASSUME NEW st, NEW wa, NEW se, NEW q, NEW busy, NEW lk, NEW lq, NEW ev,
           Ok(st, wa, se, q, busy, lk, lq, ev),
           NEW t \in Tasks, st[t] \in {"idle", "done"}, busy < Cores
    PROVE  Ok([st EXCEPT ![t] = "freeing"], wa, se, q, busy + 1, lk, lq, ev)
<1> DEFINE s == [st EXCEPT ![t] = "freeing"]
<1>1. TasksOk(s, wa, se)
  BY DEF Ok, TasksOk, Stages, Locking
<1>2. RunQueueOk(s, q)
  BY RunQueueUnchanged DEF Ok, TasksOk, Stages, Ready
<1>3. LockQueuesOk(s, wa, lq)
  BY DEF Ok, TasksOk, LockQueuesOk, Stages, Locking
<1>4. LocksOk(s, wa, lk)
  BY DEF Ok, TasksOk, LocksOk, Stages
<1>5. CoresOk(s, busy + 1)
  BY CoreChanges DEF Ok, TasksOk, Stages, OnCores
<1> QED  BY <1>1, <1>2, <1>3, <1>4, <1>5 DEF Ok

\* RunHandler: a handler that calls cpu_lock_lock keeps its core until
\* CPU_LOCK_LOCK.
LEMMA HandlerLocks ==
    ASSUME NEW st, NEW wa, NEW se, NEW q, NEW busy, NEW lk, NEW lq, NEW ev,
           Ok(st, wa, se, q, busy, lk, lq, ev),
           NEW t \in Tasks, st[t] \in {"idle", "done"}, busy < Cores,
           NEW l \in Locks, se[t] < MaxSections
    PROVE  Ok([st EXCEPT ![t] = "locking"], [wa EXCEPT ![t] = l],
              [se EXCEPT ![t] = @ + 1], q, busy + 1, lk, lq, ev)
<1> DEFINE s == [st EXCEPT ![t] = "locking"]
           w == [wa EXCEPT ![t] = l]
<1>1. TasksOk(s, w, [se EXCEPT ![t] = @ + 1])
  BY CpuAssumption DEF Ok, TasksOk, Stages, Locking
<1>2. RunQueueOk(s, q)
  BY RunQueueUnchanged DEF Ok, TasksOk, Stages, Ready
<1>3. LockQueuesOk(s, w, lq)
  <2>1. ASSUME NEW u \in Tasks, u # t
        PROVE  s[u] = st[u] /\ w[u] = wa[u]
    BY <2>1 DEF Ok, TasksOk
  <2>2. st[t] # "blocked" /\ s[t] # "blocked"
    BY DEF Ok, TasksOk
  <2>3. lq \in [Locks -> Seq(Tasks)]
    BY DEF Ok, LockQueuesOk
  <2> HIDE DEF s, w
  <2>4. ASSUME NEW k \in Locks, NEW i \in 1 .. Len(lq[k])
        PROVE  s[lq[k][i]] = "blocked" /\ w[lq[k][i]] = k
    <3>1. st[lq[k][i]] = "blocked" /\ wa[lq[k][i]] = k
      BY DEF Ok, LockQueuesOk
    <3>2. lq[k][i] \in Tasks
      BY <2>3, ElementOfSeq
    <3> QED  BY <2>1, <2>2, <3>1, <3>2
  <2>5. ASSUME NEW u \in Tasks, s[u] = "blocked"
        PROVE  \E i \in 1 .. Len(lq[w[u]]) : lq[w[u]][i] = u
    <3>1. st[u] = "blocked" /\ w[u] = wa[u]
      BY <2>1, <2>2, <2>5
    <3> QED  BY <3>1 DEF Ok, LockQueuesOk
  <2>6. \A k \in Locks : \A i, j \in 1 .. Len(lq[k]) :
            lq[k][i] = lq[k][j] => i = j
    BY DEF Ok, LockQueuesOk
  <2> QED  BY <2>3, <2>4, <2>5, <2>6 DEF LockQueuesOk
<1>4. LocksOk(s, w, lk)
  BY DEF Ok, TasksOk, LocksOk, Stages
<1>5. CoresOk(s, busy + 1)
  BY CoreChanges DEF Ok, TasksOk, Stages, OnCores
<1> QED  BY <1>1, <1>2, <1>3, <1>4, <1>5 DEF Ok

\* on_lock_lock of a free lock.
LEMMA LockTaken ==
    ASSUME NEW st, NEW wa, NEW se, NEW q, NEW busy, NEW lk, NEW lq, NEW ev,
           Ok(st, wa, se, q, busy, lk, lq, ev),
           NEW t \in Tasks, st[t] = "locking", ~lk[wa[t]]
    PROVE  Ok([st EXCEPT ![t] = "unlocking"], wa, se, q, busy,
              [lk EXCEPT ![wa[t]] = TRUE], lq, ev)
<1> DEFINE s == [st EXCEPT ![t] = "unlocking"]
<1>0. wa[t] \in Locks
  BY DEF Ok, TasksOk, Locking
<1>1. TasksOk(s, wa, se)
  BY DEF Ok, TasksOk, Stages, Locking
<1>2. RunQueueOk(s, q)
  BY RunQueueUnchanged DEF Ok, TasksOk, Stages, Ready
<1>3. LockQueuesOk(s, wa, lq)
  BY DEF Ok, TasksOk, LockQueuesOk, Stages, Locking
<1>4. LocksOk(s, wa, [lk EXCEPT ![wa[t]] = TRUE])
  BY <1>0 DEF Ok, TasksOk, LocksOk, Stages, Locking
<1>5. CoresOk(s, busy)
  BY CoreChanges DEF Ok, TasksOk, Stages, OnCores
<1> QED  BY <1>1, <1>2, <1>3, <1>4, <1>5 DEF Ok

\* on_lock_lock of a lock that is held: the task gives up its core.
LEMMA LockWaits ==
    ASSUME NEW st, NEW wa, NEW se, NEW q, NEW busy, NEW lk, NEW lq, NEW ev,
           Ok(st, wa, se, q, busy, lk, lq, ev),
           NEW t \in Tasks, st[t] = "locking"
    PROVE  Ok([st EXCEPT ![t] = "blocked"], wa, se, q, busy - 1, lk,
              [lq EXCEPT ![wa[t]] = Append(@, t)], ev + 1)
<1> DEFINE s == [st EXCEPT ![t] = "blocked"]
           l == wa[t]
           n == [lq EXCEPT ![l] = Append(@, t)]
<1>0. l \in Locks
  BY DEF Ok, TasksOk, Locking
<1>1. TasksOk(s, wa, se)
  BY DEF Ok, TasksOk, Stages, Locking
<1>2. RunQueueOk(s, q)
  BY RunQueueUnchanged DEF Ok, TasksOk, Stages, Ready
<1>3. LockQueuesOk(s, wa, n)
  <2> DEFINE a == Append(lq[l], t)
  <2>1. /\ lq \in [Locks -> Seq(Tasks)]
        /\ lq[l] \in Seq(Tasks)
    BY <1>0 DEF Ok, LockQueuesOk
  <2>2. /\ a \in Seq(Tasks)
        /\ Len(a) = Len(lq[l]) + 1
        /\ \A i \in 1 .. Len(lq[l]) : a[i] = lq[l][i]
        /\ a[Len(lq[l]) + 1] = t
    BY <2>1, AppendProperties
  <2>3. Len(lq[l]) \in Nat
    BY <2>1, LenProperties
  <2>4. \A k \in Locks : n[k] = IF k = l THEN a ELSE lq[k]
    BY <1>0, <2>1
  <2>5. \A i \in 1 .. Len(lq[l]) : lq[l][i] # t
    BY <1>0 DEF Ok, LockQueuesOk
  <2> HIDE DEF a, n, l
  <2>6. n \in [Locks -> Seq(Tasks)]
    BY <2>1, <2>2 DEF n, a
  <2>7. ASSUME NEW k \in Locks, NEW i \in 1 .. Len(n[k])
        PROVE  s[n[k][i]] = "blocked" /\ wa[n[k][i]] = k
    <3>1. CASE k # l
      <4>1. st[lq[k][i]] = "blocked" /\ wa[lq[k][i]] = k
        BY <3>1, <2>4, <2>7 DEF Ok, LockQueuesOk
      <4>2. lq[k][i] \in Tasks
        BY <3>1, <2>1, <2>4, <2>7, ElementOfSeq
      <4> QED  BY <3>1, <4>1, <4>2, <2>4 DEF Ok, TasksOk
    <3>2. CASE k = l /\ i = Len(lq[l]) + 1
      BY <3>2, <2>2, <2>4 DEF Ok, TasksOk, l
    <3>3. CASE k = l /\ i \in 1 .. Len(lq[l])
      <4>1. st[lq[k][i]] = "blocked" /\ wa[lq[k][i]] = k
        BY <3>3 DEF Ok, LockQueuesOk
      <4>2. lq[k][i] \in Tasks
        BY <3>3, <2>1, ElementOfSeq
      <4> QED  BY <3>3, <4>1, <4>2, <2>2, <2>4 DEF Ok, TasksOk
    <3> QED  BY <3>1, <3>2, <3>3, <2>2, <2>3, <2>4, <2>7
  <2>8. ASSUME NEW u \in Tasks, s[u] = "blocked"
        PROVE  \E i \in 1 .. Len(n[wa[u]]) : n[wa[u]][i] = u
    <3>0. wa[u] \in Locks
      BY <2>8, <1>1 DEF TasksOk, Locking
    <3>1. CASE u = t
      BY <3>1, <3>0, <2>2, <2>3, <2>4 DEF l
    <3>2. CASE u # t
      <4>1. st[u] = "blocked"
        BY <3>2, <2>8 DEF Ok, TasksOk
      <4>2. PICK i \in 1 .. Len(lq[wa[u]]) : lq[wa[u]][i] = u
        BY <4>1 DEF Ok, LockQueuesOk
      <4>3. CASE wa[u] = l
        <5>1. i \in 1 .. Len(n[wa[u]])
          BY <4>2, <4>3, <3>0, <2>2, <2>3, <2>4
        <5>2. n[wa[u]][i] = u
          BY <4>2, <4>3, <3>0, <2>2, <2>4
        <5> QED  BY <5>1, <5>2
      <4>4. CASE wa[u] # l
        BY <4>2, <4>4, <3>0, <2>4
      <4> QED  BY <4>3, <4>4
    <3> QED  BY <3>1, <3>2
  <2>9. ASSUME NEW k \in Locks, NEW i \in 1 .. Len(n[k]), NEW j \in 1 .. Len(n[k]),
               n[k][i] = n[k][j]
        PROVE  i = j
    <3>1. CASE k # l
      BY <3>1, <2>4, <2>9 DEF Ok, LockQueuesOk
    <3>2. CASE k = l
      <4>1. i \in 1 .. Len(lq[l]) + 1 /\ j \in 1 .. Len(lq[l]) + 1 /\ a[i] = a[j]
        BY <3>2, <2>2, <2>4, <2>9
      <4>2. \A x, y \in 1 .. Len(lq[l]) : lq[l][x] = lq[l][y] => x = y
        BY <1>0 DEF Ok, LockQueuesOk
      <4>3. CASE i \in 1 .. Len(lq[l]) /\ j \in 1 .. Len(lq[l])
        BY <4>1, <4>2, <4>3, <2>2
      <4>4. CASE i = Len(lq[l]) + 1 /\ j \in 1 .. Len(lq[l])
        <5>1. a[i] = t /\ a[j] = lq[l][j] /\ lq[l][j] # t
          BY <4>4, <2>2, <2>5
        <5> QED  BY <5>1, <4>1
      <4>5. CASE j = Len(lq[l]) + 1 /\ i \in 1 .. Len(lq[l])
        <5>1. a[j] = t /\ a[i] = lq[l][i] /\ lq[l][i] # t
          BY <4>5, <2>2, <2>5
        <5> QED  BY <5>1, <4>1
      <4> QED  BY <4>1, <4>3, <4>4, <4>5, <2>3
    <3> QED  BY <3>1, <3>2
  <2> QED  BY <2>6, <2>7, <2>8, <2>9 DEF LockQueuesOk
<1>4. LocksOk(s, wa, lk)
  BY DEF Ok, TasksOk, LocksOk, Stages
<1>5. CoresOk(s, busy - 1)
  BY CoreChanges DEF Ok, TasksOk, Stages, OnCores
<1>6. ev + 1 \in Nat
  BY DEF Ok
<1> QED  BY <1>1, <1>2, <1>3, <1>4, <1>5, <1>6 DEF Ok

\* cpu_process_next_in_queue takes the head of the run queue.
LEMMA TakenFromQueue ==
    ASSUME NEW st, NEW wa, NEW se, NEW q, NEW busy, NEW lk, NEW lq, NEW ev,
           Ok(st, wa, se, q, busy, lk, lq, ev), q # <<>>
    PROVE  /\ Head(q) \in Tasks
           /\ st[Head(q)] \in Ready
           /\ st[Head(q)] = "woken" => wa[Head(q)] \in Locks
           /\ Ok([st EXCEPT ![Head(q)] = "done"], wa, se, Tail(q), busy, lk,
                 lq, ev)
<1> DEFINE h == Head(q)
           r == Tail(q)
           s == [st EXCEPT ![h] = "done"]
<1>1. q \in Seq(Tasks)
  BY DEF Ok, RunQueueOk
<1>2. /\ h \in Tasks
      /\ r \in Seq(Tasks)
      /\ Len(r) = Len(q) - 1
      /\ \A i \in 1 .. Len(r) : r[i] = q[i + 1]
  BY <1>1, HeadTailProperties
<1>3. Len(q) \in Nat \ {0} /\ Len(r) \in Nat
  BY <1>1, <1>2, EmptySeq, LenProperties
<1>4. h = q[1]
  BY <1>1
<1>5. st[h] \in Ready
  BY <1>3, <1>4 DEF Ok, RunQueueOk
<1> HIDE DEF h, r
<1>6. TasksOk(s, wa, se)
  BY <1>2 DEF Ok, TasksOk, Stages, Locking
<1>7. RunQueueOk(s, r)
  <2>1. \A u \in Tasks : s[u] = IF u = h THEN "done" ELSE st[u]
    BY DEF Ok, TasksOk
  <2> HIDE DEF s
  <2>2. \A i \in 1 .. Len(r) : r[i] \in Tasks /\ r[i] # h /\ st[r[i]] \in Ready
    <3> SUFFICES ASSUME NEW i \in 1 .. Len(r)
                 PROVE  r[i] \in Tasks /\ r[i] # h /\ st[r[i]] \in Ready
      OBVIOUS
    <3>1. i + 1 \in 1 .. Len(q) /\ 1 \in 1 .. Len(q) /\ r[i] = q[i + 1]
      BY <1>2, <1>3
    <3>2. i + 1 # 1
      OBVIOUS
    <3>3. q[i + 1] # q[1] /\ st[q[i + 1]] \in Ready
      BY <3>1, <3>2 DEF Ok, RunQueueOk
    <3>4. r[i] \in Tasks
      BY <1>2, ElementOfSeq
    <3> QED  BY <3>1, <3>3, <3>4, <1>4
  <2>3. ASSUME NEW u \in Tasks, s[u] \in Ready
        PROVE  \E i \in 1 .. Len(r) : r[i] = u
    <3>1. u # h /\ st[u] \in Ready
      BY <2>1, <2>3 DEF Ready
    <3>2. PICK i \in 1 .. Len(q) : q[i] = u
      BY <3>1 DEF Ok, RunQueueOk
    <3>3. i - 1 \in 1 .. Len(r) /\ r[i - 1] = u
      BY <3>1, <3>2, <1>2, <1>3, <1>4
    <3> QED  BY <3>3
  <2>4. ASSUME NEW i \in 1 .. Len(r), NEW j \in 1 .. Len(r), r[i] = r[j]
        PROVE  i = j
    <3>1. i + 1 \in 1 .. Len(q) /\ j + 1 \in 1 .. Len(q) /\ q[i + 1] = q[j + 1]
      BY <1>2, <1>3, <2>4
    <3>2. i + 1 = j + 1
      BY <3>1 DEF Ok, RunQueueOk
    <3> QED  BY <3>2
  <2> QED  BY <1>2, <2>1, <2>2, <2>3, <2>4 DEF RunQueueOk
<1>8. LockQueuesOk(s, wa, lq)
  BY <1>5 DEF Ok, TasksOk, LockQueuesOk, Stages, Locking, Ready
<1>9. LocksOk(s, wa, lk)
  BY <1>2, <1>5 DEF Ok, TasksOk, LocksOk, Stages, Ready
<1>10. CoresOk(s, busy)
  BY <1>2, <1>5, CoreChanges DEF Ok, TasksOk, Stages, OnCores, Ready
<1>11. st[h] = "woken" => wa[h] \in Locks
  BY <1>2 DEF Ok, TasksOk, Locking
<1> QED  BY <1>2, <1>5, <1>6, <1>7, <1>8, <1>9, <1>10, <1>11 DEF Ok, h, r

\* cpu_process of a CPU_LOCK_LOCK item: the task is on a core again.
LEMMA BackOnCore ==
    ASSUME NEW st, NEW wa, NEW se, NEW q, NEW busy, NEW lk, NEW lq, NEW ev,
           Ok(st, wa, se, q, busy, lk, lq, ev), busy < Cores,
           NEW t \in Tasks, st[t] \in {"idle", "done"}, wa[t] \in Locks
    PROVE  Ok([st EXCEPT ![t] = "locking"], wa, se, q, busy + 1, lk, lq, ev)
<1> DEFINE s == [st EXCEPT ![t] = "locking"]
<1>1. TasksOk(s, wa, se)
  BY DEF Ok, TasksOk, Stages, Locking
<1>2. RunQueueOk(s, q)
  BY RunQueueUnchanged DEF Ok, TasksOk, Stages, Ready
<1>3. LockQueuesOk(s, wa, lq)
  BY DEF Ok, TasksOk, LockQueuesOk, Stages, Locking
<1>4. LocksOk(s, wa, lk)
  BY DEF Ok, TasksOk, LocksOk, Stages
<1>5. CoresOk(s, busy + 1)
  BY CoreChanges DEF Ok, TasksOk, Stages, OnCores
<1> QED  BY <1>1, <1>2, <1>3, <1>4, <1>5 DEF Ok

\* CPU_FREE_CORE gives the core back.
LEMMA CoreFreed ==
    ASSUME NEW st, NEW wa, NEW se, NEW q, NEW busy, NEW lk, NEW lq, NEW ev,
           Ok(st, wa, se, q, busy, lk, lq, ev),
           NEW t \in Tasks, st[t] = "freeing"
    PROVE  Ok([st EXCEPT ![t] = "done"], wa, se, q, busy - 1, lk, lq, ev)
<1> DEFINE s == [st EXCEPT ![t] = "done"]
<1>1. TasksOk(s, wa, se)
  BY DEF Ok, TasksOk, Stages, Locking
<1>2. RunQueueOk(s, q)
  BY RunQueueUnchanged DEF Ok, TasksOk, Stages, Ready
<1>3. LockQueuesOk(s, wa, lq)
  BY DEF Ok, TasksOk, LockQueuesOk, Stages, Locking
<1>4. LocksOk(s, wa, lk)
  BY DEF Ok, TasksOk, LocksOk, Stages
<1>5. CoresOk(s, busy - 1)
  BY CoreChanges DEF Ok, TasksOk, Stages, OnCores
<1> QED  BY <1>1, <1>2, <1>3, <1>4, <1>5 DEF Ok

\* on_lock_unlock frees the lock; its task gives the core back or goes on.
LEMMA LockFreed ==
    ASSUME NEW st, NEW wa, NEW se, NEW q, NEW busy, NEW lk, NEW lq, NEW ev,
           Ok(st, wa, se, q, busy, lk, lq, ev),
           NEW t \in Tasks, st[t] = "unlocking"
    PROVE  Ok([st EXCEPT ![t] = "done"], wa, se, q, busy - 1,
              [lk EXCEPT ![wa[t]] = FALSE], lq, ev)
<1> DEFINE s == [st EXCEPT ![t] = "done"]
<1>0. wa[t] \in Locks
  BY DEF Ok, TasksOk, Locking
<1>1. TasksOk(s, wa, se)
  BY DEF Ok, TasksOk, Stages, Locking
<1>2. RunQueueOk(s, q)
  BY RunQueueUnchanged DEF Ok, TasksOk, Stages, Ready
<1>3. LockQueuesOk(s, wa, lq)
  BY DEF Ok, TasksOk, LockQueuesOk, Stages, Locking
<1>4. LocksOk(s, wa, [lk EXCEPT ![wa[t]] = FALSE])
  BY <1>0 DEF Ok, TasksOk, LocksOk, Stages, Locking
<1>5. CoresOk(s, busy - 1)
  BY CoreChanges DEF Ok, TasksOk, Stages, OnCores
<1> QED  BY <1>1, <1>2, <1>3, <1>4, <1>5 DEF Ok

\* on_lock_unlock moves the oldest waiter to the front of the run queue.
LEMMA WaiterWoken ==
    ASSUME NEW st, NEW wa, NEW se, NEW q, NEW busy, NEW lk, NEW lq, NEW ev,
           Ok(st, wa, se, q, busy, lk, lq, ev),
           NEW l \in Locks, lq[l] # <<>>
    PROVE  /\ Head(lq[l]) \in Tasks
           /\ st[Head(lq[l])] = "blocked"
           /\ Ok([st EXCEPT ![Head(lq[l])] = "woken"], wa, se,
                 <<Head(lq[l])>> \o q, busy, lk,
                 [lq EXCEPT ![l] = Tail(lq[l])], ev)
<1> DEFINE w == lq[l]
           h == Head(w)
           r == Tail(w)
           s == [st EXCEPT ![h] = "woken"]
           c == <<h>> \o q
           n == [lq EXCEPT ![l] = r]
<1>1. /\ w \in Seq(Tasks)
      /\ lq \in [Locks -> Seq(Tasks)]
      /\ q \in Seq(Tasks)
  BY DEF Ok, LockQueuesOk, RunQueueOk
<1>2. /\ h \in Tasks
      /\ r \in Seq(Tasks)
      /\ Len(r) = Len(w) - 1
      /\ \A i \in 1 .. Len(r) : r[i] = w[i + 1]
  BY <1>1, HeadTailProperties
<1>3. Len(w) \in Nat \ {0} /\ Len(r) \in Nat /\ Len(q) \in Nat
  BY <1>1, <1>2, EmptySeq, LenProperties
<1>4. h = w[1]
  BY <1>1
<1>5. st[h] = "blocked" /\ wa[h] = l
  BY <1>3, <1>4 DEF Ok, LockQueuesOk
<1>6. \A u \in Tasks : s[u] = IF u = h THEN "woken" ELSE st[u]
  BY <1>2 DEF Ok, TasksOk
<1>7. \A k \in Locks : n[k] = IF k = l THEN r ELSE lq[k]
  BY <1>1
<1>8. /\ c \in Seq(Tasks)
      /\ Len(c) = Len(q) + 1
      /\ c[1] = h
      /\ \A i \in 1 .. Len(q) : c[i + 1] = q[i]
  <2>1. <<h>> \in Seq(Tasks) /\ Len(<<h>>) = 1 /\ <<h>>[1] = h
    BY <1>2
  <2>2. /\ c \in Seq(Tasks)
        /\ Len(c) = 1 + Len(q)
        /\ \A i \in 1 .. 1 + Len(q) : c[i] = IF i <= 1 THEN <<h>>[i] ELSE q[i - 1]
    BY <1>1, <2>1, ConcatProperties
  <2> HIDE DEF c
  <2> QED  BY <1>3, <2>1, <2>2
<1> HIDE DEF h, r, c, w
<1>9. TasksOk(s, wa, se)
  BY <1>2, <1>5 DEF Ok, TasksOk, Stages, Locking
<1>10. n \in [Locks -> Seq(Tasks)]
  BY <1>1, <1>2
<1>11. CoresOk(s, busy)
  BY <1>2, <1>5, CoreChanges DEF Ok, TasksOk, Stages, OnCores
<1>12. LocksOk(s, wa, lk)
  BY <1>2, <1>5 DEF Ok, TasksOk, LocksOk, Stages
<1> HIDE DEF s, n
<1>13. RunQueueOk(s, c)
  <2>1. \A i \in 1 .. Len(q) : q[i] \in Tasks /\ q[i] # h /\ st[q[i]] \in Ready
    BY <1>1, <1>5, ElementOfSeq DEF Ok, RunQueueOk, Ready
  <2>2. \A i \in 1 .. Len(c) : s[c[i]] \in Ready
    <3> SUFFICES ASSUME NEW i \in 1 .. Len(c)
                 PROVE  s[c[i]] \in Ready
      OBVIOUS
    <3>1. CASE i = 1
      BY <3>1, <1>2, <1>6, <1>8 DEF Ready
    <3>2. CASE i # 1
      <4>1. i - 1 \in 1 .. Len(q) /\ c[i] = q[i - 1]
        BY <3>2, <1>3, <1>8
      <4> QED  BY <4>1, <2>1, <1>6
    <3> QED  BY <3>1, <3>2
  <2>3. ASSUME NEW u \in Tasks, s[u] \in Ready
        PROVE  \E i \in 1 .. Len(c) : c[i] = u
    <3>1. CASE u = h
      BY <3>1, <1>3, <1>8
    <3>2. CASE u # h
      <4>1. PICK i \in 1 .. Len(q) : q[i] = u
        BY <3>2, <2>3, <1>6 DEF Ok, RunQueueOk
      <4>2. i + 1 \in 1 .. Len(c) /\ c[i + 1] = u
        BY <4>1, <1>3, <1>8
      <4> QED  BY <4>2
    <3> QED  BY <3>1, <3>2
  <2>4. ASSUME NEW i \in 1 .. Len(c), NEW j \in 1 .. Len(c), c[i] = c[j]
        PROVE  i = j
    <3>1. \A x \in 1 .. Len(c) : x # 1 => x - 1 \in 1 .. Len(q) /\ c[x] = q[x - 1]
      BY <1>3, <1>8
    <3>2. CASE i = 1 \/ j = 1
      BY <3>1, <3>2, <2>1, <2>4, <1>8
    <3>3. CASE i # 1 /\ j # 1
      <4>1. i - 1 = j - 1
        BY <3>1, <3>3, <2>4 DEF Ok, RunQueueOk
      <4> QED  BY <4>1, <1>3, <1>8
    <3> QED  BY <3>2, <3>3
  <2> QED  BY <1>8, <2>2, <2>3, <2>4 DEF RunQueueOk
<1>14. LockQueuesOk(s, wa, n)
  <2>1. \A k \in Locks : \A i \in 1 .. Len(lq[k]) : lq[k][i] \in Tasks
    BY <1>1, ElementOfSeq
  <2>2. \A i \in 1 .. Len(r) : i + 1 \in 1 .. Len(w) /\ r[i] = w[i + 1] /\ r[i] # h
    <3> SUFFICES ASSUME NEW i \in 1 .. Len(r)
                 PROVE  i + 1 \in 1 .. Len(w) /\ r[i] = w[i + 1] /\ r[i] # h
      OBVIOUS
    <3>1. i + 1 \in 1 .. Len(w) /\ 1 \in 1 .. Len(w) /\ i + 1 # 1 /\ r[i] = w[i + 1]
      BY <1>2, <1>3
    <3>2. w[i + 1] # w[1]
      BY <3>1 DEF Ok, LockQueuesOk, w
    <3> QED  BY <3>1, <3>2, <1>4
  <2>3. ASSUME NEW k \in Locks, NEW i \in 1 .. Len(n[k])
        PROVE  s[n[k][i]] = "blocked" /\ wa[n[k][i]] = k
    <3>1. CASE k = l
      <4>1. i \in 1 .. Len(r) /\ n[k][i] = r[i]
        BY <3>1, <1>7, <2>3
      <4>2. st[w[i + 1]] = "blocked" /\ wa[w[i + 1]] = l /\ w[i + 1] \in Tasks
        BY <4>1, <2>1, <2>2 DEF Ok, LockQueuesOk, w
      <4> QED  BY <3>1, <4>1, <4>2, <2>2, <1>6
    <3>2. CASE k # l
      <4>1. i \in 1 .. Len(lq[k]) /\ n[k][i] = lq[k][i]
        BY <3>2, <1>7, <2>3
      <4>2. st[lq[k][i]] = "blocked" /\ wa[lq[k][i]] = k
        BY <4>1 DEF Ok, LockQueuesOk
      <4> QED  BY <3>2, <4>1, <4>2, <2>1, <1>5, <1>6
    <3> QED  BY <3>1, <3>2
  <2>4. ASSUME NEW u \in Tasks, s[u] = "blocked"
        PROVE  \E i \in 1 .. Len(n[wa[u]]) : n[wa[u]][i] = u
    <3>1. u # h /\ st[u] = "blocked"
      BY <2>4, <1>6
    <3>2. wa[u] \in Locks
      BY <3>1 DEF Ok, TasksOk, Locking
    <3>3. PICK i \in 1 .. Len(lq[wa[u]]) : lq[wa[u]][i] = u
      BY <3>1 DEF Ok, LockQueuesOk
    <3>4. CASE wa[u] = l
      <4>1. i \in 1 .. Len(w) /\ w[i] = u
        BY <3>3, <3>4 DEF w
      <4>2. i - 1 \in 1 .. Len(r) /\ r[i - 1] = u
        BY <4>1, <3>1, <1>2, <1>3, <1>4
      <4> QED  BY <4>2, <3>2, <3>4, <1>7
    <3>5. CASE wa[u] # l
      BY <3>2, <3>3, <3>5, <1>7
    <3> QED  BY <3>4, <3>5
  <2>5. ASSUME NEW k \in Locks, NEW i \in 1 .. Len(n[k]), NEW j \in 1 .. Len(n[k]),
               n[k][i] = n[k][j]
        PROVE  i = j
    <3>1. CASE k = l
      <4>1. i \in 1 .. Len(r) /\ j \in 1 .. Len(r) /\ r[i] = r[j]
        BY <3>1, <1>7, <2>5
      <4>2. i + 1 = j + 1
        BY <4>1, <2>2 DEF Ok, LockQueuesOk, w
      <4> QED  BY <4>1, <4>2, <1>3
    <3>2. CASE k # l
      BY <3>2, <1>7, <2>5 DEF Ok, LockQueuesOk
    <3> QED  BY <3>1, <3>2
  <2> QED  BY <1>10, <2>3, <2>4, <2>5 DEF LockQueuesOk
<1> QED
  BY <1>2, <1>5, <1>9, <1>11, <1>12, <1>13, <1>14 DEF Ok, s, n, c, h, r, w

\* cpu_enqueue_back of an event that finds every core busy.
LEMMA Enqueued ==
    ASSUME NEW st, NEW wa, NEW se, NEW q, NEW busy, NEW lk, NEW lq, NEW ev,
           Ok(st, wa, se, q, busy, lk, lq, ev),
           NEW t \in Tasks, st[t] = "idle"
    PROVE  Ok([st EXCEPT ![t] = "queued"], wa, se, Append(q, t), busy, lk, lq, ev)
<1> DEFINE s == [st EXCEPT ![t] = "queued"]
           a == Append(q, t)
<1>1. TasksOk(s, wa, se)
  BY DEF Ok, TasksOk, Stages, Locking
<1>2. LockQueuesOk(s, wa, lq)
  BY DEF Ok, TasksOk, LockQueuesOk, Stages, Locking
<1>3. LocksOk(s, wa, lk)
  BY DEF Ok, TasksOk, LocksOk, Stages
<1>4. CoresOk(s, busy)
  BY CoreChanges DEF Ok, TasksOk, Stages, OnCores
<1>5. RunQueueOk(s, a)
  <2>1. q \in Seq(Tasks) /\ Len(q) \in Nat
    BY LenProperties DEF Ok, RunQueueOk
  <2>2. /\ a \in Seq(Tasks)
        /\ Len(a) = Len(q) + 1
        /\ \A i \in 1 .. Len(q) : a[i] = q[i]
        /\ a[Len(q) + 1] = t
    BY <2>1, AppendProperties
  <2>3. \A u \in Tasks : s[u] = IF u = t THEN "queued" ELSE st[u]
    BY DEF Ok, TasksOk
  <2>4. \A i \in 1 .. Len(q) : q[i] \in Tasks /\ q[i] # t /\ st[q[i]] \in Ready
    BY <2>1, ElementOfSeq DEF Ok, RunQueueOk, Ready
  <2> HIDE DEF a, s
  <2>5. \A i \in 1 .. Len(a) : s[a[i]] \in Ready
    <3> SUFFICES ASSUME NEW i \in 1 .. Len(a)
                 PROVE  s[a[i]] \in Ready
      OBVIOUS
    <3>1. CASE i = Len(q) + 1
      BY <3>1, <2>2, <2>3 DEF Ready
    <3>2. CASE i \in 1 .. Len(q)
      BY <3>2, <2>2, <2>3, <2>4
    <3> QED  BY <3>1, <3>2, <2>1, <2>2
  <2>6. ASSUME NEW u \in Tasks, s[u] \in Ready
        PROVE  \E i \in 1 .. Len(a) : a[i] = u
    <3>1. CASE u = t
      BY <3>1, <2>1, <2>2
    <3>2. CASE u # t
      <4>1. PICK i \in 1 .. Len(q) : q[i] = u
        BY <3>2, <2>3, <2>6 DEF Ok, RunQueueOk
      <4>2. i \in 1 .. Len(a) /\ a[i] = u
        BY <4>1, <2>1, <2>2
      <4> QED  BY <4>2
    <3> QED  BY <3>1, <3>2
  <2>7. ASSUME NEW i \in 1 .. Len(a), NEW j \in 1 .. Len(a), a[i] = a[j]
        PROVE  i = j
    <3>1. \A x, y \in 1 .. Len(q) : q[x] = q[y] => x = y
      BY DEF Ok, RunQueueOk
    <3> QED  BY <3>1, <2>1, <2>2, <2>4, <2>7
  <2> QED  BY <2>2, <2>5, <2>6, <2>7 DEF RunQueueOk
<1> QED  BY <1>1, <1>2, <1>3, <1>4, <1>5 DEF Ok

-----------------------------------------------------------------------------
(***************************************************************************)
(* The events                                                              *)
(***************************************************************************)

\* RunHandler, for a task that has no core yet.
LEMMA RunHandlerOk ==
    ASSUME NEW STATE st, NEW STATE q, NEW STATE busy, NEW STATE lk,
           NEW STATE lq, NEW STATE ev, NEW STATE on, NEW t \in Tasks,
           Ok(st, wants, sections, q, busy, lk, lq, ev),
           st[t] \in {"idle", "done"}, busy < Cores,
           \A s \in Stages : [on EXCEPT ![t] = s] = [st EXCEPT ![t] = s],
           RunHandler(t, on)
    PROVE  Ok(stage', wants', sections', q, busy + 1, lk, lq, ev)
<1>1. CASE stage' = [on EXCEPT ![t] = "freeing"] /\ UNCHANGED <<wants, sections>>
  <2>1. stage' = [st EXCEPT ![t] = "freeing"]
    BY <1>1 DEF Stages
  <2>2. Ok([st EXCEPT ![t] = "freeing"], wants, sections, q, busy + 1, lk, lq, ev)
    BY HandlerEnds
  <2> QED  BY <1>1, <2>1, <2>2
<1>2. ASSUME sections[t] < MaxSections,
             sections' = [sections EXCEPT ![t] = @ + 1],
             NEW l \in Locks, wants' = [wants EXCEPT ![t] = l],
             stage' = [on EXCEPT ![t] = "locking"]
      PROVE  Ok(stage', wants', sections', q, busy + 1, lk, lq, ev)
  <2>1. stage' = [st EXCEPT ![t] = "locking"]
    BY <1>2 DEF Stages
  <2>2. Ok([st EXCEPT ![t] = "locking"], [wants EXCEPT ![t] = l],
           [sections EXCEPT ![t] = @ + 1], q, busy + 1, lk, lq, ev)
    BY <1>2, HandlerLocks
  <2> QED  BY <1>2, <2>1, <2>2
<1> QED  BY <1>1, <1>2 DEF RunHandler

\* OnLockLock, for a task on a core.
LEMMA OnLockLockOk ==
    ASSUME NEW STATE st, NEW STATE q, NEW STATE busy, NEW STATE lk,
           NEW STATE lq, NEW STATE ev, NEW STATE on, NEW t \in Tasks,
           Ok(st, wants, sections, q, busy, lk, lq, ev), st[t] = "locking",
           \A s \in Stages : [on EXCEPT ![t] = s] = [st EXCEPT ![t] = s],
           OnLockLock(t, on, busy, lk, lq, ev)
    PROVE  Ok(stage', wants', sections', q, busy_cores', locked', lock_queue',
              cpu_events')
<1>0. UNCHANGED <<wants, sections>>
  BY DEF OnLockLock
<1>1. CASE lk[wants[t]]
  <2>1. /\ stage' = [st EXCEPT ![t] = "blocked"]
        /\ lock_queue' = [lq EXCEPT ![wants[t]] = Append(@, t)]
        /\ busy_cores' = busy - 1
        /\ cpu_events' = ev + 1
        /\ locked' = lk
    BY <1>1 DEF OnLockLock, Stages
  <2> QED  BY <1>0, <2>1, LockWaits
<1>2. CASE ~lk[wants[t]]
  <2>1. /\ stage' = [st EXCEPT ![t] = "unlocking"]
        /\ locked' = [lk EXCEPT ![wants[t]] = TRUE]
        /\ busy_cores' = busy
        /\ lock_queue' = lq
        /\ cpu_events' = ev
    BY <1>2 DEF OnLockLock, Stages
  <2> QED  BY <1>0, <1>2, <2>1, LockTaken
<1> QED  BY <1>1, <1>2

\* CpuProcess of a task that is in no list: its item has been taken from the
\* run queue, or it has just arrived.
LEMMA CpuProcessOk ==
    ASSUME NEW STATE st, NEW STATE q, NEW STATE busy, NEW STATE lk,
           NEW STATE lq, NEW STATE ev, NEW STATE on, NEW t \in Tasks,
           Ok(st, wants, sections, q, busy, lk, lq, ev),
           st[t] \in {"idle", "done"}, busy < Cores,
           on[t] = "woken" => wants[t] \in Locks,
           \A s \in Stages : [on EXCEPT ![t] = s] = [st EXCEPT ![t] = s],
           CpuProcess(t, on, busy, lk, lq, ev)
    PROVE  Ok(stage', wants', sections', q, busy_cores', locked', lock_queue',
              cpu_events')
<1>1. CASE /\ RunHandler(t, on)
           /\ busy_cores' = busy + 1
           /\ locked' = lk
           /\ lock_queue' = lq
           /\ cpu_events' = ev
  BY <1>1, RunHandlerOk
<1>2. CASE on[t] = "woken" /\ OnLockLock(t, on, busy + 1, lk, lq, ev)
  <2> DEFINE b == [st EXCEPT ![t] = "locking"]
  <2>1. Ok(b, wants, sections, q, busy + 1, lk, lq, ev)
    BY <1>2, BackOnCore
  <2>2. b[t] = "locking"
    BY DEF Ok, TasksOk
  <2>3. \A s \in Stages : [on EXCEPT ![t] = s] = [b EXCEPT ![t] = s]
    BY DEF Ok, TasksOk
  <2> HIDE DEF b
  <2> QED  BY <1>2, <2>1, <2>2, <2>3, OnLockLockOk
<1> QED  BY <1>1, <1>2 DEF CpuProcess

\* CpuProcessNextInQueue, with a core free.
LEMMA NextInQueueOk ==
    ASSUME NEW STATE st, NEW STATE q, NEW STATE busy, NEW STATE lk,
           NEW STATE lq, NEW STATE ev,
           Ok(st, wants, sections, q, busy, lk, lq, ev), busy < Cores,
           CpuProcessNextInQueue(st, q, busy, lk, lq, ev)
    PROVE  IInv'
<1>1. CASE q = <<>>
  <2>1. /\ stage' = st /\ queue' = q /\ busy_cores' = busy /\ locked' = lk
        /\ lock_queue' = lq /\ cpu_events' = ev /\ wants' = wants
        /\ sections' = sections
    BY <1>1 DEF CpuProcessNextInQueue
  <2> QED  BY <2>1 DEF IInv
<1>2. CASE q # <<>>
  <2> DEFINE h == Head(q)
             b == [st EXCEPT ![h] = "done"]
  <2>1. queue' = Tail(q) /\ CpuProcess(h, st, busy, lk, lq, ev)
    BY <1>2 DEF CpuProcessNextInQueue
  <2>2. /\ h \in Tasks
        /\ st[h] = "woken" => wants[h] \in Locks
        /\ Ok(b, wants, sections, Tail(q), busy, lk, lq, ev)
    BY <1>2, TakenFromQueue
  <2>3. /\ b[h] = "done"
        /\ \A s \in Stages : [st EXCEPT ![h] = s] = [b EXCEPT ![h] = s]
    BY <2>2 DEF Ok, TasksOk
  <2> HIDE DEF h, b
  <2>4. Ok(stage', wants', sections', Tail(q), busy_cores', locked', lock_queue',
           cpu_events')
    BY <2>1, <2>2, <2>3, CpuProcessOk
  <2> QED  BY <2>1, <2>4 DEF IInv
<1> QED  BY <1>1, <1>2

\* An event of the server arrives.
LEMMA ArriveOk ==
    ASSUME IInv, NEW t \in Tasks, Arrive(t)
    PROVE  IInv'
<1> DEFINE on == [stage EXCEPT ![t] = "queued"]
<1>1. /\ stage[t] = "idle"
      /\ Ok(stage, wants, sections, queue, busy_cores, locked, lock_queue,
            cpu_events)
  BY DEF Arrive, IInv
<1>2. CASE cpu_busy
  <2>1. /\ queue' = Append(queue, t)
        /\ stage' = on
        /\ UNCHANGED <<wants, sections, busy_cores, locked, lock_queue, cpu_events>>
    BY <1>2 DEF Arrive
  <2>2. Ok(on, wants, sections, Append(queue, t), busy_cores, locked, lock_queue,
           cpu_events)
    BY <1>1, Enqueued
  <2> QED  BY <2>1, <2>2 DEF IInv
<1>3. CASE ~cpu_busy
  <2>1. /\ CpuProcess(t, on, busy_cores, locked, lock_queue, cpu_events)
        /\ queue' = queue
    BY <1>3 DEF Arrive
  <2>2. busy_cores < Cores
    BY <1>1, <1>3, BusyCores, CpuAssumption DEF cpu_busy, Ok
  <2>3. /\ on[t] # "woken"
        /\ \A s \in Stages : [on EXCEPT ![t] = s] = [stage EXCEPT ![t] = s]
    BY <1>1 DEF Ok, TasksOk
  <2> HIDE DEF on
  <2>4. Ok(stage', wants', sections', queue, busy_cores', locked', lock_queue',
           cpu_events')
    BY <1>1, <2>1, <2>2, <2>3, CpuProcessOk
  <2> QED  BY <2>1, <2>4 DEF IInv
<1> QED  BY <1>2, <1>3

\* CPU_FREE_CORE, CPU_EVENT and CPU_LOCK_LOCK.
LEMMA FreeCoreOk ==
    ASSUME IInv, NEW t \in Tasks, FreeCore(t)
    PROVE  IInv'
<1> DEFINE b == [stage EXCEPT ![t] = "done"]
<1>1. /\ stage[t] = "freeing"
      /\ CpuProcessNextInQueue(b, queue, busy_cores - 1, locked, lock_queue,
                               cpu_events)
      /\ Ok(stage, wants, sections, queue, busy_cores, locked, lock_queue,
            cpu_events)
  BY DEF FreeCore, IInv
<1>2. Ok(b, wants, sections, queue, busy_cores - 1, locked, lock_queue, cpu_events)
  BY <1>1, CoreFreed
<1>3. busy_cores - 1 < Cores
  BY <1>1, BusyCores, CpuAssumption DEF Ok
<1> HIDE DEF b
<1> QED  BY <1>1, <1>2, <1>3, NextInQueueOk

LEMMA CpuEventOk ==
    ASSUME IInv, CpuEvent
    PROVE  IInv'
<1>1. /\ cpu_events > 0 /\ ~cpu_busy
      /\ CpuProcessNextInQueue(stage, queue, busy_cores, locked, lock_queue,
                               cpu_events - 1)
      /\ Ok(stage, wants, sections, queue, busy_cores, locked, lock_queue,
            cpu_events)
  BY DEF CpuEvent, IInv
<1>2. Ok(stage, wants, sections, queue, busy_cores, locked, lock_queue,
         cpu_events - 1)
  BY <1>1 DEF Ok
<1>3. busy_cores < Cores
  BY <1>1, BusyCores, CpuAssumption DEF cpu_busy, Ok
<1> QED  BY <1>1, <1>2, <1>3, NextInQueueOk

LEMMA LockLockOk ==
    ASSUME IInv, NEW t \in Tasks, LockLock(t)
    PROVE  IInv'
<1>1. /\ stage[t] = "locking"
      /\ OnLockLock(t, stage, busy_cores, locked, lock_queue, cpu_events)
      /\ queue' = queue
      /\ Ok(stage, wants, sections, queue, busy_cores, locked, lock_queue,
            cpu_events)
  BY DEF LockLock, IInv
<1>2. Ok(stage', wants', sections', queue, busy_cores', locked', lock_queue',
         cpu_events')
  BY <1>1, OnLockLockOk
<1> QED  BY <1>1, <1>2 DEF IInv

\* CPU_LOCK_UNLOCK: the waiter is woken, the lock freed, and the core goes on.
LEMMA LockUnlockOk ==
    ASSUME IInv, NEW t \in Tasks, LockUnlock(t)
    PROVE  IInv'
<1> DEFINE l  == wants[t]
           w  == lock_queue[l]
           lk == [locked EXCEPT ![l] = FALSE]
           st == IF w = <<>> THEN stage ELSE [stage EXCEPT ![Head(w)] = "woken"]
           lq == IF w = <<>> THEN lock_queue
                             ELSE [lock_queue EXCEPT ![l] = Tail(w)]
           q  == IF w = <<>> THEN queue ELSE <<Head(w)>> \o queue
           b  == [st EXCEPT ![t] = "done"]
<1>1. /\ stage[t] = "unlocking"
      /\ Ok(stage, wants, sections, queue, busy_cores, locked, lock_queue,
            cpu_events)
  BY DEF LockUnlock, IInv
<1>2. l \in Locks
  BY <1>1 DEF Ok, TasksOk, Locking
<1>3. /\ Ok(st, wants, sections, q, busy_cores, locked, lq, cpu_events)
      /\ st[t] = "unlocking"
  <2>1. CASE w = <<>>
    BY <1>1, <2>1
  <2>2. CASE w # <<>>
    <3>1. /\ Head(w) \in Tasks
          /\ stage[Head(w)] = "blocked"
          /\ Ok([stage EXCEPT ![Head(w)] = "woken"], wants, sections,
                <<Head(w)>> \o queue, busy_cores, locked,
                [lock_queue EXCEPT ![l] = Tail(w)], cpu_events)
      BY <1>1, <1>2, <2>2, WaiterWoken
    <3>2. [stage EXCEPT ![Head(w)] = "woken"][t] = "unlocking"
      BY <1>1, <3>1 DEF Ok, TasksOk
    <3> QED  BY <2>2, <3>1, <3>2
  <2> QED  BY <2>1, <2>2
<1>4. \/ /\ RunHandler(t, st)
         /\ queue' = q /\ locked' = lk /\ lock_queue' = lq
         /\ busy_cores' = busy_cores /\ cpu_events' = cpu_events
      \/ CpuProcessNextInQueue(b, q, busy_cores - 1, lk, lq, cpu_events)
  BY DEF LockUnlock
<1> HIDE DEF st, lq, q
<1>5. Ok(b, wants, sections, q, busy_cores - 1, lk, lq, cpu_events)
  BY <1>3, LockFreed
<1>6. busy_cores \in Nat /\ busy_cores - 1 < Cores /\ busy_cores - 1 + 1 = busy_cores
  BY <1>1, BusyCores, CpuAssumption DEF Ok
<1>7. /\ b[t] = "done"
      /\ \A s \in Stages : [st EXCEPT ![t] = s] = [b EXCEPT ![t] = s]
  BY <1>3 DEF Ok, TasksOk
<1> HIDE DEF b, lk
<1>8. CASE CpuProcessNextInQueue(b, q, busy_cores - 1, lk, lq, cpu_events)
  BY <1>5, <1>6, <1>8, NextInQueueOk
<1>9. CASE /\ RunHandler(t, st)
           /\ queue' = q /\ locked' = lk /\ lock_queue' = lq
           /\ busy_cores' = busy_cores /\ cpu_events' = cpu_events
  <2>1. Ok(stage', wants', sections', q, busy_cores - 1 + 1, lk, lq, cpu_events)
    BY <1>5, <1>6, <1>7, <1>9, RunHandlerOk
  <2> QED  BY <1>6, <1>9, <2>1 DEF IInv
<1> QED  BY <1>4, <1>8, <1>9

-----------------------------------------------------------------------------
(***************************************************************************)
(* The theorems                                                            *)
(***************************************************************************)
LEMMA InitOk == Init => IInv
<1> SUFFICES ASSUME Init PROVE IInv
  OBVIOUS
<1>1. TasksOk(stage, wants, sections)
  BY CpuAssumption DEF Init, TasksOk, Stages, Locking
<1>2. RunQueueOk(stage, queue)
  BY DEF Init, RunQueueOk, Ready
<1>3. LockQueuesOk(stage, wants, lock_queue)
  BY DEF Init, LockQueuesOk
<1>4. LocksOk(stage, wants, locked)
  BY DEF Init, LocksOk
<1>5. CoresOk(stage, busy_cores)
  <2>1. Running(stage) = {}
    BY DEF Init, Running, OnCores
  <2>2. Cardinality({}) = 0
    BY FS_EmptySet
  <2>3. busy_cores = 0 /\ 0 <= Cores
    BY CpuAssumption DEF Init
  <2> QED  BY <2>1, <2>2, <2>3 DEF CoresOk
<1>6. cpu_events \in Nat
  BY DEF Init
<1> QED  BY <1>1, <1>2, <1>3, <1>4, <1>5, <1>6 DEF IInv, Ok

\* The inductive invariant holds in every reachable state.
THEOREM Invariance == Spec => []IInv
<1>1. Init => IInv
  BY InitOk
<1>2. IInv /\ [Next]_vars => IInv'
  <2> SUFFICES ASSUME IInv, [Next]_vars PROVE IInv'
    OBVIOUS
  <2>1. CASE \E t \in Tasks : Arrive(t)
    BY <2>1, ArriveOk
  <2>2. CASE \E t \in Tasks : FreeCore(t)
    BY <2>2, FreeCoreOk
  <2>3. CASE \E t \in Tasks : LockLock(t)
    BY <2>3, LockLockOk
  <2>4. CASE \E t \in Tasks : LockUnlock(t)
    BY <2>4, LockUnlockOk
  <2>5. CASE CpuEvent
    BY <2>5, CpuEventOk
  <2>6. CASE UNCHANGED vars
    BY <2>6 DEF vars, IInv
  <2> QED  BY <2>1, <2>2, <2>3, <2>4, <2>5, <2>6 DEF Next, Step, Finished
<1> QED  BY <1>1, <1>2, PTL DEF Spec

\* Every variable keeps its type; in particular busy_cores never drops below
\* zero and no lock is asked for that does not exist.
THEOREM TypeCorrect == Spec => []TypeOK
<1>1. IInv => TypeOK
  <2> SUFFICES ASSUME IInv PROVE TypeOK
    OBVIOUS
  <2>1. busy_cores \in Nat
    BY BusyCores DEF IInv, Ok
  <2> QED  BY <2>1 DEF IInv, Ok, TasksOk, RunQueueOk, LockQueuesOk, LocksOk, TypeOK
<1> QED  BY <1>1, Invariance, PTL

\* A lock is held by one task at most, and marked locked exactly while it is
\* held (lock.c:43-80), for any number of cores, tasks and locks.
THEOREM LocksExclude == Spec => []MutualExclusion
<1>1. IInv => MutualExclusion
  BY DEF IInv, Ok, LocksOk, MutualExclusion, Holds
<1> QED  BY <1>1, Invariance, PTL

\* The CPU never runs more tasks than it has cores and busy_cores is their
\* number (the assertions of state.c:11 and 17).
THEOREM CoresCounted == Spec => []CoreAccounting
<1>1. IInv => CoreAccounting
  BY DEF IInv, Ok, CoresOk, Running, OnCores, CoreAccounting, OnCore
<1> QED  BY <1>1, Invariance, PTL

\* No event is lost or duplicated in the run queue and the lock queues.
THEOREM EventsOnce == Spec => []EveryEventOnce
<1>1. ASSUME IInv PROVE EveryEventOnce
  <2>1. /\ RunQueueOk(stage, queue)
        /\ LockQueuesOk(stage, wants, lock_queue)
        /\ DOMAIN queue = 1 .. Len(queue)
        /\ \A l \in Locks : DOMAIN lock_queue[l] = 1 .. Len(lock_queue[l])
    BY <1>1, LenProperties DEF IInv, Ok, RunQueueOk, LockQueuesOk
  <2>2. ASSUME NEW t \in Tasks
        PROVE  Cardinality({i \in DOMAIN queue : queue[i] = t})
                 = IF InRunQueue(t) THEN 1 ELSE 0
    <3> DEFINE places == {i \in DOMAIN queue : queue[i] = t}
    <3>1. CASE InRunQueue(t)
      <4>1. PICK i \in 1 .. Len(queue) : queue[i] = t
        BY <2>1, <3>1 DEF RunQueueOk, InRunQueue, Ready
      <4>2. places = {i}
        BY <4>1, <2>1 DEF RunQueueOk
      <4> QED  BY <3>1, <4>2, FS_Singleton
    <3>2. CASE ~InRunQueue(t)
      <4>1. places = {}
        BY <3>2, <2>1 DEF RunQueueOk, InRunQueue, Ready
      <4> QED  BY <3>2, <4>1, FS_EmptySet
    <3> QED  BY <3>1, <3>2
  <2>3. ASSUME NEW l \in Locks, NEW t \in Tasks
        PROVE  Cardinality({i \in DOMAIN lock_queue[l] : lock_queue[l][i] = t})
                 = IF stage[t] = "blocked" /\ wants[t] = l THEN 1 ELSE 0
    <3> DEFINE places == {i \in DOMAIN lock_queue[l] : lock_queue[l][i] = t}
    <3>1. CASE stage[t] = "blocked" /\ wants[t] = l
      <4>1. PICK i \in 1 .. Len(lock_queue[l]) : lock_queue[l][i] = t
        BY <2>1, <3>1 DEF LockQueuesOk
      <4>2. \A j \in 1 .. Len(lock_queue[l]) :
                lock_queue[l][j] = lock_queue[l][i] => j = i
        BY <2>1 DEF LockQueuesOk
      <4>3. places = {i}
        BY <4>1, <4>2, <2>1
      <4> QED  BY <3>1, <4>3, FS_Singleton
    <3>2. CASE ~(stage[t] = "blocked" /\ wants[t] = l)
      <4>1. places = {}
        BY <3>2, <2>1 DEF LockQueuesOk
      <4> QED  BY <3>2, <4>1, FS_EmptySet
    <3> QED  BY <3>1, <3>2
  <2> QED  BY <2>2, <2>3 DEF EveryEventOnce
<1> QED  BY <1>1, Invariance, PTL

-----------------------------------------------------------------------------
(***************************************************************************)
(* Nobody is forgotten.  NoLostWakeup and WorkConserving hold between      *)
(* events, on top of IInv, and are again stated over explicit values.      *)
(***************************************************************************)

\* A lock that is waited for is held, or a former waiter is on its way to it.
WaitersOk(st, wa, lk, lq) ==
    \A l \in Locks : lq[l] # <<>> => lk[l] \/ \E t \in Tasks : st[t] = "woken" /\ wa[t] = l

\* Cores that are idle although an event has arrived are about to be offered.
OfferedOk(st, busy, ev) ==
    (\E t \in Tasks : st[t] = "queued") => Cores - busy <= ev

Watched == busy_cores > 0 \/ cpu_events > 0

Served ==
    /\ WaitersOk(stage, wants, locked, lock_queue)
    /\ OfferedOk(stage, busy_cores, cpu_events)
    /\ queue # <<>> => Watched

\* RunHandler: the task was neither waiting for a lock nor woken from it.
LEMMA RunHandlerServes ==
    ASSUME NEW STATE st, NEW STATE lk, NEW STATE lq, NEW t \in Tasks,
           st \in [Tasks -> Stages], wants \in [Tasks -> Locks \cup {NoLock}],
           st[t] # "woken", WaitersOk(st, wants, lk, lq),
           RunHandler(t, st)
    PROVE  /\ WaitersOk(stage', wants', lk, lq)
           /\ \A u \in Tasks : stage'[u] = "queued" => u # t /\ st[u] = "queued"
<1>1. /\ \A u \in Tasks : u # t => stage'[u] = st[u] /\ wants'[u] = wants[u]
      /\ stage'[t] \in {"freeing", "locking"}
  BY DEF RunHandler
<1>2. ASSUME NEW l \in Locks, lq[l] # <<>>, ~lk[l]
      PROVE  \E u \in Tasks : stage'[u] = "woken" /\ wants'[u] = l
  <2>1. PICK u \in Tasks : st[u] = "woken" /\ wants[u] = l
    BY <1>2 DEF WaitersOk
  <2> QED  BY <1>1, <2>1
<1>3. WaitersOk(stage', wants', lk, lq)
  BY <1>2 DEF WaitersOk
<1>4. \A u \in Tasks : stage'[u] = "queued" => u # t /\ st[u] = "queued"
  BY <1>1
<1> QED  BY <1>3, <1>4

\* OnLockLock: the lock is held afterwards, by the task or by another one.  A
\* task that has to wait pays for its core with a CPU_EVENT.
LEMMA OnLockLockServes ==
    ASSUME NEW STATE st, NEW STATE busy, NEW STATE lk, NEW STATE lq, NEW STATE ev,
           NEW t \in Tasks,
           st \in [Tasks -> Stages], lk \in [Locks -> BOOLEAN], wants[t] \in Locks,
           lq \in [Locks -> Seq(Tasks)], busy \in Nat \ {0}, ev \in Nat,
           WaitersOk(st, wants, lk, lq),
           OnLockLock(t, st, busy, lk, lq, ev)
    PROVE  /\ WaitersOk(stage', wants', locked', lock_queue')
           /\ \A u \in Tasks : stage'[u] = "queued" => u # t /\ st[u] = "queued"
           /\ Watched'
           /\ busy_cores' + cpu_events' = busy + ev
<1> DEFINE k == wants[t]
<1>1. /\ \A u \in Tasks : u # t => stage'[u] = st[u]
      /\ stage'[t] \in {"blocked", "unlocking"}
      /\ wants' = wants
      /\ \A l \in Locks : l # k => locked'[l] = lk[l] /\ lock_queue'[l] = lq[l]
      /\ locked'[k]
  BY DEF OnLockLock
<1>2. /\ busy_cores' + cpu_events' = busy + ev
      /\ busy_cores' > 0 \/ cpu_events' > 0
  BY DEF OnLockLock
<1> HIDE DEF k
<1>3. ASSUME NEW l \in Locks, lock_queue'[l] # <<>>, ~locked'[l]
      PROVE  \E u \in Tasks : stage'[u] = "woken" /\ wants'[u] = l
  <2>1. l # k /\ lq[l] # <<>> /\ ~lk[l]
    BY <1>1, <1>3
  <2>2. PICK u \in Tasks : st[u] = "woken" /\ wants[u] = l
    BY <2>1 DEF WaitersOk
  <2>3. u # t
    BY <2>1, <2>2 DEF k
  <2> QED  BY <1>1, <2>2, <2>3
<1>4. WaitersOk(stage', wants', locked', lock_queue')
  BY <1>3 DEF WaitersOk
<1>5. \A u \in Tasks : stage'[u] = "queued" => u # t /\ st[u] = "queued"
  BY <1>1
<1> QED  BY <1>2, <1>4, <1>5 DEF Watched

\* CpuProcess takes a core and hands none back without a CPU_EVENT.
LEMMA CpuProcessServes ==
    ASSUME NEW STATE st, NEW STATE busy, NEW STATE lk, NEW STATE lq, NEW STATE ev,
           NEW t \in Tasks,
           st \in [Tasks -> Stages], wants \in [Tasks -> Locks \cup {NoLock}],
           st[t] = "woken" => wants[t] \in Locks,
           lk \in [Locks -> BOOLEAN], lq \in [Locks -> Seq(Tasks)], busy \in Nat, ev \in Nat,
           WaitersOk(st, wants, lk, lq),
           (\E u \in Tasks : u # t /\ st[u] = "queued") => Cores - (busy + 1) <= ev,
           CpuProcess(t, st, busy, lk, lq, ev)
    PROVE  Served'
<1>1. /\ WaitersOk(stage', wants', locked', lock_queue')
      /\ \A u \in Tasks : stage'[u] = "queued" => u # t /\ st[u] = "queued"
      /\ Watched'
      /\ busy_cores' + cpu_events' = busy + 1 + ev
  <2>1. CASE /\ st[t] = "queued"
             /\ RunHandler(t, st)
             /\ busy_cores' = busy + 1
             /\ locked' = lk
             /\ lock_queue' = lq
             /\ cpu_events' = ev
    <3>1. /\ WaitersOk(stage', wants', lk, lq)
          /\ \A u \in Tasks : stage'[u] = "queued" => u # t /\ st[u] = "queued"
      BY <2>1, RunHandlerServes
    <3>2. Watched' /\ busy_cores' + cpu_events' = busy + 1 + ev
      BY <2>1 DEF Watched
    <3> QED  BY <2>1, <3>1, <3>2
  <2>2. CASE st[t] = "woken" /\ OnLockLock(t, st, busy + 1, lk, lq, ev)
    <3> DEFINE b == busy + 1
    <3>1. b \in Nat \ {0}
      OBVIOUS
    <3>2. wants[t] \in Locks /\ OnLockLock(t, st, b, lk, lq, ev)
      BY <2>2
    <3> HIDE DEF b
    <3>3. /\ WaitersOk(stage', wants', locked', lock_queue')
          /\ \A u \in Tasks : stage'[u] = "queued" => u # t /\ st[u] = "queued"
          /\ Watched'
          /\ busy_cores' + cpu_events' = b + ev
      BY ONLY <3>1, <3>2, OnLockLockServes, st \in [Tasks -> Stages],
              lk \in [Locks -> BOOLEAN], lq \in [Locks -> Seq(Tasks)], ev \in Nat,
              WaitersOk(st, wants, lk, lq)
    <3> QED  BY <3>3 DEF b
  <2> QED  BY <2>1, <2>2 DEF CpuProcess
<1>2. busy_cores' \in Int /\ cpu_events' \in Int
  BY DEF CpuProcess, OnLockLock
<1>3. ASSUME NEW u \in Tasks, stage'[u] = "queued"
      PROVE  Cores - busy_cores' <= cpu_events'
  <2>1. Cores - (busy + 1) <= ev
    BY <1>1, <1>3
  <2>2. Cores \in Int
    BY CpuAssumption
  <2>3. busy_cores' + cpu_events' = busy + 1 + ev
    BY <1>1
  <2> DEFINE x == busy_cores'
             y == cpu_events'
  <2>4. x \in Int /\ y \in Int /\ x + y = busy + 1 + ev
    BY <1>2, <2>3
  <2> HIDE DEF x, y
  <2>5. Cores - x <= y
    BY ONLY <2>1, <2>2, <2>4, busy \in Nat, ev \in Nat
  <2> QED  BY <2>5 DEF x, y
<1>4. OfferedOk(stage', busy_cores', cpu_events')
  BY <1>3 DEF OfferedOk
<1> QED  BY <1>1, <1>4 DEF Served

\* CpuProcessNextInQueue with one core that was busy or had been announced
LEMMA NextInQueueServes ==
    ASSUME NEW STATE st, NEW STATE q, NEW STATE busy, NEW STATE lk, NEW STATE lq,
           NEW STATE ev,
           Ok(st, wants, sections, q, busy, lk, lq, ev),
           WaitersOk(st, wants, lk, lq), OfferedOk(st, busy + 1, ev),
           CpuProcessNextInQueue(st, q, busy, lk, lq, ev)
    PROVE  Served'
<1>1. CASE q = <<>>
  <2>1. /\ stage' = st /\ queue' = q /\ busy_cores' = busy /\ locked' = lk
        /\ lock_queue' = lq /\ cpu_events' = ev /\ wants' = wants
    BY <1>1 DEF CpuProcessNextInQueue
  <2>2. ~ \E t \in Tasks : st[t] = "queued"
    BY <1>1 DEF Ok, RunQueueOk, Ready
  <2> QED  BY <1>1, <2>1, <2>2 DEF Served, OfferedOk
<1>2. CASE q # <<>>
  <2> DEFINE h == Head(q)
  <2>1. CpuProcess(h, st, busy, lk, lq, ev)
    BY <1>2 DEF CpuProcessNextInQueue
  <2>2. h \in Tasks /\ (st[h] = "woken" => wants[h] \in Locks)
    <3>1. q \in Seq(Tasks)
      BY DEF Ok, RunQueueOk
    <3>2. h \in Tasks
      BY <1>2, <3>1
    <3> HIDE DEF h
    <3> QED  BY <3>2 DEF Ok, TasksOk, Locking
  <2>3. busy \in Nat
    BY BusyCores DEF Ok
  <2> HIDE DEF h
  <2>4. (\E u \in Tasks : u # h /\ st[u] = "queued") => Cores - (busy + 1) <= ev
    BY DEF OfferedOk
  <2>5. /\ st \in [Tasks -> Stages] /\ wants \in [Tasks -> Locks \cup {NoLock}]
        /\ lk \in [Locks -> BOOLEAN] /\ lq \in [Locks -> Seq(Tasks)] /\ ev \in Nat
    BY DEF Ok, TasksOk, LocksOk, LockQueuesOk
  <2> QED  BY <2>1, <2>2, <2>3, <2>4, <2>5, CpuProcessServes
<1> QED  BY <1>1, <1>2

\* What IInv says of the types
LEMMA IInvTypes ==
    ASSUME IInv
    PROVE  /\ stage \in [Tasks -> Stages] /\ wants \in [Tasks -> Locks \cup {NoLock}]
           /\ locked \in [Locks -> BOOLEAN] /\ lock_queue \in [Locks -> Seq(Tasks)]
           /\ busy_cores \in Nat /\ busy_cores <= Cores /\ cpu_events \in Nat
           /\ \A t \in Tasks : stage[t] \in OnCores => busy_cores > 0
           /\ \A t \in Tasks : stage[t] \in Locking => wants[t] \in Locks
<1>1. CoresOk(stage, busy_cores)
  BY DEF IInv, Ok
<1>2. /\ busy_cores \in 0 .. Cores
      /\ \A t \in Tasks : stage[t] \in OnCores => busy_cores > 0
  BY <1>1, BusyCores
<1> QED  BY <1>2, CpuAssumption DEF IInv, Ok, TasksOk, LocksOk, LockQueuesOk

LEMMA ArriveServes ==
    ASSUME IInv, Served, NEW t \in Tasks, Arrive(t)
    PROVE  Served'
<1> DEFINE on == [stage EXCEPT ![t] = "queued"]
<1>1. /\ stage[t] = "idle" /\ on[t] = "queued" /\ on \in [Tasks -> Stages]
      /\ \A u \in Tasks : u # t => on[u] = stage[u]
  BY IInvTypes DEF Arrive, Stages
<1>2. /\ cpu_busy => /\ queue' = Append(queue, t) /\ stage' = on
                     /\ UNCHANGED <<wants, busy_cores, locked, lock_queue, cpu_events>>
      /\ ~cpu_busy => CpuProcess(t, on, busy_cores, locked, lock_queue, cpu_events)
  BY DEF Arrive
<1> HIDE DEF on
<1>3. WaitersOk(on, wants, locked, lock_queue)
  <2>1. ASSUME NEW l \in Locks, lock_queue[l] # <<>>, ~locked[l]
        PROVE  \E u \in Tasks : on[u] = "woken" /\ wants[u] = l
    <3>1. PICK u \in Tasks : stage[u] = "woken" /\ wants[u] = l
      BY <2>1 DEF Served, WaitersOk
    <3> QED  BY <1>1, <3>1
  <2> QED  BY <2>1 DEF WaitersOk
<1>4. CASE cpu_busy
  <2>1. busy_cores >= Cores /\ busy_cores > 0
    BY <1>4, IInvTypes, CpuAssumption DEF cpu_busy
  <2>2. OfferedOk(on, busy_cores, cpu_events)
    BY <2>1, IInvTypes, CpuAssumption DEF OfferedOk
  <2> QED  BY <1>2, <1>3, <1>4, <2>1, <2>2 DEF Served, Watched
<1>5. CASE ~cpu_busy
  <2>1. (\E u \in Tasks : u # t /\ on[u] = "queued") => Cores - (busy_cores + 1) <= cpu_events
    BY <1>1, IInvTypes, CpuAssumption DEF Served, OfferedOk
  <2> QED  BY <1>1, <1>2, <1>3, <1>5, <2>1, IInvTypes, CpuProcessServes
<1> QED  BY <1>4, <1>5

LEMMA FreeCoreServes ==
    ASSUME IInv, Served, NEW t \in Tasks, FreeCore(t)
    PROVE  Served'
<1> DEFINE b == [stage EXCEPT ![t] = "done"]
           n == busy_cores - 1
<1>1. /\ stage[t] = "freeing"
      /\ CpuProcessNextInQueue(b, queue, n, locked, lock_queue, cpu_events)
  BY DEF FreeCore
<1>2. Ok(b, wants, sections, queue, n, locked, lock_queue, cpu_events)
  BY <1>1, CoreFreed DEF IInv
<1>3. \A u \in Tasks : b[u] = IF u = t THEN "done" ELSE stage[u]
  BY IInvTypes
<1>4. n + 1 = busy_cores
  BY IInvTypes
<1> HIDE DEF b, n
<1>5. WaitersOk(b, wants, locked, lock_queue)
  BY <1>1, <1>3 DEF Served, WaitersOk
<1>6. OfferedOk(b, n + 1, cpu_events)
  BY <1>3, <1>4 DEF Served, OfferedOk
<1> QED  BY <1>1, <1>2, <1>5, <1>6, NextInQueueServes

LEMMA CpuEventServes ==
    ASSUME IInv, Served, CpuEvent
    PROVE  Served'
<1> DEFINE e == cpu_events - 1
<1>1. /\ cpu_events > 0
      /\ CpuProcessNextInQueue(stage, queue, busy_cores, locked, lock_queue, e)
  BY DEF CpuEvent
<1>2. e \in Nat /\ e + 1 = cpu_events
  BY <1>1, IInvTypes
<1> HIDE DEF e
<1>3. Ok(stage, wants, sections, queue, busy_cores, locked, lock_queue, e)
  BY <1>2 DEF IInv, Ok
<1>4. OfferedOk(stage, busy_cores + 1, e)
  BY <1>2, IInvTypes, CpuAssumption DEF Served, OfferedOk
<1>5. WaitersOk(stage, wants, locked, lock_queue)
  BY DEF Served
<1> QED  BY <1>1, <1>3, <1>4, <1>5, NextInQueueServes

LEMMA LockLockServes ==
    ASSUME IInv, Served, NEW t \in Tasks, LockLock(t)
    PROVE  Served'
<1>1. /\ stage[t] = "locking"
      /\ OnLockLock(t, stage, busy_cores, locked, lock_queue, cpu_events)
  BY DEF LockLock
<1>2. busy_cores \in Nat \ {0} /\ wants[t] \in Locks
  BY <1>1, IInvTypes DEF OnCores, Locking
<1>3. /\ WaitersOk(stage', wants', locked', lock_queue')
      /\ \A u \in Tasks : stage'[u] = "queued" => u # t /\ stage[u] = "queued"
      /\ Watched'
      /\ busy_cores' + cpu_events' = busy_cores + cpu_events
  BY <1>1, <1>2, IInvTypes, OnLockLockServes DEF Served
<1>4. busy_cores' \in Int /\ cpu_events' \in Int
  BY <1>1, <1>2, IInvTypes DEF OnLockLock
<1>5. OfferedOk(stage', busy_cores', cpu_events')
  BY <1>3, <1>4, IInvTypes, CpuAssumption DEF Served, OfferedOk
<1> QED  BY <1>3, <1>5 DEF Served

\* The lock is free, but its oldest waiter is on its way.
LEMMA LockUnlockServes ==
    ASSUME IInv, Served, NEW t \in Tasks, LockUnlock(t)
    PROVE  Served'
<1> DEFINE l  == wants[t]
           w  == lock_queue[l]
           lk == [locked EXCEPT ![l] = FALSE]
           st == IF w = <<>> THEN stage ELSE [stage EXCEPT ![Head(w)] = "woken"]
           lq == IF w = <<>> THEN lock_queue
                             ELSE [lock_queue EXCEPT ![l] = Tail(w)]
           q  == IF w = <<>> THEN queue ELSE <<Head(w)>> \o queue
           b  == [st EXCEPT ![t] = "done"]
           n  == busy_cores - 1
<1>1. /\ stage[t] = "unlocking"
      /\ Ok(stage, wants, sections, queue, busy_cores, locked, lock_queue,
            cpu_events)
  BY DEF LockUnlock, IInv
<1>2. l \in Locks
  BY <1>1 DEF Ok, TasksOk, Locking
<1>3. /\ Ok(st, wants, sections, q, busy_cores, locked, lq, cpu_events)
      /\ st \in [Tasks -> Stages]
      /\ st[t] = "unlocking"
      /\ \A u \in Tasks : (stage[u] = "woken" => st[u] = "woken")
                          /\ (st[u] = "queued" => stage[u] = "queued")
      /\ lq[l] # <<>> => \E u \in Tasks : st[u] = "woken" /\ wants[u] = l
      /\ \A k \in Locks : k # l => lq[k] = lock_queue[k]
  <2>1. CASE w = <<>>
    BY <1>1, <2>1, IInvTypes
  <2>2. CASE w # <<>>
    <3>1. /\ Head(w) \in Tasks
          /\ stage[Head(w)] = "blocked"
          /\ Ok([stage EXCEPT ![Head(w)] = "woken"], wants, sections,
                <<Head(w)>> \o queue, busy_cores, locked,
                [lock_queue EXCEPT ![l] = Tail(w)], cpu_events)
      BY <1>1, <1>2, <2>2, WaiterWoken
    <3>2. wants[Head(w)] = l
      <4>1. w \in Seq(Tasks) /\ w # <<>>
        BY <1>2, <2>2, IInvTypes
      <4>2. 1 \in 1 .. Len(w) /\ Head(w) = w[1]
        BY <4>1
      <4> QED  BY <1>1, <1>2, <4>2 DEF Ok, LockQueuesOk
    <3>3. /\ st = [stage EXCEPT ![Head(w)] = "woken"]
          /\ lq = [lock_queue EXCEPT ![l] = Tail(w)]
          /\ q = <<Head(w)>> \o queue
      BY <2>2
    <3>4. /\ st \in [Tasks -> Stages]
          /\ \A u \in Tasks : st[u] = IF u = Head(w) THEN "woken" ELSE stage[u]
          /\ \A k \in Locks : k # l => lq[k] = lock_queue[k]
      BY <3>1, <3>3, IInvTypes DEF Stages
    <3> QED  BY <1>1, <3>1, <3>2, <3>3, <3>4
  <2> QED  BY <2>1, <2>2
<1>4. \/ /\ RunHandler(t, st)
         /\ locked' = lk /\ lock_queue' = lq
         /\ busy_cores' = busy_cores /\ cpu_events' = cpu_events
      \/ CpuProcessNextInQueue(b, q, n, lk, lq, cpu_events)
  BY DEF LockUnlock
<1>5. \A k \in Locks : k # l => lk[k] = locked[k]
  BY IInvTypes
<1> HIDE DEF st, lq, q, w
<1>6. WaitersOk(st, wants, lk, lq)
  <2>1. ASSUME NEW k \in Locks, lq[k] # <<>>, ~lk[k]
        PROVE  \E u \in Tasks : st[u] = "woken" /\ wants[u] = k
    <3>1. CASE k = l
      BY <1>3, <2>1, <3>1
    <3>2. CASE k # l
      <4>1. lock_queue[k] # <<>> /\ ~locked[k]
        BY <1>3, <1>5, <2>1, <3>2
      <4>2. PICK u \in Tasks : stage[u] = "woken" /\ wants[u] = k
        BY <4>1 DEF Served, WaitersOk
      <4> QED  BY <1>3, <4>2
    <3> QED  BY <3>1, <3>2
  <2> QED  BY <2>1 DEF WaitersOk
<1>7. CASE CpuProcessNextInQueue(b, q, n, lk, lq, cpu_events)
  <2>1. Ok(b, wants, sections, q, n, lk, lq, cpu_events)
    BY <1>3, LockFreed
  <2>2. \A u \in Tasks : b[u] = IF u = t THEN "done" ELSE st[u]
    BY <1>3
  <2>3. n + 1 = busy_cores
    BY IInvTypes
  <2> HIDE DEF b, n, lk
  <2>4. WaitersOk(b, wants, lk, lq)
    BY <1>3, <1>6, <2>2 DEF WaitersOk
  <2>5. OfferedOk(b, n + 1, cpu_events)
    BY <1>3, <2>2, <2>3 DEF Served, OfferedOk
  <2> QED  BY <1>7, <2>1, <2>4, <2>5, NextInQueueServes
<1>8. CASE /\ RunHandler(t, st)
           /\ locked' = lk /\ lock_queue' = lq
           /\ busy_cores' = busy_cores /\ cpu_events' = cpu_events
  <2> HIDE DEF lk
  <2>1. /\ WaitersOk(stage', wants', lk, lq)
        /\ \A u \in Tasks : stage'[u] = "queued" => u # t /\ st[u] = "queued"
    BY <1>3, <1>6, <1>8, IInvTypes, RunHandlerServes
  <2>2. OfferedOk(stage', busy_cores', cpu_events')
    BY <1>3, <1>8, <2>1 DEF Served, OfferedOk
  <2>3. Watched'
    BY <1>1, <1>8, IInvTypes DEF Watched, OnCores
  <2> QED  BY <1>8, <2>1, <2>2, <2>3 DEF Served
<1> QED  BY <1>4, <1>7, <1>8

\* Whoever waits is served: the second half of the invariant.
THEOREM NobodyIsForgotten == Spec => []Served
<1>1. Init => Served
  BY DEF Init, Served, WaitersOk, OfferedOk
<1>2. IInv /\ Served /\ [Next]_vars => Served'
  <2> SUFFICES ASSUME IInv, Served, [Next]_vars PROVE Served'
    OBVIOUS
  <2>1. CASE \E t \in Tasks : Arrive(t)
    BY <2>1, ArriveServes
  <2>2. CASE \E t \in Tasks : FreeCore(t)
    BY <2>2, FreeCoreServes
  <2>3. CASE \E t \in Tasks : LockLock(t)
    BY <2>3, LockLockServes
  <2>4. CASE \E t \in Tasks : LockUnlock(t)
    BY <2>4, LockUnlockServes
  <2>5. CASE CpuEvent
    BY <2>5, CpuEventServes
  <2>6. CASE UNCHANGED vars
    BY <2>6 DEF vars, Served, Watched
  <2> QED  BY <2>1, <2>2, <2>3, <2>4, <2>5, <2>6 DEF Next, Step, Finished
<1> QED  BY <1>1, <1>2, Invariance, PTL DEF Spec

\* A lock with waiters is held or has a former waiter in the run queue, and a
\* run queue that is not empty has a core or a CPU_EVENT to look at it
\* (lock.c:43-80).
THEOREM WakeupsAreNotLost == Spec => []NoLostWakeup
<1>1. Served => NoLostWakeup
  BY DEF Served, WaitersOk, Watched, NoLostWakeup
<1> QED  BY <1>1, NobodyIsForgotten, PTL

\* An event that has arrived waits only while every core is busy or about to
\* be offered (cpu.c, lock.c:43-57).
THEOREM CoresAreUsed == Spec => []WorkConserving
<1>1. Served => WorkConserving
  BY DEF Served, OfferedOk, WorkConserving
<1> QED  BY <1>1, NobodyIsForgotten, PTL
=============================================================================
