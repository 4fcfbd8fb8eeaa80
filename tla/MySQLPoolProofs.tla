---------------------------- MODULE MySQLPoolProofs ----------------------------
(***************************************************************************)
(* Theorems about the MySQL pool, for any number of threads, connections,  *)
(* calls and sizes: LentToOneAlways and UndefinedOnlyIfMisused, both from  *)
(* the inductive invariant MySQLInv.                                       *)
(***************************************************************************)
EXTENDS MySQLPool, SequenceTheorems, TLAPS

Entries == [first : Addresses, second : BOOLEAN]

Types ==
  /\ pool_ \in Seq(Entries) \cup {NULL}
  /\ poolSize_ \in Sizes \cup {0}
  /\ initmutex \in Threads \cup {NULL}
  /\ live \subseteq Addresses
  /\ dtor \in Nat
  /\ pc \in [Threads -> {"idle", "creating", "scanning", "using", "queried"}]
  /\ ret \in [Threads -> Addresses \cup {NULL}]

(* Whoever makes the pool has initmutex, and there is none meanwhile.      *)
OneCreator ==
  /\ \A t \in Threads : pc[t] = "creating" <=> initmutex = t
  /\ pool_ # NULL => initmutex = NULL

(* A thread has a connection from the scan to the release, one that is     *)
(* there; and no other thread has the same.                                *)
Borrowed ==
  /\ \A t \in Threads : ret[t] # NULL <=> pc[t] \in {"using", "queried"}
  /\ \A t \in Threads : ret[t] # NULL => ret[t] \in live
  /\ \A s, t \in Threads : s # t /\ ret[s] = ret[t] => ret[s] = NULL

(* Without a pool there are no connections, and nobody is past the test of *)
(* pool_ in getConnection().                                               *)
NoPool == pool_ = NULL => live = {} /\ ~InUse

(* A pool has as many slots as the loops over it take for granted, each    *)
(* with a connection of its own, marked while a thread has it.             *)
PoolWhole ==
  pool_ # NULL =>
    /\ Len(pool_) = poolSize_
    /\ \A i, j \in DOMAIN pool_ : pool_[i].first = pool_[j].first => i = j
    /\ live = {pool_[i].first : i \in {j \in DOMAIN pool_ : dtor <= j}}
    /\ \A i \in DOMAIN pool_ : pool_[i].second <=> \E t \in Threads : ret[t] = pool_[i].first

(* While destroyPool runs there is a pool, and nobody uses it.             *)
Destroying == dtor # 0 => pool_ # NULL /\ ~InUse

Sound == OneCreator /\ Borrowed /\ NoPool /\ PoolWhole /\ Destroying

(* What is true as long as initPool and destroyPool keep away from a pool  *)
(* in use; nothing can be said of the pool once they did not.              *)
MySQLInv ==
  /\ Types
  /\ FailsOnlyIfMisused
  /\ Proper /\ outcome = "running" => Sound

----------------------------------------------------------------------------
LEMMA FunctionIsSeq ==
  ASSUME NEW S, NEW n \in Nat, NEW f \in [1 .. n -> S]
  PROVE  f \in Seq(S) /\ Len(f) = n
<1>1. f \in Seq(S)
  BY SeqDef
<1>2. DOMAIN f = 1 .. n /\ DOMAIN f = 1 .. Len(f) /\ Len(f) \in Nat
  BY <1>1, LenProperties
<1> QED
  BY <1>1, <1>2

LEMMA SlotTyped ==
  ASSUME NEW v \in Seq(Entries), NEW i \in DOMAIN v
  PROVE  v[i] \in Entries /\ v[i].first \in Addresses
<1>1. v[i] \in Entries
  BY LenProperties
<1> QED
  BY <1>1 DEF Entries

(* Marking a slot changes its flag and nothing else. *)
Marked(v, i, b) == [v EXCEPT ![i].second = b]

(* The same connections as in v, and another flag in slot i. *)
SameBut(v, w, i, b) ==
  /\ w \in Seq(Entries)
  /\ Len(w) = Len(v)
  /\ DOMAIN w = DOMAIN v
  /\ \A j \in DOMAIN v : w[j].first = v[j].first
  /\ \A j \in DOMAIN v \ {i} : w[j].second = v[j].second
  /\ w[i].second = b

LEMMA MarkedSound ==
  ASSUME NEW v \in Seq(Entries), NEW i \in DOMAIN v, NEW b \in BOOLEAN
  PROVE  SameBut(v, Marked(v, i, b), i, b)
<1>1. Len(v) \in Nat /\ DOMAIN v = 1 .. Len(v) /\ v \in [1 .. Len(v) -> Entries]
  BY LenProperties
<1>2. Marked(v, i, b) \in [1 .. Len(v) -> Entries]
  BY <1>1 DEF Marked, Entries
<1>3. Marked(v, i, b) \in Seq(Entries) /\ Len(Marked(v, i, b)) = Len(v)
  BY <1>1, <1>2, FunctionIsSeq
<1>4. DOMAIN Marked(v, i, b) = DOMAIN v
  BY <1>1, <1>2
<1>5. v[i] \in Entries
  BY <1>1
<1>6. /\ \A j \in DOMAIN v : Marked(v, i, b)[j].first = v[j].first
      /\ \A j \in DOMAIN v \ {i} : Marked(v, i, b)[j].second = v[j].second
      /\ Marked(v, i, b)[i].second = b
  BY <1>5 DEF Marked, Entries
<1> QED
  BY <1>3, <1>4, <1>6 DEF SameBut

(* Of a pool that is whole, the loops visit every slot and no more. *)
LEMMA LoopsVisitAll ==
  ASSUME Types, PoolWhole, pool_ # NULL
  PROVE  /\ pool_ \in Seq(Entries)
         /\ Slots = DOMAIN pool_
         /\ ~RunsOut
<1>1. pool_ \in Seq(Entries) /\ poolSize_ \in Nat
  BY PoolAssumption DEF Types
<1>2. DOMAIN pool_ = 1 .. Len(pool_) /\ Len(pool_) \in Nat
  BY <1>1, LenProperties
<1> QED
  BY <1>1, <1>2 DEF PoolWhole, Slots, RunsOut

(* Until destroyPool is called no connection has been deleted. *)
LEMMA NothingDeletedYet ==
  ASSUME NEW v \in Seq(Entries)
  PROVE  {j \in DOMAIN v : 0 <= j} = DOMAIN v
<1>1. DOMAIN v = 1 .. Len(v) /\ Len(v) \in Nat
  BY LenProperties
<1> QED
  BY <1>1

(* Whoever uses a pool that is sound finds one that is not being destroyed. *)
LEMMA UserHasPool ==
  ASSUME Types, Sound, InUse
  PROVE  pool_ # NULL /\ dtor = 0 /\ ~Freed
<1>1. pool_ # NULL /\ dtor = 0
  BY DEF Sound, NoPool, Destroying
<1>2. poolSize_ \in Nat
  BY PoolAssumption DEF Types
<1> QED
  BY <1>1, <1>2 DEF Freed

LEMMA PoolIsNotNull == NULL \notin Seq(Entries) /\ NULL \notin Threads /\ NULL \notin Addresses
  BY PoolAssumption DEF Entries

----------------------------------------------------------------------------
LEMMA EnterStep ==
  ASSUME MySQLInv, outcome = "running", NEW t \in Threads, Enter(t)
  PROVE  MySQLInv'
<1> USE PoolIsNotNull
<1>1. Types'
  BY DEF MySQLInv, Types, Enter
<1>2. FailsOnlyIfMisused'
  BY DEF MySQLInv, FailsOnlyIfMisused, Enter
<1>3. ASSUME Proper' PROVE Sound'
  <2>1. Sound /\ dtor = 0 /\ dtor' = 0
    BY <1>3 DEF Enter, Proper, MySQLInv
  <2>2. OneCreator'
    BY <2>1 DEF Sound, OneCreator, Enter, LocksInit, MySQLInv, Types
  <2>3. Borrowed'
    BY <2>1 DEF Sound, Borrowed, Enter, MySQLInv, Types
  <2>4. NoPool'
    BY <2>1 DEF Sound, NoPool, InUse, Enter, MySQLInv, Types
  <2>5. PoolWhole'
    BY <2>1 DEF Sound, PoolWhole, Enter
  <2> QED
    BY <2>1, <2>2, <2>3, <2>4, <2>5 DEF Sound, Destroying
<1> QED
  BY <1>1, <1>2, <1>3 DEF MySQLInv

LEMMA ConstructStep ==
  ASSUME MySQLInv, outcome = "running", NEW t \in Threads, Construct(t)
  PROVE  MySQLInv'
<1> USE PoolIsNotNull
<1>1. PICK new \in [1 .. LastOfSize -> Addresses \ live] :
        /\ \A i, j \in DOMAIN new : new[i] = new[j] => i = j
        /\ pool_' = [i \in DOMAIN new |-> [first |-> new[i], second |-> FALSE]]
        /\ live' = live \cup {new[i] : i \in DOMAIN new}
  BY DEF Construct
<1>2. poolSize_ \in Nat /\ DOMAIN new = 1 .. poolSize_
  BY <1>1, PoolAssumption DEF MySQLInv, Types, LastOfSize
<1>3. pool_' \in [1 .. poolSize_ -> Entries]
  BY <1>1, <1>2 DEF Entries, LastOfSize
<1>4. pool_' \in Seq(Entries) /\ Len(pool_') = poolSize_ /\ DOMAIN pool_' = 1 .. poolSize_
  BY <1>2, <1>3, FunctionIsSeq
<1>5. \A i \in DOMAIN pool_' : pool_'[i].first = new[i] /\ pool_'[i].second = FALSE
  BY <1>1, <1>2, <1>4
<1>6. /\ pc' = [pc EXCEPT ![t] = "scanning"]
      /\ pc[t] = "creating" /\ initmutex' = NULL
      /\ UNCHANGED <<poolSize_, dtor, ret, rounds, calls, outcome, causes>>
  BY DEF Construct
<1>7. Types'
  <2>1. live' \subseteq Addresses
    BY <1>1 DEF MySQLInv, Types
  <2> QED
    BY <1>4, <1>6, <2>1 DEF MySQLInv, Types
<1>8. FailsOnlyIfMisused'
  BY <1>6 DEF MySQLInv, FailsOnlyIfMisused
<1>9. ASSUME Sound PROVE Sound'
  <2>1. initmutex = t /\ pool_ = NULL /\ live = {} /\ ~InUse /\ dtor = 0
    BY <1>6, <1>9 DEF Sound, OneCreator, NoPool, Destroying
  <2>2. OneCreator'
    BY <1>6, <1>9, <2>1 DEF Sound, OneCreator, MySQLInv, Types
  <2>3. \A s \in Threads : ret[s] = NULL
    BY <1>9, <2>1 DEF Sound, Borrowed, InUse
  <2>4. Borrowed'
    BY <1>6, <1>9, <2>3 DEF Sound, Borrowed, MySQLInv, Types
  <2>5. NoPool'
    BY <1>4 DEF NoPool
  <2>6. live' = {pool_'[i].first : i \in {j \in DOMAIN pool_' : dtor' <= j}}
    <3>1. live' = {pool_'[i].first : i \in DOMAIN pool_'}
      BY <1>1, <1>2, <1>4, <1>5, <2>1
    <3> QED
      BY <1>4, <1>6, <2>1, <3>1, NothingDeletedYet
  <2>7. \A i \in DOMAIN pool_' : pool_'[i].first # NULL
    BY <1>3, <1>4 DEF Entries
  <2>8. PoolWhole'
    BY <1>1, <1>2, <1>4, <1>5, <1>6, <2>3, <2>6, <2>7 DEF PoolWhole
  <2> QED
    BY <1>6, <2>1, <2>2, <2>4, <2>5, <2>8 DEF Sound, Destroying
<1> QED
  BY <1>6, <1>7, <1>8, <1>9 DEF MySQLInv, Proper

(* A step that ends in undefined behaviour keeps the invariant if it has   *)
(* a cause: nothing is said of the state that it leaves.                   *)
LEMMA UndefinedStep ==
  ASSUME MySQLInv, Undefined, dtor' \in Nat, UNCHANGED <<poolSize_, initmutex>>, causes' # {}
  PROVE  MySQLInv'
  BY DEF MySQLInv, Undefined, Types, FailsOnlyIfMisused

LEMMA ConstructFailsStep ==
  ASSUME MySQLInv, outcome = "running", NEW t \in Threads, ConstructFails(t)
  PROVE  MySQLInv'
  BY DEF MySQLInv, ConstructFails, Types, FailsOnlyIfMisused

LEMMA ScanStep ==
  ASSUME MySQLInv, outcome = "running", NEW t \in Threads, Scan(t)
  PROVE  MySQLInv'
<1> USE PoolIsNotNull
<1> DEFINE free == {i \in Slots : ~pool_[i].second}
<1>1. pc[t] = "scanning" /\ UNCHANGED <<poolSize_, initmutex, dtor, calls, causes>>
  BY DEF Scan
<1>2. ASSUME Undefined PROVE MySQLInv'
  <2>1. CASE Proper
    <3>1. Sound
      BY <2>1 DEF MySQLInv
    <3>2. pool_ # NULL /\ ~Freed
      BY <1>1, <3>1, UserHasPool DEF InUse, MySQLInv
    <3>3. ~RunsOut
      BY <3>1, <3>2, LoopsVisitAll DEF Sound, MySQLInv
    <3>4. outcome' = "running"
      BY <3>2, <3>3 DEF Scan
    <3> QED
      BY <1>2, <3>4 DEF Undefined
  <2>2. CASE ~Proper
    BY <1>1, <1>2, <2>2, UndefinedStep DEF Proper, MySQLInv, Types
  <2> QED
    BY <2>1, <2>2
<1>3. ASSUME pool_ # NULL, NEW i \in free,
             pool_' = [pool_ EXCEPT ![i].second = TRUE],
             ret' = [ret EXCEPT ![t] = pool_[i].first],
             pc' = [pc EXCEPT ![t] = "using"],
             UNCHANGED <<live, rounds, outcome>>
      PROVE  MySQLInv'
  <2>1. pool_ \in Seq(Entries) /\ i \in DOMAIN pool_ /\ ~pool_[i].second
    BY <1>3 DEF MySQLInv, Types, Slots
  <2> HIDE DEF free
  <2>2. pool_' = Marked(pool_, i, TRUE)
    BY <1>3 DEF Marked
  <2>3. /\ pool_' \in Seq(Entries)
        /\ Len(pool_') = Len(pool_)
        /\ DOMAIN pool_' = DOMAIN pool_
        /\ \A j \in DOMAIN pool_ : pool_'[j].first = pool_[j].first
        /\ \A j \in DOMAIN pool_ \ {i} : pool_'[j].second = pool_[j].second
        /\ pool_'[i].second = TRUE
    <3>1. SameBut(pool_, pool_', i, TRUE)
      BY <2>1, <2>2, MarkedSound, Zenon
    <3> QED
      BY <3>1, Zenon DEF SameBut
  <2>4. pool_[i].first \in Addresses
    BY <2>1, SlotTyped
  <2>5. Types'
    BY <1>1, <1>3, <2>3, <2>4 DEF MySQLInv, Types
  <2>6. FailsOnlyIfMisused'
    BY <1>1, <1>3 DEF MySQLInv, FailsOnlyIfMisused
  <2>7. ret' \in [Threads -> Addresses \cup {NULL}]
        /\ ret'[t] = pool_[i].first /\ \A s \in Threads \ {t} : ret'[s] = ret[s]
    BY <1>3, <2>5 DEF MySQLInv, Types
  <2>8. ASSUME Sound PROVE Sound'
    <3>0. dtor = 0 /\ dtor' = 0
      BY <1>1, <2>8, UserHasPool DEF InUse, MySQLInv
    <3>1. OneCreator'
      BY <1>1, <1>3, <2>8, <2>3 DEF Sound, OneCreator, MySQLInv, Types
    <3>2. ret[t] = NULL
      BY <1>1, <2>8 DEF Sound, Borrowed
    <3>3. \A s \in Threads : ret[s] # pool_[i].first
      BY <1>3, <2>1, <2>8 DEF Sound, PoolWhole
    <3>4. live = {pool_[j].first : j \in DOMAIN pool_} /\ pool_[i].first \in live
      BY <1>3, <2>1, <2>8, <3>0, NothingDeletedYet DEF Sound, PoolWhole
    <3>5. \A s \in Threads : pc'[s] = IF s = t THEN "using" ELSE pc[s]
      BY <1>3 DEF MySQLInv, Types
    <3>6. Borrowed'
      BY <1>3, <2>4, <2>7, <2>8, <3>3, <3>4, <3>5 DEF Sound, Borrowed
    <3>7. NoPool'
      BY <2>3 DEF NoPool
    <3>8. live' = {pool_'[j].first : j \in {k \in DOMAIN pool_' : dtor' <= k}}
      BY <1>3, <2>3, <3>0, <3>4, NothingDeletedYet
    <3>9. \A j \in DOMAIN pool_ \ {i} : pool_[j].first # pool_[i].first
      BY <1>3, <2>1, <2>8 DEF Sound, PoolWhole
    <3>10. ASSUME NEW j \in DOMAIN pool_
           PROVE  pool_'[j].second <=> \E s \in Threads : ret'[s] = pool_'[j].first
      <4>1. CASE j = i
        <5>1. ret'[t] = pool_'[i].first
          BY <2>1, <2>3, <2>7
        <5> QED
          BY <2>3, <4>1, <5>1
      <4>2. CASE j # i
        <5>1. pool_[j].second <=> \E s \in Threads : ret[s] = pool_[j].first
          BY <1>3, <2>8 DEF Sound, PoolWhole
        <5>2. pool_[j].first # NULL
          BY <2>1, SlotTyped
        <5>3. pool_[j].first # pool_[i].first
          BY <3>9, <4>2
        <5>4. (\E s \in Threads : ret[s] = pool_[j].first)
                 <=> \E s \in Threads : ret'[s] = pool_[j].first
          BY <2>7, <3>2, <5>2, <5>3
        <5> QED
          BY <2>3, <4>2, <5>1, <5>4
      <4> QED
        BY <4>1, <4>2
    <3>11. PoolWhole'
      BY <1>1, <1>3, <2>3, <2>8, <3>8, <3>10 DEF Sound, PoolWhole
    <3> QED
      BY <3>0, <3>1, <3>6, <3>7, <3>11 DEF Sound, Destroying
  <2> QED
    BY <1>1, <1>3, <2>5, <2>6, <2>8 DEF MySQLInv, Proper
<1> QED
  BY <1>2, <1>3 DEF Scan

LEMMA QueryStep ==
  ASSUME MySQLInv, outcome = "running", NEW t \in Threads, Query(t)
  PROVE  MySQLInv'
<1>1. pc[t] = "using" /\ UNCHANGED <<poolSize_, initmutex, dtor, calls, causes>>
  BY DEF Query
<1>2. CASE ret[t] \notin live
  <2>1. Undefined
    BY <1>2 DEF Query
  <2>2. CASE Proper
    BY <1>1, <1>2, <2>2 DEF MySQLInv, Sound, Borrowed
  <2>3. CASE ~Proper
    BY <1>1, <2>1, <2>3, UndefinedStep DEF Proper, MySQLInv, Types
  <2> QED
    BY <2>2, <2>3
<1>3. CASE ret[t] \in live
  <2>1. pc' = [pc EXCEPT ![t] = "queried"] /\ UNCHANGED <<pool_, live, ret, rounds, outcome>>
    BY <1>3 DEF Query
  <2>2. Types'
    BY <1>1, <2>1 DEF MySQLInv, Types
  <2>3. FailsOnlyIfMisused'
    BY <1>1, <2>1 DEF MySQLInv, FailsOnlyIfMisused
  <2>4. ASSUME Sound PROVE Sound'
    <3>1. OneCreator'
      BY <1>1, <2>1, <2>4 DEF Sound, OneCreator, MySQLInv, Types
    <3>2. Borrowed'
      BY <1>1, <2>1, <2>4 DEF Sound, Borrowed, MySQLInv, Types
    <3>3. pool_ # NULL /\ dtor = 0
      BY <1>1, <2>4, UserHasPool DEF InUse, MySQLInv
    <3>4. NoPool' /\ PoolWhole' /\ Destroying'
      BY <1>1, <2>1, <2>4, <3>3 DEF Sound, NoPool, PoolWhole, Destroying
    <3> QED
      BY <3>1, <3>2, <3>4 DEF Sound
  <2> QED
    BY <1>1, <2>1, <2>2, <2>3, <2>4 DEF MySQLInv, Proper
<1> QED
  BY <1>2, <1>3

LEMMA QueryUnsafeStep ==
  ASSUME MySQLInv, outcome = "running", NEW t \in Threads, QueryUnsafe(t)
  PROVE  MySQLInv'
  BY UndefinedStep DEF QueryUnsafe, MySQLInv, Types

LEMMA ReleaseStep ==
  ASSUME MySQLInv, outcome = "running", NEW t \in Threads, Release(t)
  PROVE  MySQLInv'
<1> USE PoolIsNotNull
<1> DEFINE same == {i \in Slots : pool_[i].first = ret[t]}
<1>1. pc[t] = "queried" /\ UNCHANGED <<poolSize_, initmutex, dtor, calls, causes>>
  BY DEF Release
<1>2. ASSUME Undefined PROVE MySQLInv'
  <2>1. CASE Proper
    <3>1. Sound
      BY <2>1 DEF MySQLInv
    <3>2. pool_ # NULL /\ ~Freed
      BY <1>1, <3>1, UserHasPool DEF InUse, MySQLInv
    <3>3. ~RunsOut
      BY <3>1, <3>2, LoopsVisitAll DEF Sound, MySQLInv
    <3>4. outcome' = "running"
      BY <3>2, <3>3 DEF Release
    <3> QED
      BY <1>2, <3>4 DEF Undefined
  <2>2. CASE ~Proper
    BY <1>1, <1>2, <2>2, UndefinedStep DEF Proper, MySQLInv, Types
  <2> QED
    BY <2>1, <2>2
<1>3. ASSUME pool_ # NULL, UNCHANGED <<live, outcome>>,
             ret' = [ret EXCEPT ![t] = NULL],
             pc' = [pc EXCEPT ![t] = "idle"],
             \/ same = {} /\ UNCHANGED pool_
             \/ \E i \in same : First(i, same) /\ pool_' = Released(i)
      PROVE  MySQLInv'
  <2>1. pool_ \in Seq(Entries)
    BY <1>3 DEF MySQLInv, Types
  <2>2. ASSUME NEW i \in same, pool_' = Released(i)
        PROVE  i \in DOMAIN pool_ /\ pool_[i].first = ret[t] /\ SameBut(pool_, pool_', i, FALSE)
    <3>1. i \in DOMAIN pool_ /\ pool_[i].first = ret[t]
      BY DEF Slots
    <3>2. pool_' = Marked(pool_, i, FALSE)
      BY <2>2 DEF Marked, Released
    <3> HIDE DEF same
    <3> QED
      BY <2>1, <3>1, <3>2, MarkedSound, Zenon
  <2>3. Types'
    <3>1. pool_' \in Seq(Entries)
      BY <1>3, <2>1, <2>2 DEF SameBut
    <3> QED
      BY <1>1, <1>3, <3>1 DEF MySQLInv, Types
  <2>4. FailsOnlyIfMisused'
    BY <1>1, <1>3 DEF MySQLInv, FailsOnlyIfMisused
  <2>5. ret'[t] = NULL /\ \A s \in Threads \ {t} : ret'[s] = ret[s]
    BY <1>3 DEF MySQLInv, Types
  <2>6. \A s \in Threads : pc'[s] = IF s = t THEN "idle" ELSE pc[s]
    BY <1>3 DEF MySQLInv, Types
  <2>7. ASSUME Sound PROVE Sound'
    <3>0. dtor = 0 /\ dtor' = 0
      BY <1>1, <2>7, UserHasPool DEF InUse, MySQLInv
    <3>1. Slots = DOMAIN pool_ /\ live = {pool_[j].first : j \in DOMAIN pool_}
      BY <1>3, <2>1, <2>7, <3>0, LoopsVisitAll, NothingDeletedYet DEF Sound, MySQLInv, PoolWhole
    <3>2. ret[t] # NULL /\ ret[t] \in live
      BY <1>1, <2>7 DEF Sound, Borrowed
    <3>3. same # {}
      BY <1>3, <2>7, <3>1, <3>2 DEF Sound, PoolWhole
    <3>4. PICK i \in same : pool_' = Released(i)
      BY <1>3, <3>3
    <3>5. i \in DOMAIN pool_ /\ pool_[i].first = ret[t] /\ SameBut(pool_, pool_', i, FALSE)
      BY <2>2, <3>4
    <3> HIDE DEF same
    <3>6. OneCreator'
      BY <1>1, <1>3, <2>6, <2>7 DEF Sound, OneCreator, MySQLInv, Types
    <3>7. Borrowed'
      BY <1>3, <2>5, <2>6, <2>7 DEF Sound, Borrowed
    <3>8. NoPool'
      BY <3>5 DEF NoPool, SameBut
    <3>9. live' = {pool_'[j].first : j \in {k \in DOMAIN pool_' : dtor' <= k}}
      BY <1>3, <3>0, <3>1, <3>5, NothingDeletedYet DEF SameBut
    <3>10. ASSUME NEW j \in DOMAIN pool_
           PROVE  pool_'[j].second <=> \E s \in Threads : ret'[s] = pool_'[j].first
      <4>1. pool_[j].first # NULL /\ pool_'[j].first = pool_[j].first
        BY <2>1, <3>5, SlotTyped DEF SameBut
      <4>2. CASE j = i
        <5>1. pool_'[j].second = FALSE
          BY <3>5, <4>2, Zenon DEF SameBut
        <5>2. \A s \in Threads : ret'[s] # pool_'[j].first
          BY <2>5, <2>7, <3>2, <3>5, <4>1, <4>2 DEF Sound, Borrowed
        <5> QED
          BY <5>1, <5>2
      <4>3. CASE j # i
        <5>1. pool_[j].second <=> \E s \in Threads : ret[s] = pool_[j].first
          BY <1>3, <2>7 DEF Sound, PoolWhole
        <5>2. pool_'[j].second = pool_[j].second
          BY <3>5, <4>3, Zenon DEF SameBut
        <5>3. pool_[j].first # ret[t]
          BY <1>3, <2>7, <3>5, <4>3 DEF Sound, PoolWhole
        <5>4. (\E s \in Threads : ret[s] = pool_[j].first)
                 <=> \E s \in Threads : ret'[s] = pool_[j].first
          BY <2>5, <4>1, <5>3
        <5> QED
          BY <4>1, <5>1, <5>2, <5>4
      <4> QED
        BY <4>2, <4>3
    <3>11. PoolWhole'
      BY <1>1, <1>3, <2>7, <3>5, <3>9, <3>10 DEF Sound, PoolWhole, SameBut
    <3> QED
      BY <3>0, <3>6, <3>7, <3>8, <3>11 DEF Sound, Destroying
  <2> QED
    BY <1>1, <1>3, <2>3, <2>4, <2>7 DEF MySQLInv, Proper
<1> QED
  BY <1>2, <1>3 DEF Release

(* initPool keeps the pool whole if there is none. *)
LEMMA InitPoolStep ==
  ASSUME MySQLInv, outcome = "running", InitPool
  PROVE  MySQLInv'
<1>1. /\ poolSize_' \in Sizes
      /\ causes' = IF pool_ # NULL \/ initmutex # NULL THEN causes \cup {"init"} ELSE causes
      /\ dtor = 0
      /\ UNCHANGED <<pool_, initmutex, live, dtor, pc, ret, rounds, outcome>>
  BY DEF InitPool
<1>2. Types'
  BY <1>1 DEF MySQLInv, Types
<1>3. FailsOnlyIfMisused'
  BY <1>1 DEF MySQLInv, FailsOnlyIfMisused
<1>4. ASSUME Proper' PROVE Sound'
  <2>1. Proper /\ pool_ = NULL
    BY <1>1, <1>4 DEF Proper
  <2>2. Sound
    BY <2>1 DEF MySQLInv
  <2> QED
    BY <1>1, <2>1, <2>2 DEF Sound, OneCreator, Borrowed, NoPool, PoolWhole, Destroying, InUse
<1> QED
  BY <1>2, <1>3, <1>4 DEF MySQLInv

(* destroyPool begins; from now on whoever comes makes it improper. *)
LEMMA DestroyPoolStep ==
  ASSUME MySQLInv, outcome = "running", DestroyPool
  PROVE  MySQLInv'
<1>1. /\ pool_ # NULL /\ dtor = 0 /\ dtor' = 1
      /\ causes' = IF InUse THEN causes \cup {"destroy"} ELSE causes
      /\ UNCHANGED <<pool_, poolSize_, initmutex, live, pc, ret, rounds, outcome>>
  BY DEF DestroyPool
<1>2. Types'
  BY <1>1 DEF MySQLInv, Types
<1>3. FailsOnlyIfMisused'
  BY <1>1 DEF MySQLInv, FailsOnlyIfMisused
<1>4. ASSUME Proper' PROVE Sound'
  <2>1. Sound /\ ~InUse /\ pool_ \in Seq(Entries)
    BY <1>1, <1>4 DEF Proper, MySQLInv, Types
  <2>2. {j \in DOMAIN pool_ : dtor' <= j} = {j \in DOMAIN pool_ : dtor <= j}
    <3>1. DOMAIN pool_ = 1 .. Len(pool_) /\ Len(pool_) \in Nat
      BY <2>1, LenProperties
    <3> QED
      BY <1>1, <3>1
  <2>3. PoolWhole'
    BY <1>1, <2>1, <2>2 DEF Sound, PoolWhole
  <2>4. OneCreator' /\ Borrowed' /\ NoPool' /\ Destroying'
    BY <1>1, <2>1 DEF Sound, OneCreator, Borrowed, NoPool, Destroying, InUse
  <2> QED
    BY <2>3, <2>4 DEF Sound
<1> QED
  BY <1>2, <1>3, <1>4 DEF MySQLInv

LEMMA DeleteConnectionStep ==
  ASSUME MySQLInv, outcome = "running", DeleteConnection
  PROVE  MySQLInv'
<1> USE PoolIsNotNull
<1>1. /\ dtor \in 1 .. poolSize_ /\ dtor' = dtor + 1
      /\ UNCHANGED <<poolSize_, initmutex, calls, causes>>
  BY DEF DeleteConnection
<1>2. poolSize_ \in Nat /\ dtor \in Nat /\ dtor' \in Nat /\ dtor # 0
  BY <1>1, PoolAssumption DEF MySQLInv, Types
<1>3. CASE dtor > Len(pool_)
  <2>1. Undefined
    BY <1>3 DEF DeleteConnection
  <2>2. CASE Proper
    BY <1>1, <1>2, <1>3, <2>2 DEF MySQLInv, Sound, Destroying, PoolWhole
  <2>3. CASE ~Proper
    BY <1>1, <1>2, <2>1, <2>3, UndefinedStep DEF Proper
  <2> QED
    BY <2>2, <2>3
<1>4. CASE ~(dtor > Len(pool_))
  <2>1. live' = live \ {pool_[dtor].first} /\ UNCHANGED <<pool_, pc, ret, rounds, outcome>>
    BY <1>4 DEF DeleteConnection
  <2>2. Types'
    BY <1>1, <1>2, <2>1 DEF MySQLInv, Types
  <2>3. FailsOnlyIfMisused'
    BY <1>1, <2>1 DEF MySQLInv, FailsOnlyIfMisused
  <2>4. ASSUME Sound PROVE Sound'
    <3>1. pool_ # NULL /\ ~InUse /\ pool_ \in Seq(Entries)
      BY <1>2, <2>4 DEF Sound, Destroying, MySQLInv, Types
    <3>2. DOMAIN pool_ = 1 .. poolSize_ /\ dtor \in DOMAIN pool_
      BY <1>1, <2>4, <3>1, LenProperties DEF Sound, PoolWhole
    <3>3. {j \in DOMAIN pool_ : dtor' <= j} = {j \in DOMAIN pool_ : dtor <= j} \ {dtor}
      BY <1>1, <1>2, <3>2
    <3>4. live' = {pool_[i].first : i \in {j \in DOMAIN pool_ : dtor' <= j}}
      <4>1. live = {pool_[i].first : i \in {j \in DOMAIN pool_ : dtor <= j}}
        BY <2>4, <3>1 DEF Sound, PoolWhole
      <4>2. \A i, j \in DOMAIN pool_ : pool_[i].first = pool_[j].first => i = j
        BY <2>4, <3>1 DEF Sound, PoolWhole
      <4> QED
        BY <2>1, <3>2, <3>3, <4>1, <4>2
    <3>5. PoolWhole'
      BY <1>1, <2>1, <2>4, <3>1, <3>4 DEF Sound, PoolWhole
    <3>6. \A t \in Threads : ret[t] = NULL
      BY <2>4, <3>1 DEF Sound, Borrowed, InUse
    <3>7. OneCreator' /\ Borrowed' /\ NoPool' /\ Destroying'
      BY <1>1, <2>1, <2>4, <3>1, <3>6 DEF Sound, OneCreator, Borrowed, NoPool, Destroying, InUse
    <3> QED
      BY <3>5, <3>7 DEF Sound
  <2> QED
    BY <1>1, <2>1, <2>2, <2>3, <2>4 DEF MySQLInv, Proper
<1> QED
  BY <1>3, <1>4

LEMMA DeleteVecStep ==
  ASSUME MySQLInv, outcome = "running", DeleteVec
  PROVE  MySQLInv'
<1>1. /\ dtor = poolSize_ + 1 /\ dtor' = dtor + 1
      /\ UNCHANGED <<pool_, poolSize_, initmutex, live, pc, ret, rounds, outcome, causes>>
  BY DEF DeleteVec
<1>2. poolSize_ \in Nat /\ dtor \in Nat /\ dtor' \in Nat
  BY <1>1, PoolAssumption DEF MySQLInv, Types
<1>3. Types' /\ FailsOnlyIfMisused'
  BY <1>1, <1>2 DEF MySQLInv, Types, FailsOnlyIfMisused
<1>4. ASSUME Sound PROVE Sound'
  <2>1. pool_ # NULL /\ ~InUse /\ pool_ \in Seq(Entries)
    BY <1>1, <1>2, <1>4 DEF Sound, Destroying, MySQLInv, Types
  <2>2. DOMAIN pool_ = 1 .. poolSize_
    BY <1>4, <2>1, LenProperties DEF Sound, PoolWhole
  <2>3. {j \in DOMAIN pool_ : dtor' <= j} = {j \in DOMAIN pool_ : dtor <= j}
    BY <1>1, <1>2, <2>2
  <2>4. PoolWhole'
    BY <1>1, <1>4, <2>1, <2>3 DEF Sound, PoolWhole
  <2> QED
    BY <1>1, <1>4, <2>1, <2>4 DEF Sound, OneCreator, Borrowed, NoPool, Destroying, InUse
<1> QED
  BY <1>1, <1>3, <1>4 DEF MySQLInv, Proper

(* destroyPool leaves nothing behind. *)
LEMMA StoreNullStep ==
  ASSUME MySQLInv, outcome = "running", StoreNull
  PROVE  MySQLInv'
<1>1. /\ dtor = poolSize_ + 2 /\ dtor' = 0 /\ pool_' = NULL
      /\ UNCHANGED <<poolSize_, initmutex, live, pc, ret, rounds, outcome, causes>>
  BY DEF StoreNull, Freed
<1>2. poolSize_ \in Nat
  BY PoolAssumption DEF MySQLInv, Types
<1>3. Types' /\ FailsOnlyIfMisused'
  BY <1>1 DEF MySQLInv, Types, FailsOnlyIfMisused
<1>4. ASSUME Sound PROVE Sound'
  <2>1. pool_ # NULL /\ ~InUse /\ pool_ \in Seq(Entries)
    BY <1>1, <1>2, <1>4 DEF Sound, Destroying, MySQLInv, Types
  <2>2. DOMAIN pool_ = 1 .. poolSize_
    BY <1>4, <2>1, LenProperties DEF Sound, PoolWhole
  <2>3. live = {}
    <3>1. {j \in DOMAIN pool_ : dtor <= j} = {}
      BY <1>1, <1>2, <2>2
    <3> QED
      BY <1>4, <2>1, <3>1 DEF Sound, PoolWhole
  <2> QED
    BY <1>1, <1>4, <2>1, <2>3 DEF Sound, OneCreator, Borrowed, NoPool, PoolWhole, Destroying, InUse
<1> QED
  BY <1>1, <1>3, <1>4 DEF MySQLInv, Proper

----------------------------------------------------------------------------
LEMMA MySQLInvInit == Init => MySQLInv
<1> SUFFICES ASSUME Init PROVE MySQLInv
  OBVIOUS
<1> USE PoolIsNotNull
<1>1. Types
  BY DEF Init, Types
<1>2. FailsOnlyIfMisused
  BY DEF Init, FailsOnlyIfMisused
<1>3. Sound
  BY DEF Init, Sound, OneCreator, Borrowed, NoPool, PoolWhole, Destroying, InUse
<1> QED
  BY <1>1, <1>2, <1>3 DEF MySQLInv

LEMMA MySQLInvStep == MySQLInv /\ [Next]_vars => MySQLInv'
<1> SUFFICES ASSUME MySQLInv, [Next]_vars PROVE MySQLInv'
  OBVIOUS
<1>1. CASE UNCHANGED vars
  BY <1>1 DEF vars, MySQLInv, Types, FailsOnlyIfMisused, Proper, Sound, OneCreator, Borrowed,
              NoPool, PoolWhole, Destroying, InUse
<1>2. ASSUME outcome = "running", NEW t \in Threads, Enter(t) \/ GoesOn(t)
      PROVE  MySQLInv'
  BY <1>2, EnterStep, ConstructStep, ConstructFailsStep, ScanStep, QueryStep, QueryUnsafeStep,
     ReleaseStep DEF GoesOn
<1>3. CASE outcome = "running" /\ (InitPool \/ Destroys)
  BY <1>3, InitPoolStep, DestroyPoolStep, DeleteConnectionStep, DeleteVecStep, StoreNullStep
     DEF Destroys
<1> QED
  BY <1>1, <1>2, <1>3 DEF Next

(* The pool, its creator and its borrowers keep MySQLInv, whatever they do *)
(* and in whatever order.                                                  *)
THEOREM MySQLInvariant == Spec => []MySQLInv
  BY MySQLInvInit, MySQLInvStep, PTL DEF Spec

(* getConnection lends a connection to one thread at a time, a slot is     *)
(* marked exactly while it is lent, and no connection is left over from a  *)
(* pool that was destroyed; for any number of threads, connections and     *)
(* pools, as long as initPool and destroyPool keep away from a pool in use.*)
THEOREM LentToOneAlways == Spec => []LentToOne
<1>1. MySQLInv => LentToOne
  BY DEF MySQLInv, LentToOne, Sound, Borrowed, NoPool, PoolWhole
<1> QED
  BY <1>1, MySQLInvariant, PTL

(* getConnection, executeQuery and releaseConnection never touch a pool, a *)
(* slot or a connection that is not there, unless initPool was called for  *)
(* a pool that there was, a thread used the pool, or came to use it, at    *)
(* any time between the call of destroyPool and the NULL that it stores,   *)
(* or executeQuery was given a query that it cannot take.                  *)
THEOREM UndefinedOnlyIfMisused == Spec => []FailsOnlyIfMisused
<1>1. MySQLInv => FailsOnlyIfMisused
  BY DEF MySQLInv
<1> QED
  BY <1>1, MySQLInvariant, PTL
=============================================================================
