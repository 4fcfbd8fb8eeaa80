-------------------------- MODULE RedisConnectProofs --------------------------
(***************************************************************************)
(* Theorems about the pool of Redis connections, for any number of users,  *)
(* connections and calls.  Of ResPool, from the inductive invariant        *)
(* PoolInv:                                                                *)
(*   - PoolTypeCorrect, LentExclusively and StrayNeedsClear.               *)
(* Of RedisConnect:                                                        *)
(*   - RedisUsesPool: what users do with connections is what ResPool       *)
(*     allows, so that its theorems hold here too (RedisExclusive);        *)
(*   - OwnAnswerHolds: nobody is given the late reply of another's command,*)
(*     from the inductive invariant RedisInv.                              *)
(***************************************************************************)
EXTENDS RedisConnect, SequenceTheorems, TLAPS

----------------------------------------------------------------------------
(* The pool. *)

(* No resource is in two slots of v. *)
NoneTwice(v) ==
  \A i, j \in 1 .. Len(v) : i # j /\ v[i].data = v[j].data => v[i].data = NULL

(* A thread that get() has given a resource has one. *)
HeldInUse == \A t \in Threads : pc[t] \in {"store", "got", "using"} => held[t] # NULL

(* What a thread is about to store is not in the pool yet. *)
NotStoredYet ==
  \A t \in Threads : pc[t] = "store" => \A i \in Slots : vec[i].data # held[t]

(* Slots do not go away unless the pool is cleared. *)
IndexInRange == clears = 0 => \A t \in Threads : idx[t] <= Len(vec)

PoolInv ==
  TypeOK /\ Exclusive /\ HeldInUse /\ NotStoredYet /\ IndexInRange /\ StrayOnlyIfCleared

(* A step that leaves the slots, or drops what is in some of them. *)
SlotsKept ==
  /\ Len(vec') = Len(vec)
  /\ \A i \in Slots : vec'[i].data \in {vec[i].data, NULL}

----------------------------------------------------------------------------
LEMMA FunctionIsSeq ==
  ASSUME NEW S, NEW n \in Nat, NEW f \in [1 .. n -> S]
  PROVE  f \in Seq(S) /\ Len(f) = n
<1>1. f \in Seq(S)
  BY SeqDef
<1>2. DOMAIN f = 1 .. n /\ DOMAIN f = 1 .. Len(f) /\ Len(f) \in Nat
  BY <1>1, LenProperties
<1> QED
  BY <1>1, <1>2

(* What grasp()'s search leaves in the vector. *)
LEMMA PassedSlots ==
  ASSUME TypeOK, NEW n
  PROVE  /\ Passed(n) \in Seq(Datas(created))
         /\ Len(Passed(n)) = Len(vec)
         /\ \A i \in Slots : Passed(n)[i].data \in {vec[i].data, NULL}
<1>1. vec \in Seq(Datas(created)) /\ Len(vec) \in Nat
  BY LenProperties DEF TypeOK
<1>2. \A i \in Slots : vec[i] \in Datas(created)
  BY <1>1, ElementOfSeq DEF Slots
<1>3. Passed(n) \in [1 .. Len(vec) -> Datas(created)]
  BY <1>2 DEF Passed, Slots, Datas
<1>4. Passed(n) \in Seq(Datas(created)) /\ Len(Passed(n)) = Len(vec)
  BY <1>1, <1>3, FunctionIsSeq
<1>5. \A i \in Slots : Passed(n)[i].data \in {vec[i].data, NULL}
  BY <1>2 DEF Passed, Datas
<1> QED
  BY <1>4, <1>5

(* What disable() leaves in the vector. *)
LEMMA DisabledSlots ==
  ASSUME TypeOK, NEW r
  PROVE  /\ Disabled(r) \in Seq(Datas(created))
         /\ Len(Disabled(r)) = Len(vec)
         /\ \A i \in Slots : Disabled(r)[i].data \in {vec[i].data, NULL}
<1>1. vec \in Seq(Datas(created)) /\ Len(vec) \in Nat
  BY LenProperties DEF TypeOK
<1>2. \A i \in Slots : vec[i] \in Datas(created)
  BY <1>1, ElementOfSeq DEF Slots
<1>3. Disabled(r) \in [1 .. Len(vec) -> Datas(created)]
  BY <1>2 DEF Disabled, Slots, Datas
<1>4. Disabled(r) \in Seq(Datas(created)) /\ Len(Disabled(r)) = Len(vec)
  BY <1>1, <1>3, FunctionIsSeq
<1>5. \A i \in Slots : Disabled(r)[i].data \in {vec[i].data, NULL}
  BY <1>2 DEF Disabled, Datas
<1> QED
  BY <1>4, <1>5

(* Dropping resources keeps the parts of PoolInv that are about slots. *)
LEMMA KeptSlotsSafe ==
  ASSUME PoolInv, SlotsKept, UNCHANGED <<idx, clears>>,
         \A t \in Threads : pc'[t] = "store" => pc[t] = "store" /\ held'[t] = held[t]
  PROVE  NoneTwice(vec)' /\ NotStoredYet' /\ IndexInRange'
<1>1. Len(vec) \in Nat
  BY LenProperties DEF PoolInv, TypeOK
<1>2. NoneTwice(vec)'
  BY <1>1 DEF PoolInv, TypeOK, SlotsKept, NoneTwice, Slots
<1>3. NotStoredYet'
  BY <1>1 DEF PoolInv, HeldInUse, NotStoredYet, SlotsKept, Slots
<1>4. IndexInRange'
  BY <1>1 DEF PoolInv, IndexInRange, SlotsKept
<1> QED
  BY <1>2, <1>3, <1>4

----------------------------------------------------------------------------
LEMMA PoolInitInv == Init => PoolInv
<1> SUFFICES ASSUME Init PROVE PoolInv
  OBVIOUS
<1>1. vec \in Seq(Datas(created)) /\ Len(vec) = 0
  BY EmptySeq DEF Init
<1>2. Slots = {}
  BY <1>1 DEF Slots
<1>3. maxlen \in Lengths /\ Len(vec) <= maxlen
  BY <1>1, PoolAssumption DEF Init
<1>4. /\ created \in Nat /\ failed \subseteq 1 .. created /\ clears \in Nat
      /\ idx \in [Threads -> Nat] /\ held \in [Threads -> 1 .. created \cup {NULL}]
  BY DEF Init
<1>5. /\ pooling \in BOOLEAN /\ stray \in BOOLEAN
      /\ pc \in [Threads -> {"idle", "create", "store", "got", "using", "retry"}]
  BY DEF Init
<1>6. TypeOK
  BY <1>1, <1>2, <1>3, <1>4, <1>5 DEF TypeOK
<1> QED
  BY <1>1, <1>2, <1>6 DEF Init, PoolInv, Exclusive, NotStoredYet, HeldInUse, IndexInRange, StrayOnlyIfCleared, Slots

USE DEF config

LEMMA LendsInv == ASSUME PoolInv, NEW t \in Threads, GraspLends(t) PROVE PoolInv'
<1>1. TypeOK /\ Exclusive
  BY DEF PoolInv
<1>2. Len(vec) \in Nat /\ \A i \in Slots : vec[i] \in Datas(created)
  BY <1>1, LenProperties, ElementOfSeq DEF TypeOK, Slots
<1>3. PICK i \in Lendable :
        /\ vec' = [Passed(i - 1) EXCEPT ![i] = Lent(vec[i])]
        /\ held' = [held EXCEPT ![t] = vec[i].data]
  BY DEF GraspLends
<1>4. i \in Slots /\ i \in Free /\ vec[i].data # NULL /\ vec[i].num < MaxUses
  BY DEF Lendable, Free
<1>5. /\ Passed(i - 1) \in Seq(Datas(created)) /\ Len(Passed(i - 1)) = Len(vec)
      /\ \A j \in Slots : Passed(i - 1)[j].data \in {vec[j].data, NULL}
  BY <1>1, PassedSlots
<1>6. Lent(vec[i]) \in Datas(created) /\ Lent(vec[i]).data = vec[i].data
  BY <1>2, <1>4, PoolAssumption DEF Datas, Lent
<1>7. vec' \in Seq(Datas(created)) /\ SlotsKept
  BY <1>3, <1>4, <1>5, <1>6, ExceptSeq DEF SlotsKept, Slots
<1>8. \A s \in Threads : held[s] # vec[i].data
  BY <1>4 DEF Free
<1>9. Exclusive'
  BY <1>1, <1>3, <1>8 DEF Exclusive, TypeOK
<1>10. NoneTwice(vec)' /\ NotStoredYet' /\ IndexInRange'
  BY <1>1, <1>3, <1>7, KeptSlotsSafe DEF GraspLends, TypeOK
<1>11. vec[i].data \in 1 .. created \cup {NULL}
  BY <1>2, <1>4 DEF Datas
<1>12. TypeOK'
  BY <1>1, <1>3, <1>7, <1>10, <1>11 DEF GraspLends, TypeOK, NoneTwice, Slots, SlotsKept
<1>13. HeldInUse'
  BY <1>1, <1>3, <1>4 DEF PoolInv, HeldInUse, GraspLends, TypeOK
<1> QED
  BY <1>9, <1>10, <1>12, <1>13 DEF PoolInv, GraspLends, StrayOnlyIfCleared

LEMMA LooksInv == ASSUME PoolInv, NEW t \in Threads, GraspLooks(t) PROVE PoolInv'
<1>1. TypeOK /\ Exclusive
  BY DEF PoolInv
<1>2. Len(vec) \in Nat
  BY <1>1, LenProperties DEF TypeOK
<1>3. vec' \in Seq(Datas(created)) /\ SlotsKept
  BY <1>1, PassedSlots DEF GraspLooks, SlotsKept
<1>4. PICK i \in Free \cup {0} : idx' = [idx EXCEPT ![t] = i]
  BY DEF GraspLooks
<1>5. i \in Nat /\ i <= Len(vec)
  BY <1>2 DEF Free, Slots
<1>6. IndexInRange'
  BY <1>1, <1>3, <1>4, <1>5 DEF PoolInv, IndexInRange, SlotsKept, GraspLooks, TypeOK
<1>7. NoneTwice(vec)'
  BY <1>1, <1>2, <1>3 DEF TypeOK, SlotsKept, NoneTwice, Slots
<1>8. NotStoredYet'
  BY <1>1, <1>2, <1>3
     DEF PoolInv, HeldInUse, NotStoredYet, SlotsKept, Slots, GraspLooks, TypeOK
<1>9. TypeOK'
  BY <1>1, <1>3, <1>4, <1>5, <1>7 DEF GraspLooks, TypeOK, NoneTwice, Slots, SlotsKept
<1>10. HeldInUse'
  BY <1>1 DEF PoolInv, HeldInUse, GraspLooks, TypeOK
<1> QED
  BY <1>6, <1>8, <1>9, <1>10 DEF PoolInv, GraspLooks, Exclusive, StrayOnlyIfCleared

LEMMA FuncInv == ASSUME PoolInv, NEW t \in Threads, Func(t) PROVE PoolInv'
<1>1. TypeOK /\ Exclusive
  BY DEF PoolInv
<1>2. Len(vec) \in Nat /\ \A i \in Slots : vec[i] \in Datas(created)
  BY <1>1, LenProperties, ElementOfSeq DEF TypeOK, Slots
<1>3. created' = created + 1 /\ created \in Nat /\ created' \notin 1 .. created \cup {NULL}
  BY <1>1, PoolAssumption DEF Func, TypeOK
<1>4. vec' \in Seq(Datas(created'))
  <2>1. Datas(created) \subseteq Datas(created')
    BY <1>3 DEF Datas
  <2> QED
    BY <1>1, <2>1, SeqMonotonic DEF Func, TypeOK
<1>5. TypeOK'
  BY <1>1, <1>3, <1>4 DEF Func, TypeOK, Slots
<1>6. Exclusive'
  BY <1>1, <1>3 DEF Func, TypeOK, Exclusive
<1>7. \A i \in Slots : vec[i].data # created'
  BY <1>2, <1>3 DEF Datas
<1>8. NotStoredYet'
  BY <1>1, <1>3, <1>7 DEF PoolInv, NotStoredYet, Func, TypeOK, Slots
<1>9. HeldInUse'
  BY <1>1, <1>3 DEF PoolInv, HeldInUse, Func, TypeOK
<1> QED
  BY <1>5, <1>6, <1>8, <1>9 DEF PoolInv, Func, IndexInRange, StrayOnlyIfCleared

LEMMA StoreInv == ASSUME PoolInv, NEW t \in Threads, Store(t) PROVE PoolInv'
<1>1. TypeOK /\ Exclusive /\ HeldInUse /\ NotStoredYet /\ IndexInRange
  BY DEF PoolInv
<1>2. Len(vec) \in Nat /\ vec \in Seq(Datas(created))
  BY <1>1, LenProperties DEF TypeOK
<1>3. held[t] # NULL /\ \A i \in Slots : vec[i].data # held[t]
  BY <1>1 DEF HeldInUse, NotStoredYet, Store
<1> DEFINE d == NewData(held[t])
<1>4. d \in Datas(created) /\ d.data = held[t]
  BY <1>1, PoolAssumption DEF Datas, NewData, TypeOK
<1>5. \A s \in Threads : pc'[s] = "store" => s # t /\ pc[s] = "store" /\ held[s] # held[t]
  BY <1>1, <1>3 DEF Store, TypeOK, Exclusive
<1>6. HeldInUse'
  BY <1>1 DEF HeldInUse, Store, TypeOK
<1> HIDE DEF d
<1>7. CASE idx[t] = 0 /\ vec' = Append(vec, d) /\ Len(vec) < maxlen /\ UNCHANGED stray
  <2>1. /\ vec' \in Seq(Datas(created)) /\ Len(vec') = Len(vec) + 1
        /\ \A i \in Slots : vec'[i] = vec[i]
        /\ vec'[Len(vec) + 1] = d
    BY <1>2, <1>4, <1>7, AppendProperties DEF Slots
  <2>2. \A i \in Slots' : i \in Slots \/ i = Len(vec) + 1
    BY <1>2, <2>1 DEF Slots
  <2>3. NoneTwice(vec)'
    BY <1>1, <1>3, <1>4, <2>1, <2>2 DEF TypeOK, NoneTwice, Slots
  <2>4. NotStoredYet'
    BY <1>1, <1>4, <1>5, <2>1, <2>2 DEF NotStoredYet, Store
  <2>5. maxlen \in Nat
    BY <1>1, PoolAssumption DEF TypeOK
  <2>6. TypeOK'
    BY <1>1, <1>2, <1>7, <2>1, <2>3, <2>5 DEF Store, TypeOK, NoneTwice, Slots
  <2>7. IndexInRange'
    BY <1>1, <1>2, <2>1 DEF IndexInRange, Store, TypeOK
  <2> QED
    BY <1>6, <1>7, <2>4, <2>6, <2>7 DEF PoolInv, Store, Exclusive, StrayOnlyIfCleared
<1>8. CASE idx[t] \in Slots /\ vec' = [vec EXCEPT ![idx[t]] = d] /\ UNCHANGED stray
  <2>1. /\ vec' \in Seq(Datas(created)) /\ Len(vec') = Len(vec)
        /\ \A i \in Slots : vec'[i] = IF i = idx[t] THEN d ELSE vec[i]
    BY <1>2, <1>4, <1>8, ExceptSeq DEF Slots
  <2>2. NoneTwice(vec)'
    BY <1>1, <1>3, <1>4, <1>8, <2>1 DEF TypeOK, NoneTwice, Slots
  <2>3. NotStoredYet'
    BY <1>1, <1>4, <1>5, <2>1 DEF NotStoredYet, Store, Slots
  <2>4. TypeOK'
    BY <1>1, <1>8, <2>1, <2>2 DEF Store, TypeOK, NoneTwice, Slots
  <2>5. IndexInRange'
    BY <1>1, <1>2, <2>1 DEF IndexInRange, Store, TypeOK
  <2> QED
    BY <1>6, <1>8, <2>3, <2>4, <2>5 DEF PoolInv, Store, Exclusive, StrayOnlyIfCleared
<1>9. CASE UNCHANGED vec /\ (stray' = stray \/ (stray' = TRUE /\ idx[t] > Len(vec)))
  <2>1. TypeOK'
    BY <1>1, <1>9 DEF Store, TypeOK, Slots
  <2>2. NotStoredYet'
    BY <1>1, <1>5, <1>9 DEF NotStoredYet, Store, Slots
  <2>3. IndexInRange'
    BY <1>1, <1>2, <1>9 DEF IndexInRange, Store, TypeOK
  <2>4. StrayOnlyIfCleared'
    <3>1. idx[t] > Len(vec) => clears' > 0
      BY <1>1, <1>2 DEF IndexInRange, TypeOK, Store
    <3>2. stray' = stray => StrayOnlyIfCleared'
      BY DEF PoolInv, StrayOnlyIfCleared, Store
    <3> QED
      BY <1>9, <3>1, <3>2 DEF StrayOnlyIfCleared
  <2> QED
    BY <1>6, <2>1, <2>2, <2>3, <2>4 DEF PoolInv, Store, Exclusive
<1> QED
  BY <1>7, <1>8, <1>9 DEF Store, PushBack, d

LEMMA CheckInv == ASSUME PoolInv, NEW t \in Threads, Check(t) PROVE PoolInv'
<1>1. TypeOK /\ Exclusive
  BY DEF PoolInv
<1>2. vec' \in Seq(Datas(created)) /\ SlotsKept
  BY <1>1, DisabledSlots DEF Check, TypeOK, SlotsKept, Slots
<1>3. \A s \in Threads : held'[s] \in {held[s], NULL}
  BY <1>1 DEF Check, TypeOK
<1>4. NoneTwice(vec)' /\ NotStoredYet' /\ IndexInRange'
  BY <1>1, <1>2, KeptSlotsSafe DEF Check, TypeOK
<1>5. TypeOK'
  BY <1>1, <1>2, <1>4 DEF Check, TypeOK, NoneTwice, Slots, SlotsKept
<1>6. Exclusive'
  BY <1>1, <1>3 DEF Exclusive
<1>7. HeldInUse'
  BY <1>1 DEF PoolInv, HeldInUse, Check, TypeOK
<1> QED
  BY <1>4, <1>5, <1>6, <1>7 DEF PoolInv, Check, StrayOnlyIfCleared

(* The steps that leave vec alone. *)
LEMMA OtherInv ==
  ASSUME PoolInv, NEW t \in Threads, FuncFails(t) \/ GiveUp(t) \/ Use(t) \/ Release(t)
  PROVE  PoolInv'
<1>1. TypeOK /\ Exclusive /\ HeldInUse /\ NotStoredYet /\ IndexInRange /\ Len(vec) \in Nat
  BY LenProperties DEF PoolInv, TypeOK
<1>2. UNCHANGED <<vec, maxlen, pooling, created, clears, stray>>
  BY DEF FuncFails, GiveUp, Use, Release
<1>3. failed' \subseteq 1 .. created
  <2>1. CASE Use(t)
    <3>1. held[t] \in 1 .. created
      BY <1>1, <2>1 DEF Use, TypeOK, HeldInUse
    <3> QED
      BY <1>1, <2>1, <3>1 DEF Use, TypeOK
  <2>2. CASE ~Use(t)
    BY <1>1, <2>2 DEF FuncFails, GiveUp, Release, TypeOK
  <2> QED
    BY <2>1, <2>2
<1>4. /\ pc' \in [Threads -> {"idle", "create", "store", "got", "using", "retry"}]
      /\ held' \in [Threads -> 1 .. created \cup {NULL}]
      /\ idx' \in [Threads -> Nat]
  <2>1. CASE FuncFails(t)
    BY <1>1, <2>1 DEF FuncFails, TypeOK
  <2>2. CASE GiveUp(t) \/ Use(t)
    BY <1>1, <2>2 DEF GiveUp, Use, TypeOK
  <2>3. CASE Release(t)
    BY <1>1, <2>3 DEF Release, TypeOK
  <2> QED
    BY <2>1, <2>2, <2>3
<1>5. TypeOK'
  BY <1>1, <1>2, <1>3, <1>4 DEF TypeOK, Slots
<1>6. /\ \A s \in Threads : held'[s] \in {held[s], NULL} /\ idx'[s] \in {idx[s], 0}
      /\ \A s \in Threads : pc'[s] \in {"store", "got", "using"} =>
           pc[s] = pc'[s] /\ held'[s] = held[s]
  BY <1>1 DEF FuncFails, GiveUp, Use, Release, TypeOK
<1>7. Exclusive' /\ HeldInUse'
  BY <1>1, <1>6 DEF Exclusive, HeldInUse
<1>8. NotStoredYet'
  BY <1>1, <1>2, <1>6 DEF NotStoredYet, Slots
<1>9. IndexInRange'
  BY <1>1, <1>2, <1>6 DEF IndexInRange
<1> QED
  BY <1>2, <1>5, <1>7, <1>8, <1>9 DEF PoolInv, StrayOnlyIfCleared

LEMMA AgeInv == ASSUME PoolInv, Age PROVE PoolInv'
<1>1. TypeOK /\ Len(vec) \in Nat /\ vec \in Seq(Datas(created))
  BY LenProperties DEF PoolInv, TypeOK
<1>2. PICK i \in Slots : vec' = [vec EXCEPT ![i].old = TRUE]
  BY DEF Age
<1>3. vec[i] \in Datas(created)
  BY <1>1, ElementOfSeq DEF Slots
<1>4. [vec[i] EXCEPT !.old = TRUE] \in Datas(created)
  BY <1>3 DEF Datas
<1>5. [vec[i] EXCEPT !.old = TRUE].data = vec[i].data
  BY <1>3 DEF Datas
<1>6. vec' = [vec EXCEPT ![i] = [vec[i] EXCEPT !.old = TRUE]]
  BY <1>2
<1>7. vec' \in Seq(Datas(created)) /\ SlotsKept
  BY <1>1, <1>4, <1>5, <1>6, ExceptSeq DEF SlotsKept, Slots
<1>8. NoneTwice(vec)' /\ NotStoredYet' /\ IndexInRange'
  BY <1>7, KeptSlotsSafe DEF Age
<1>9. TypeOK'
  BY <1>1, <1>7, <1>8 DEF Age, TypeOK, NoneTwice, Slots, SlotsKept
<1> QED
  BY <1>8, <1>9 DEF PoolInv, Age, Exclusive, HeldInUse, StrayOnlyIfCleared

LEMMA ConfigureInv == ASSUME PoolInv, Configure PROVE PoolInv'
<1>1. TypeOK /\ Len(vec) \in Nat
  BY LenProperties DEF PoolInv, TypeOK
<1>2. vec' = <<>> \/ vec' = vec
  BY DEF Configure, Clear, SetCreator, SetLength, SetTimeout
<1>3. vec' \in Seq(Datas(created)) /\ Len(vec') <= Len(vec)
  <2>1. <<>> \in Seq(Datas(created)) /\ Len(<<>>) <= Len(vec)
    BY <1>1, EmptySeq
  <2>2. CASE vec' = <<>>
    BY <1>1, <2>1, <2>2, Zenon
  <2>3. CASE vec' = vec
    BY <1>1, <2>3 DEF TypeOK
  <2> QED
    BY <1>2, <2>2, <2>3
<1>4. clears' > 0 /\ clears' \in Nat
  BY <1>1 DEF Configure, Clear, SetCreator, SetLength, SetTimeout, TypeOK
<1>5. maxlen' \in Lengths /\ Len(vec') <= maxlen'
  <2>1. maxlen' \in Lengths /\ maxlen' \in Nat
    BY <1>1, PoolAssumption DEF Configure, Clear, SetCreator, SetLength, SetTimeout, TypeOK
  <2>2. CASE SetLength
    BY <1>1, <2>1, <2>2, EmptySeq DEF SetLength
  <2>3. CASE Clear \/ SetCreator \/ SetTimeout
    BY <1>1, <1>3, <2>1, <2>3 DEF Clear, SetCreator, SetTimeout, TypeOK
  <2> QED
    BY <2>1, <2>2, <2>3 DEF Configure
<1>6. pooling' \in BOOLEAN
  BY <1>1 DEF Configure, Clear, SetCreator, SetLength, SetTimeout, TypeOK
<1>7. UNCHANGED <<created, failed, pc, idx, held, stray>>
  BY DEF Configure, Clear, SetCreator, SetLength, SetTimeout
<1>8. \A i \in Slots' : i \in Slots /\ vec'[i] = vec[i]
  BY <1>2, EmptySeq DEF Slots
<1>9. TypeOK'
  BY <1>1, <1>3, <1>4, <1>5, <1>6, <1>7, <1>8 DEF TypeOK
<1>10. NotStoredYet'
  BY <1>7, <1>8 DEF PoolInv, NotStoredYet
<1> QED
  BY <1>4, <1>7, <1>9, <1>10
     DEF PoolInv, Exclusive, HeldInUse, IndexInRange, StrayOnlyIfCleared

(* Every step of the pool keeps the invariant. *)
LEMMA PoolStepInv == ASSUME PoolInv, [Next]_vars PROVE PoolInv'
<1>1. CASE Next
  BY <1>1, LendsInv, LooksInv, FuncInv, StoreInv, CheckInv, OtherInv, AgeInv, ConfigureInv
     DEF Next, Get
<1>2. CASE UNCHANGED vars
  BY <1>2 DEF vars, PoolInv, TypeOK, Exclusive, HeldInUse, NotStoredYet, IndexInRange,
     StrayOnlyIfCleared, Slots
<1> QED
  BY <1>1, <1>2

THEOREM PoolInvariant == Spec => []PoolInv
BY PoolInitInv, PoolStepInv, PTL DEF Spec

----------------------------------------------------------------------------
(* The pool is never longer than maxlen, although threads create resources *)
(* at the same time without the lock, and holds no resource twice.         *)
THEOREM PoolTypeCorrect == Spec => []TypeOK
<1>1. PoolInv => TypeOK
  BY DEF PoolInv
<1> QED
  BY <1>1, PoolInvariant, PTL

(* get() never lends a resource that another thread still refers to.       *)
THEOREM LentExclusively == Spec => []Exclusive
<1>1. PoolInv => Exclusive
  BY DEF PoolInv
<1> QED
  BY <1>1, PoolInvariant, PTL

(* vec[idx].update(data) is in range as long as nobody has called clear(), *)
(* setLength(), setTimeout() or setCreator().                              *)
THEOREM StrayNeedsClear == Spec => []StrayOnlyIfCleared
<1>1. PoolInv => StrayOnlyIfCleared
  BY DEF PoolInv
<1> QED
  BY <1>1, PoolInvariant, PTL

----------------------------------------------------------------------------
(* The connections of the pool. *)

LEMMA RedisStepIsPoolStep == ASSUME [RedisNext]_allVars PROVE [Next]_vars
<1>1. CASE UNCHANGED allVars
  BY <1>1 DEF allVars
<1>2. ASSUME NEW t \in Threads, ~stray, User(t) PROVE [Next]_vars
  <2>1. LetGo(t) => Next
    BY <1>2 DEF LetGo, Next
  <2>2. /\ User(t) /\ ~LetGo(t) => Has(t) /\ UNCHANGED poolVars
        /\ User(t) /\ ~LetGo(t) => failed' \in {failed, failed \cup {Watched}, failed \ {Watched}}
    BY DEF User, Execute, Send, Read, Answered, ReadsRest, TimesOut, Guesses, ExecuteFails, Close,
       Reconnect, ReconnectLoses, ReconnectFails, Idle, Ends, SetCode
  <2>3. CASE ~LetGo(t)
    <3>1. CASE failed' = failed
      BY <1>2, <2>2, <2>3, <3>1 DEF poolVars, config, vars
    <3>2. CASE failed' # failed
      BY <1>2, <2>2, <2>3, <3>2 DEF Next, Use, Has, poolVars
    <3> QED
      BY <3>1, <3>2
  <2> QED
    BY <2>1, <2>3
<1>3. CASE /\ ~stray
           /\ \/ \E t \in Threads : Get(t) \/ (Use(t) /\ held[t] # Watched)
              \/ Age
              \/ Configure
  BY <1>3 DEF Next
<1> QED
  BY <1>1, <1>2, <1>3 DEF RedisNext

(* Commands, close() and reconnect() change a connection's error code and  *)
(* nothing else of what the pool relies on.                                *)
THEOREM RedisUsesPool == RedisSpec => Spec
<1>1. RedisInit => Init
  BY DEF RedisInit
<1> QED
  BY <1>1, RedisStepIsPoolStep, PTL DEF RedisSpec, Spec

(* No two users of RedisConnect::Instance() have the same connection. *)
THEOREM RedisExclusive == RedisSpec => []Exclusive
BY RedisUsesPool, LentExclusively, PTL

----------------------------------------------------------------------------
(***************************************************************************)
(* As long as nobody has gone on after a lost reply and parse() has not    *)
(* strayed: between commands a connection with something on its wire has   *)
(* its error code set, so that grasp() will not lend it, and whoever has   *)
(* it knows; during a command the wire holds its reply, or of an array as  *)
(* much as its cnt still asks for.                                         *)
(***************************************************************************)
Rest ==
  [n \in {1, 2} |->
     IF n = 1 THEN {<<"$">>, <<"$-1">>, <<"*1", "$">>}
     ELSE {<<"$", "$">>, <<"$", "$-1">>, <<"$-1", "$">>, <<"+", "+">>,
           <<"$", "*1", "$">>, <<"*1", "$", "*1", "$">>}]

OutOfStepIsKnown ==
  at = "none" /\ wire # <<>> => Watched \in failed /\ \A t \in Threads : Has(t) => ignored

InStep ==
  /\ wire = <<>> \/ at # "none" => ~cut
  /\ at # "none" => ~behind
  /\ at = "reply" => wire \in Replies
  /\ at = "array" => need \in {1, 2} /\ wire \in Rest[need]
  /\ at # "astray"

RedisInv ==
  /\ at \in {"none", "reply", "array", "astray"}
  /\ ~wentOn /\ ~strayed => OutOfStepIsKnown /\ InStep
  /\ OwnAnswer

LEMMA RedisInitInv == RedisInit => RedisInv
BY DEF RedisInit, RedisInv, OutOfStepIsKnown, InStep, OwnAnswer

(* A command that starts in step with an empty wire. *)
LEMMA SendInv == ASSUME RedisInv, NEW t \in Threads, Send(t) PROVE RedisInv'
<1>1. PICK reply \in Replies : wire' = wire \o reply
  BY DEF Send
<1>2. /\ at = "none" /\ at' = "reply" /\ behind' = (wire # <<>>) /\ wentOn' = (wentOn \/ ignored)
      /\ UNCHANGED <<failed, cut, need, ignored, strayed, misread>>
      /\ Has(t)
  BY DEF Send, Idle
<1>3. OwnAnswer'
  BY <1>2 DEF RedisInv, OwnAnswer
<1>4. ASSUME ~wentOn', ~strayed' PROVE OutOfStepIsKnown' /\ InStep'
  <2>1. wire = <<>> /\ ~cut
    BY <1>2, <1>4 DEF RedisInv, OutOfStepIsKnown, InStep
  <2>2. wire' = reply
    BY <1>1, <2>1 DEF Replies
  <2> QED
    BY <1>2, <2>1, <2>2 DEF OutOfStepIsKnown, InStep
<1> QED
  BY <1>2, <1>3, <1>4 DEF RedisInv

LEMMA RestIs ==
  /\ Rest[1] = {<<"$">>, <<"$-1">>, <<"*1", "$">>}
  /\ Rest[2] = {<<"$", "$">>, <<"$", "$-1">>, <<"$-1", "$">>, <<"+", "+">>,
                <<"$", "*1", "$">>, <<"*1", "$", "*1", "$">>}
  BY DEF Rest

(* What is left of a reply, or of an array, once its first token is read. *)
LEMMA ReplyTokens ==
  ASSUME NEW r \in Replies
  PROVE  \/ Head(r) \in {"+", "-", "$", "$-1"} /\ Len(r) = 1
         \/ Head(r) = "*2" /\ Tail(r) \in Rest[2]
<1>1. ASSUME NEW x, r = <<x>> PROVE Head(r) = x /\ Len(r) = 1
  BY <1>1
<1>2. ASSUME NEW x, NEW y, NEW z, r = <<x, y, z>> PROVE Head(r) = x /\ Tail(r) = <<y, z>>
  BY <1>2
<1>3. ASSUME NEW x, NEW y, NEW z, NEW u, r = <<x, y, z, u>>
      PROVE Head(r) = x /\ Tail(r) = <<y, z, u>>
  BY <1>3
<1>4. ASSUME NEW x, NEW y, NEW z, NEW u, NEW v, r = <<x, y, z, u, v>>
      PROVE Head(r) = x /\ Tail(r) = <<y, z, u, v>>
  BY <1>4
<1>5. CASE r \in {<<"+">>, <<"-">>, <<"$">>, <<"$-1">>}
  BY <1>1, <1>5, Zenon
<1>6. CASE r \in {<<"*2", "$", "$">>, <<"*2", "$", "$-1">>, <<"*2", "$-1", "$">>, <<"*2", "+", "+">>}
  <2>1. CASE r \in {<<"*2", "$", "$">>, <<"*2", "$", "$-1">>}
    <3>1. Head(r) = "*2" /\ Tail(r) \in {<<"$", "$">>, <<"$", "$-1">>}
      BY <1>2, <2>1, Zenon
    <3>2. <<"$", "$">> \in Rest[2] /\ <<"$", "$-1">> \in Rest[2]
      BY RestIs
    <3> QED
      BY <3>1, <3>2, Zenon
  <2>2. CASE r \in {<<"*2", "$-1", "$">>, <<"*2", "+", "+">>}
    <3>1. Head(r) = "*2" /\ Tail(r) \in {<<"$-1", "$">>, <<"+", "+">>}
      BY <1>2, <2>2, Zenon
    <3>2. <<"$-1", "$">> \in Rest[2] /\ <<"+", "+">> \in Rest[2]
      BY RestIs
    <3> QED
      BY <3>1, <3>2, Zenon
  <2> QED
    BY <1>6, <2>1, <2>2, Zenon
<1>7. CASE r = <<"*2", "$", "*1", "$">>
  <2>1. Head(r) = "*2" /\ Tail(r) = <<"$", "*1", "$">>
    BY <1>3, <1>7, Zenon
  <2>2. <<"$", "*1", "$">> \in Rest[2]
    BY RestIs
  <2> QED
    BY <2>1, <2>2, Zenon
<1>8. CASE r = <<"*2", "*1", "$", "*1", "$">>
  <2>1. Head(r) = "*2" /\ Tail(r) = <<"*1", "$", "*1", "$">>
    BY <1>4, <1>8, Zenon
  <2>2. <<"*1", "$", "*1", "$">> \in Rest[2]
    BY RestIs
  <2> QED
    BY <2>1, <2>2, Zenon
<1> QED
  BY <1>5, <1>6, <1>7, <1>8, Zenon DEF Replies

LEMMA RestTokens ==
  ASSUME NEW n \in {1, 2}, NEW w \in Rest[n]
  PROVE  /\ n = 1 => \/ Head(w) \in {"$", "$-1"} /\ Len(w) = 1
                     \/ Head(w) = "*1" /\ Tail(w) \in Rest[1]
         /\ n = 2 => \/ Head(w) = "$" /\ Tail(w) \in Rest[1]
                     \/ Head(w) \in {"$-1", "+", "*1"}
<1>1. ASSUME NEW x, w = <<x>> PROVE Head(w) = x /\ Len(w) = 1
  BY <1>1
<1>2. ASSUME NEW x, NEW y, w = <<x, y>> PROVE Head(w) = x /\ Tail(w) = <<y>>
  BY <1>2
<1>3. ASSUME NEW x, NEW y, NEW z, w = <<x, y, z>> PROVE Head(w) = x /\ Tail(w) = <<y, z>>
  BY <1>3
<1>4. ASSUME NEW x, NEW y, NEW z, NEW u, w = <<x, y, z, u>> PROVE Head(w) = x
  BY <1>4
<1>5. CASE n = 1
  <2>1. w \in {<<"$">>, <<"$-1">>, <<"*1", "$">>}
    BY <1>5, RestIs
  <2>2. CASE w \in {<<"$">>, <<"$-1">>}
    <3>1. Head(w) \in {"$", "$-1"} /\ Len(w) = 1
      BY <1>1, <2>2, Zenon
    <3> QED
      BY <1>5, <3>1
  <2>3. CASE w = <<"*1", "$">>
    <3>1. Head(w) = "*1" /\ Tail(w) \in Rest[1]
      BY <1>2, <2>3, RestIs, Zenon
    <3> QED
      BY <1>5, <3>1
  <2> QED
    BY <2>1, <2>2, <2>3, Zenon
<1>6. CASE n = 2
  <2>1. w \in {<<"$", "$">>, <<"$", "$-1">>, <<"$-1", "$">>, <<"+", "+">>,
               <<"$", "*1", "$">>, <<"*1", "$", "*1", "$">>}
    BY <1>6, RestIs
  <2>2. CASE w \in {<<"$", "$">>, <<"$", "$-1">>}
    <3>1. Head(w) = "$" /\ Tail(w) \in Rest[1]
      BY <1>2, <2>2, RestIs, Zenon
    <3> QED
      BY <1>6, <3>1
  <2>3. CASE w = <<"$", "*1", "$">>
    <3>1. Head(w) = "$" /\ Tail(w) \in Rest[1]
      BY <1>3, <2>3, RestIs, Zenon
    <3> QED
      BY <1>6, <3>1
  <2>4. CASE w \in {<<"$-1", "$">>, <<"+", "+">>}
    <3>1. Head(w) \in {"$-1", "+"}
      BY <1>2, <2>4, Zenon
    <3> QED
      BY <1>6, <3>1
  <2>5. CASE w = <<"*1", "$", "*1", "$">>
    <3>1. Head(w) = "*1"
      BY <1>4, <2>5, Zenon
    <3> QED
      BY <1>6, <3>1
  <2> QED
    BY <2>1, <2>2, <2>3, <2>4, <2>5, Zenon
<1> QED
  BY <1>5, <1>6

(* A recv of the one token that there is leaves nothing. *)
LEMMA DropsAll ==
  ASSUME Len(wire) = 1, NEW n \in 1 .. Len(wire), Drops(n)
  PROVE  wire' = <<>> /\ ~cut'
<1>1. n = 1 /\ n + 1 = 2 /\ ~(n < Len(wire))
  OBVIOUS
<1>2. wire' = SubSeq(wire, 2, 1)
  BY <1>1, Zenon DEF Drops
<1>3. ~cut'
  BY <1>1, Zenon DEF Drops
<1>4. SubSeq(wire, 2, 1) = <<>>
  BY SubSeqEmpty
<1> QED
  BY <1>2, <1>3, <1>4

LEMMA CountIs == DOMAIN Count = {"*1", "*2"} /\ Count["*1"] = 1 /\ Count["*2"] = 2
  BY DEF Count

(* parse() stays in step or strays. *)
LEMMA ReadInv == ASSUME RedisInv, NEW t \in Threads, Read(t) PROVE RedisInv'
<1> DEFINE tok == Head(wire)
           p == Parse(tok)
<1>1. /\ at # "none" /\ p.at \in {"array", "astray"} /\ at' = p.at /\ need' = p.need
      /\ wire' = Tail(wire) /\ ~cut
      /\ strayed' = (strayed \/ Strays(tok))
      /\ UNCHANGED <<failed, cut, behind, ignored, wentOn, misread>>
  BY DEF Read
<1>2. OwnAnswer'
  BY <1>1 DEF RedisInv, OwnAnswer
<1>3. ASSUME ~wentOn', ~strayed' PROVE OutOfStepIsKnown' /\ InStep'
  <2>1. InStep /\ ~Strays(tok)
    BY <1>1, <1>3 DEF RedisInv
  <2>2. CASE at = "reply"
    <3>1. \/ tok \in {"+", "-", "$", "$-1"}
          \/ tok = "*2" /\ Tail(wire) \in Rest[2]
      BY <2>1, <2>2, ReplyTokens DEF InStep
    <3>2. tok \in {"+", "-", "$", "$-1"} => p.at \in {"OK", "FAIL"}
      BY <2>2, CountIs DEF Parse
    <3>3. tok = "*2" => p.at = "array" /\ p.need = 2
      BY <2>2, CountIs DEF Parse
    <3> QED
      BY <1>1, <2>1, <3>1, <3>2, <3>3 DEF OutOfStepIsKnown, InStep
  <2>3. CASE at = "array" /\ need = 1
    <3>1. \/ tok \in {"$", "$-1"}
          \/ tok = "*1" /\ Tail(wire) \in Rest[1]
      BY <2>1, <2>3, RestTokens DEF InStep
    <3>2. tok \in {"$", "$-1"} => p.at = "OK"
      BY <2>3, CountIs DEF Parse
    <3>3. tok = "*1" => p.at = "array" /\ p.need = 1
      BY <2>3, CountIs DEF Parse
    <3> QED
      BY <1>1, <2>1, <2>3, <3>1, <3>2, <3>3 DEF OutOfStepIsKnown, InStep
  <2>4. CASE at = "array" /\ need = 2
    <3>1. \/ tok = "$" /\ Tail(wire) \in Rest[1]
          \/ tok \in {"$-1", "+", "*1"}
      BY <2>1, <2>4, RestTokens DEF InStep
    <3>2. tok \in {"$-1", "+"} => p.at = "astray"
      BY <2>4, CountIs DEF Parse
    <3>3. tok = "$"
      BY <2>1, <2>4, <3>1, <3>2, CountIs DEF Strays
    <3>4. p.at = "array" /\ p.need = 1
      BY <2>4, <3>3, CountIs DEF Parse
    <3> QED
      BY <1>1, <2>1, <2>4, <3>1, <3>3, <3>4 DEF OutOfStepIsKnown, InStep
  <2> QED
    BY <1>1, <2>1, <2>2, <2>3, <2>4 DEF RedisInv, InStep
<1> QED
  BY <1>1, <1>2, <1>3 DEF RedisInv

(* An answer leaves nothing on the wire. *)
LEMMA AnsweredInv == ASSUME RedisInv, NEW t \in Threads, Answered(t) PROVE RedisInv'
<1> DEFINE tok == Head(wire)
           p == Parse(tok)
<1>1. /\ at # "none" /\ p.at \in {"OK", "FAIL"} /\ at' = "none" /\ behind' = FALSE
      /\ misread' = (misread \/ (~Lost(p.at) /\ behind))
      /\ \E n \in 1 .. Len(wire) : Drops(n)
      /\ UNCHANGED <<wentOn, strayed>>
  BY DEF Answered, Ends, NoCommand
<1>2. ASSUME ~wentOn, ~strayed PROVE OutOfStepIsKnown' /\ InStep' /\ ~behind
  <2>1. InStep
    BY <1>2 DEF RedisInv
  <2>2. CASE at = "reply"
    <3>1. \/ tok \in {"+", "-", "$", "$-1"} /\ Len(wire) = 1
          \/ tok = "*2"
      BY <2>1, <2>2, ReplyTokens DEF InStep
    <3>2. tok = "*2" => p.at = "array"
      BY <2>2, CountIs DEF Parse
    <3>3. Len(wire) = 1
      BY <1>1, <3>1, <3>2
    <3> QED
      BY <1>1, <2>1, <2>2, <3>3, DropsAll DEF OutOfStepIsKnown, InStep
  <2>3. CASE at = "array" /\ need = 1
    <3>1. \/ tok \in {"$", "$-1"} /\ Len(wire) = 1
          \/ tok = "*1"
      BY <2>1, <2>3, RestTokens DEF InStep
    <3>2. tok = "*1" => p.at = "array"
      BY <2>3, CountIs DEF Parse
    <3>3. Len(wire) = 1
      BY <1>1, <3>1, <3>2
    <3> QED
      BY <1>1, <2>1, <2>3, <3>3, DropsAll DEF OutOfStepIsKnown, InStep
  <2>4. CASE at = "array" /\ need = 2
    <3>1. tok \in {"$", "$-1", "+", "*1"}
      BY <2>1, <2>4, RestTokens DEF InStep
    <3>2. p.at \in {"array", "astray"}
      BY <2>4, <3>1, CountIs DEF Parse
    <3> QED
      BY <1>1, <3>2
  <2> QED
    BY <1>1, <2>1, <2>2, <2>3, <2>4 DEF RedisInv, InStep
<1> QED
  BY <1>1, <1>2 DEF RedisInv, OwnAnswer

(* A command without an answer of its own: it knows, or its stream is gone, *)
(* or parse() has strayed, or it was astray from the beginning.             *)
LEMMA UnansweredInv ==
  ASSUME RedisInv, NEW t \in Threads,
         ReadsRest(t) \/ TimesOut(t) \/ Guesses(t) \/ ExecuteFails(t)
  PROVE  RedisInv'
<1>1. CASE ReadsRest(t)
  <2>1. at # "none" /\ cut /\ at' = "none" /\ UNCHANGED <<wentOn, strayed>>
    BY <1>1 DEF ReadsRest, Ends, NoCommand
  <2>2. wentOn \/ strayed
    BY <2>1 DEF RedisInv, InStep
  <2> QED
    BY <2>1, <2>2 DEF RedisInv, OwnAnswer
<1>2. CASE TimesOut(t)
  <2>1. Lost("TIMEOUT")
    BY DEF Lost
  <2>2. at # "none" /\ at' = "none" /\ wire' = wire
    BY <1>2 DEF TimesOut, Ends, NoCommand
  <2>3. ignored' /\ (misread' => misread) /\ wentOn' = wentOn /\ strayed' = strayed
    BY <1>2, <2>1, Zenon DEF TimesOut, Ends
  <2>4. Watched \in failed'
    BY <1>2 DEF TimesOut, Ends, SetCode
  <2>5. cut' = cut \/ cut' = (wire # <<>>)
    BY <1>2, Zenon DEF TimesOut
  <2>6. ASSUME ~wentOn, ~strayed PROVE OutOfStepIsKnown' /\ InStep'
    <3>1. ~cut
      BY <2>2, <2>6 DEF RedisInv, InStep
    <3>2. wire' = <<>> => ~cut'
      BY <2>2, <2>5, <3>1, Zenon
    <3> QED
      BY <2>2, <2>3, <2>4, <3>2 DEF OutOfStepIsKnown, InStep
  <2> QED
    BY <2>2, <2>3, <2>6 DEF RedisInv, OwnAnswer
<1>3. CASE Guesses(t)
  BY <1>3 DEF Guesses, Ends, NoCommand, RedisInv, OwnAnswer
<1>4. CASE ExecuteFails(t)
  BY <1>4 DEF ExecuteFails, Ends, NoCommand, NewStream, Lost, RedisInv, OutOfStepIsKnown, InStep,
     OwnAnswer
<1> QED
  BY <1>1, <1>2, <1>3, <1>4

(* Close, a new stream, or the loss of auth()'s reply. *)
LEMMA StreamInv ==
  ASSUME RedisInv, NEW t \in Threads,
         Close(t) \/ Reconnect(t) \/ ReconnectLoses(t) \/ ReconnectFails(t)
  PROVE  RedisInv'
<1>1. at = "none" /\ UNCHANGED <<at, need, behind, wentOn, strayed, misread>>
  BY DEF Close, Reconnect, ReconnectLoses, ReconnectFails, Idle, command
<1>2. \/ wire' = <<>> /\ ~cut'
      \/ wire' # <<>> /\ Watched \in failed' /\ ignored'
  BY DEF Close, Reconnect, ReconnectLoses, ReconnectFails, NewStream
<1> QED
  BY <1>1, <1>2 DEF RedisInv, OutOfStepIsKnown, InStep, OwnAnswer

(* The connection goes back to the pool with its error code. *)
LEMMA LetGoInv ==
  ASSUME RedisInv, TypeOK, Exclusive, HeldInUse, NEW t \in Threads, LetGo(t) PROVE RedisInv'
<1>1. /\ UNCHANGED <<wire, cut, at, need, behind, wentOn, strayed, misread, failed>>
      /\ ignored' = (ignored /\ held[t] # Watched)
  BY DEF LetGo, stream, command, Release
<1>2. ASSUME OutOfStepIsKnown PROVE OutOfStepIsKnown'
  <2>1. ASSUME at' = "none", wire' # <<>>, NEW s \in Threads, Has(s)' PROVE ignored'
    <3>1. s # t /\ Has(s)
      BY <2>1 DEF LetGo, Release, Has, TypeOK
    <3>2. held[t] # Watched
      BY <3>1 DEF Has, Exclusive, HeldInUse
    <3>3. ignored
      BY <1>1, <1>2, <2>1, <3>1 DEF OutOfStepIsKnown
    <3> QED
      BY <1>1, <3>2, <3>3
  <2> QED
    BY <1>1, <1>2, <2>1 DEF OutOfStepIsKnown
<1> QED
  BY <1>1, <1>2 DEF RedisInv, InStep, OwnAnswer

(* The pool's own steps: grasp() lends no connection whose code is set. *)
LEMMA PoolKeepsInv ==
  ASSUME RedisInv, TypeOK, UNCHANGED redisVars,
         (\E t \in Threads : Get(t) \/ (Use(t) /\ held[t] # Watched)) \/ Age \/ Configure
  PROVE  RedisInv'
<1>1. Watched \in failed => Watched \in failed'
  BY DEF Get, GraspLends, GraspLooks, Func, FuncFails, Store, GiveUp, Check, Use, Age, Configure,
     Clear, SetCreator, SetLength, SetTimeout
<1>2. ASSUME NEW s \in Threads, Has(s)' PROVE Has(s) \/ Watched \notin failed
  <2>1. ASSUME NEW t \in Threads, Get(t) PROVE Has(s) \/ Watched \notin failed
    BY <1>2, <2>1 DEF Has, Get, GraspLends, GraspLooks, Func, FuncFails, Store, GiveUp, Check,
       TypeOK
  <2>2. CASE (\E t \in Threads : Use(t)) \/ Age \/ Configure
    BY <1>2, <2>2 DEF Has, Use, Age, Configure, Clear, SetCreator, SetLength, SetTimeout
  <2> QED
    BY <2>1, <2>2
<1>3. OutOfStepIsKnown => OutOfStepIsKnown'
  BY <1>1, <1>2 DEF OutOfStepIsKnown, redisVars
<1> QED
  BY <1>3 DEF RedisInv, InStep, OwnAnswer, redisVars

LEMMA RedisStepInv == ASSUME RedisInv, PoolInv, [RedisNext]_allVars PROVE RedisInv'
<1>1. TypeOK /\ Exclusive /\ HeldInUse
  BY DEF PoolInv
<1>2. CASE UNCHANGED allVars
  BY <1>2 DEF allVars, vars, redisVars, RedisInv, OutOfStepIsKnown, InStep, OwnAnswer, Has
<1>3. CASE RedisNext
  BY <1>1, <1>3, SendInv, ReadInv, AnsweredInv, UnansweredInv, StreamInv, LetGoInv, PoolKeepsInv
     DEF RedisNext, User, Execute
<1> QED
  BY <1>2, <1>3

(* grasp()'s look at the error code is enough: a reply that comes after a  *)
(* command's timeout is never taken for the answer to another user's       *)
(* command, as long as no user goes on after his own has lost its reply    *)
(* and parse() meets no array that it takes for something else: one with a *)
(* status or a nil before its end, or with arrays of which one is not the  *)
(* last, or one cut where the bytes of an older reply follow.              *)
THEOREM OwnAnswerHolds == RedisSpec => []OwnAnswer
<1>1. RedisSpec => []PoolInv
  BY RedisUsesPool, PoolInvariant, PTL
<1>2. RedisInv => OwnAnswer
  BY DEF RedisInv
<1> QED
  BY <1>1, <1>2, RedisInitInv, RedisStepInv, PTL DEF RedisSpec

=============================================================================
