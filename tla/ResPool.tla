-------------------------------- MODULE ResPool --------------------------------
(***************************************************************************)
(* The pool of shared resources of src/Redis/ResPool.h, and grasp() of     *)
(* RedisConnect, which takes a connection from it and has one that has     *)
(* failed taken out.  What the users do with a connection is any change of *)
(* its error code here; RedisConnect.tla says which.                       *)
(*                                                                         *)
(* The pool's mutex guards vec only while a thread looks for a slot and    *)
(* while it stores what it has created: in between func() runs without it, *)
(* and the thread holds an index that may be out of date.  A resource is   *)
(* free when only the pool refers to it.  Writing to vec[idx] beyond the   *)
(* end is undefined: nothing is said of what follows.                      *)
(***************************************************************************)
EXTENDS Naturals, Sequences, FiniteSets

CONSTANTS
  Threads,
  Lengths,     \* values of maxlen
  MaxUses,     \* times a resource is lent again: 100
  MaxCreated,  \* bound: resources created
  MaxClears,   \* bound: calls that may empty the pool
  NULL

ASSUME PoolAssumption == Lengths \subseteq Nat \ {0} /\ MaxUses \in Nat /\ NULL \notin Nat

VARIABLES
  vec,      \* slots: num, data (a resource or NULL), old (the timeout is over)
  maxlen,
  pooling,  \* timeout > 0
  created,  \* the resources are 1 .. created
  failed,   \* those whose error code is set
  pc,       \* where each thread is in get() and grasp()
  idx,      \* its idx, counted from 1; 0 for -1
  held,     \* the resource it refers to, or NULL
  clears,   \* history: calls that may empty the pool
  stray     \* vec[idx] was out of range

config == <<maxlen, pooling, clears>>
vars == <<vec, maxlen, pooling, created, failed, pc, idx, held, clears, stray>>

(* A slot when n resources have been created; Data(data) and update(data); *)
(* and get(), which lends what is there.                                   *)
Datas(n) == [num : 0 .. MaxUses, data : 1 .. n \cup {NULL}, old : BOOLEAN]
NewData(r) == [num |-> 0, data |-> r, old |-> FALSE]
Lent(d) == [num |-> d.num + 1, data |-> d.data, old |-> FALSE]

Init ==
  /\ vec = <<>>
  /\ maxlen \in Lengths /\ pooling = TRUE
  /\ created = 0 /\ failed = {}
  /\ pc = [t \in Threads |-> "idle"]
  /\ idx = [t \in Threads |-> 0]
  /\ held = [t \in Threads |-> NULL]
  /\ clears = 0 /\ stray = FALSE

----------------------------------------------------------------------------
Slots == 1 .. Len(vec)

(* Mutant: use_count() <= 2. *)
FreeBesidesOne ==
  {i \in Slots : vec[i].data = NULL \/ Cardinality({t \in Threads : held[t] = vec[i].data}) <= 1}

(* Slots whose data is NULL, or has a use_count() of 1. *)
Free == {i \in Slots : vec[i].data = NULL \/ \A t \in Threads : held[t] # vec[i].data}

(* Slots with a free resource that is not used up nor too old. *)
Lendable == {i \in Free : vec[i].data # NULL /\ vec[i].num < MaxUses /\ ~vec[i].old}

(* Mutant: the slots themselves are erased, also those that another thread *)
(* is about to fill.                                                       *)
PassedErased(n) ==
  LET kept == Slots \ {i \in Free : i <= n}
  IN [k \in 1 .. Cardinality(kept) |->
        vec[CHOOSE i \in kept : Cardinality({j \in kept : j <= i}) = k]]

(* The free slots that the search passes over lose their resources. *)
Passed(n) == [i \in Slots |-> IF i <= n /\ i \in Free THEN [vec[i] EXCEPT !.data = NULL]
                              ELSE vec[i]]

(* get() calls grasp, first or again. *)
Grasps(t) == pc[t] = "retry" \/ (pc[t] = "idle" /\ pooling)

(* The first of them is lent. *)
GraspLends(t) ==
  /\ Grasps(t)
  /\ \E i \in Lendable :
       /\ \A j \in Lendable : i <= j
       /\ vec' = [Passed(i - 1) EXCEPT ![i] = Lent(vec[i])]
       /\ held' = [held EXCEPT ![t] = vec[i].data]
  /\ pc' = [pc EXCEPT ![t] = "got"]
  /\ UNCHANGED <<config, created, failed, idx, stray>>

(* None can be lent.  idx is the last free slot; a pool that is full and   *)
(* has none gives NULL.                                                    *)
GraspLooks(t) ==
  /\ Grasps(t)
  /\ Lendable = {}
  /\ vec' = Passed(Len(vec))
  /\ \E i \in Free \cup {0} :
       /\ \A j \in Free : j <= i
       /\ idx' = [idx EXCEPT ![t] = i]
  /\ pc' = [pc EXCEPT ![t] = IF Free = {} /\ Len(vec) >= maxlen THEN "retry" ELSE "create"]
  /\ UNCHANGED <<config, created, failed, held, stray>>

(* func() has a resource, or none.  auth() never returns 0, so that one    *)
(* the server has refused is a resource too.  Without pooling func() is    *)
(* all that get() does.                                                    *)
Func(t) ==
  /\ pc[t] = "create" \/ (pc[t] = "idle" /\ ~pooling)
  /\ created < MaxCreated
  /\ created' = created + 1
  /\ failed' \in {failed, failed \cup {created'}}
  /\ held' = [held EXCEPT ![t] = created']
  /\ pc' = [pc EXCEPT ![t] = IF pc[t] = "create" THEN "store" ELSE "got"]
  /\ UNCHANGED <<vec, config, idx, stray>>

FuncFails(t) ==
  /\ pc[t] = "create"
  /\ pc' = [pc EXCEPT ![t] = "retry"]
  /\ idx' = [idx EXCEPT ![t] = 0]
  /\ UNCHANGED <<vec, config, created, failed, held, stray>>

(* Mutant: push_back without looking whether there is room now. *)
PushBackAlways(data) == vec' = Append(vec, data)

PushBack(data) == vec' = IF Len(vec) < maxlen THEN Append(vec, data) ELSE vec

(* push_back, or vec[idx].update, whatever the slot holds by now. *)
Store(t) ==
  /\ pc[t] = "store"
  /\ \/ idx[t] = 0 /\ PushBack(NewData(held[t])) /\ UNCHANGED stray
     \/ idx[t] \in Slots /\ vec' = [vec EXCEPT ![idx[t]] = NewData(held[t])] /\ UNCHANGED stray
     \/ idx[t] > Len(vec) /\ stray' = TRUE /\ UNCHANGED vec
  /\ pc' = [pc EXCEPT ![t] = "got"]
  /\ idx' = [idx EXCEPT ![t] = 0]
  /\ UNCHANGED <<config, created, failed, held>>

(* Three seconds are over: get() returns NULL. *)
GiveUp(t) ==
  /\ pc[t] = "retry"
  /\ pc' = [pc EXCEPT ![t] = "idle"]
  /\ UNCHANGED <<vec, config, created, failed, idx, held, stray>>

(* vec after disable(r). *)
Disabled(r) == [i \in Slots |-> IF vec[i].data = r THEN [vec[i] EXCEPT !.data = NULL] ELSE vec[i]]

(* RedisConnect::grasp returns what get() returned, or disables it and     *)
(* starts again.                                                           *)
Check(t) ==
  /\ pc[t] = "got"
  /\ IF held[t] \in failed
       THEN /\ vec' = Disabled(held[t])
            /\ held' = [held EXCEPT ![t] = NULL]
            /\ pc' = [pc EXCEPT ![t] = "idle"]
       ELSE pc' = [pc EXCEPT ![t] = "using"] /\ UNCHANGED <<vec, held>>
  /\ UNCHANGED <<config, created, failed, idx, stray>>

(* Every command the user runs sets the error code anew. *)
Use(t) ==
  /\ pc[t] = "using"
  /\ failed' \in {failed \cup {held[t]}, failed \ {held[t]}}
  /\ UNCHANGED <<vec, config, created, pc, idx, held, stray>>

(* The user's pointer goes. *)
Release(t) ==
  /\ pc[t] = "using"
  /\ held' = [held EXCEPT ![t] = NULL]
  /\ pc' = [pc EXCEPT ![t] = "idle"]
  /\ UNCHANGED <<vec, config, created, failed, idx, stray>>

----------------------------------------------------------------------------
(* A resource has not been lent for the time of timeout. *)
Age ==
  /\ \E i \in Slots : ~vec[i].old /\ vec' = [vec EXCEPT ![i].old = TRUE]
  /\ UNCHANGED <<config, created, failed, pc, idx, held, stray>>

Clear ==
  /\ clears < MaxClears
  /\ clears' = clears + 1
  /\ vec' = <<>>
  /\ UNCHANGED <<maxlen, pooling, created, failed, pc, idx, held, stray>>

(* Resources lent by the former func are still held.  The two kinds are    *)
(* not told apart: a thread that has entered func before the call stores   *)
(* one of the former kind after it.                                        *)
SetCreator ==
  /\ clears < MaxClears
  /\ clears' = clears + 1
  /\ vec' = <<>>
  /\ UNCHANGED <<maxlen, pooling, created, failed, pc, idx, held, stray>>

SetLength ==
  /\ clears < MaxClears
  /\ clears' = clears + 1
  /\ maxlen' \in Lengths
  /\ vec' = IF Len(vec) > maxlen' THEN <<>> ELSE vec
  /\ UNCHANGED <<pooling, created, failed, pc, idx, held, stray>>

SetTimeout ==
  /\ clears < MaxClears
  /\ clears' = clears + 1
  /\ pooling' \in BOOLEAN
  /\ vec' = IF pooling' THEN vec ELSE <<>>
  /\ UNCHANGED <<maxlen, created, failed, pc, idx, held, stray>>

(* get() and grasp(). *)
Get(t) ==
  \/ GraspLends(t) \/ GraspLooks(t) \/ Func(t) \/ FuncFails(t) \/ Store(t) \/ GiveUp(t)
  \/ Check(t)

Configure == Clear \/ SetCreator \/ SetLength \/ SetTimeout

Next ==
  /\ ~stray
  /\ (\E t \in Threads : Get(t) \/ Use(t) \/ Release(t)) \/ Age \/ Configure

Spec == Init /\ [][Next]_vars

----------------------------------------------------------------------------
(* Types; and whatever threads create at the same time, the pool is never  *)
(* longer than it may be now, and no resource is in two of its slots.      *)
TypeOK ==
  /\ vec \in Seq(Datas(created))
  /\ maxlen \in Lengths /\ pooling \in BOOLEAN
  /\ created \in Nat /\ failed \subseteq 1 .. created
  /\ pc \in [Threads -> {"idle", "create", "store", "got", "using", "retry"}]
  /\ idx \in [Threads -> Nat]
  /\ held \in [Threads -> 1 .. created \cup {NULL}]
  /\ clears \in Nat /\ stray \in BOOLEAN
  /\ Len(vec) <= maxlen
  /\ \A i, j \in Slots : i # j /\ vec[i].data = vec[j].data => vec[i].data = NULL

(* No two threads have the same resource, although threads may be told the *)
(* same free slot and it is free again as soon as its user lets go.        *)
Exclusive ==
  \A s, t \in Threads : s # t /\ held[s] = held[t] => held[s] = NULL

(* The index that a thread has kept while it had no lock is still in range *)
(* unless the pool has been cleared, shortened or switched off meanwhile,  *)
(* which nothing but its users prevents.                                   *)
StrayOnlyIfCleared == stray => clears > 0

=============================================================================
