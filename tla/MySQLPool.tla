------------------------------- MODULE MySQLPool -------------------------------
(***************************************************************************)
(* The pool of database connections of src/MySQL/pool.{h,cpp}: created by  *)
(* the first getConnection(), waited for by polling, destroyed without a   *)
(* lock.  Threads get a connection, query and release it, as the handler   *)
(* of example/mysql_pool_example.cpp does; the main thread calls initPool  *)
(* and destroyPool, there after it has joined the others, here whenever it *)
(* likes.                                                                  *)
(*                                                                         *)
(* A section under a mutex is one step, but the constructor, which         *)
(* connects to the database under initmutex, begins and ends.  destroyPool *)
(* holds no lock: each connection that it closes, the array that it frees  *)
(* and the NULL that it stores are steps of their own.  Connections are    *)
(* addresses, and delete makes an address available again.  After          *)
(* exit(-1), or undefined behaviour, nothing more is said.                 *)
(***************************************************************************)
EXTENDS Naturals, Sequences

CONSTANTS
  Threads,
  Addresses,    \* of Connection objects
  Sizes,        \* values that initPool may be given
  MaxRounds,    \* bound: connections a thread asks for
  MaxInits,     \* bound: calls of initPool
  MaxDestroys,  \* bound: calls of destroyPool
  NULL

ASSUME PoolAssumption ==
  /\ Sizes \subseteq Nat \ {0}
  /\ NULL \notin Addresses \cup Threads \cup Seq([first : Addresses, second : BOOLEAN])

VARIABLES
  pool_,      \* NULL, or vec: the address of each connection, and whether in use
  poolSize_,
  initmutex,  \* the thread that holds it, or NULL
  live,       \* addresses where there is a Connection
  dtor,       \* what destroyPool deletes next: connection dtor, vec, pool_; 0: nothing
  pc, ret,    \* of each thread: where it is, and its connection
  rounds,     \* bound: of each thread
  calls,      \* bound: [init, destroy]
  outcome,    \* "running", "exited" or "undefined"
  causes      \* history: what may lead to undefined behaviour

vars == <<pool_, poolSize_, initmutex, live, dtor, pc, ret, rounds, calls, outcome, causes>>

Init ==
  /\ pool_ = NULL
  /\ poolSize_ = 0
  /\ initmutex = NULL
  /\ live = {}
  /\ dtor = 0
  /\ pc = [t \in Threads |-> "idle"]
  /\ ret = [t \in Threads |-> NULL]
  /\ rounds = [t \in Threads |-> 0]
  /\ calls = [init |-> 0, destroy |-> 0]
  /\ outcome = "running"
  /\ causes = {}

Undefined == outcome' = "undefined" /\ UNCHANGED <<pool_, live, pc, ret, rounds>>

(* delete[] vec has been done, and pool_ is not NULL yet. *)
Freed == dtor = poolSize_ + 2

----------------------------------------------------------------------------
(* Mutant: whether there is a pool is looked up without initmutex. *)
LocksInitAnyway == TRUE

LocksInit == initmutex = NULL

(* getConnection() under initmutex: a pool there, or one to create.  It    *)
(* cannot tell a pool that is being destroyed from another.                *)
Enter(t) ==
  /\ pc[t] = "idle"
  /\ rounds[t] < MaxRounds
  /\ LocksInit
  /\ pc' = [pc EXCEPT ![t] = IF pool_ = NULL THEN "creating" ELSE "scanning"]
  /\ initmutex' = IF pool_ = NULL THEN t ELSE initmutex
  /\ causes' = IF dtor # 0 THEN causes \cup {"destroy"} ELSE causes
  /\ UNCHANGED <<pool_, poolSize_, live, dtor, ret, rounds, calls, outcome>>

(* Mutant: one connection less than poolSize_. *)
LastOfSizeLessOne == poolSize_ - 1

(* The last index of vec = new some[poolSize_]. *)
LastOfSize == poolSize_

(* Pool::Pool() connects poolSize_ times ... *)
Construct(t) ==
  /\ pc[t] = "creating"
  /\ \E new \in [1 .. LastOfSize -> Addresses \ live] :
       /\ \A i, j \in DOMAIN new : new[i] = new[j] => i = j
       /\ pool_' = [i \in DOMAIN new |-> [first |-> new[i], second |-> FALSE]]
       /\ live' = live \cup {new[i] : i \in DOMAIN new}
  /\ initmutex' = NULL
  /\ pc' = [pc EXCEPT ![t] = "scanning"]
  /\ UNCHANGED <<poolSize_, dtor, ret, rounds, calls, outcome, causes>>

(* ... or does not, once, and exits. *)
ConstructFails(t) ==
  /\ pc[t] = "creating"
  /\ outcome' = "exited"
  /\ UNCHANGED <<pool_, poolSize_, initmutex, live, dtor, pc, ret, rounds, calls, causes>>

(* Slots of vec that a loop up to poolSize_ visits, and whether it runs    *)
(* out of vec.                                                             *)
Slots == {i \in DOMAIN pool_ : i <= poolSize_}
RunsOut == poolSize_ > Len(pool_)

(* The slot of S that the loop meets first. *)
First(i, S) == i \in S /\ \A j \in S : i <= j

(* One round of the wait, under mutex, that finds a connection.  A round   *)
(* that finds none sleeps and changes nothing.                             *)
Scan(t) ==
  /\ pc[t] = "scanning"
  /\ IF pool_ = NULL \/ Freed
       THEN Undefined
       ELSE LET free == {i \in Slots : ~pool_[i].second} IN
            IF free # {}
              THEN /\ \E i \in free :
                        /\ First(i, free)
                        /\ pool_' = [pool_ EXCEPT ![i].second = TRUE]
                        /\ ret' = [ret EXCEPT ![t] = pool_[i].first]
                   /\ pc' = [pc EXCEPT ![t] = "using"]
                   /\ UNCHANGED <<live, rounds, outcome>>
              ELSE RunsOut /\ Undefined
  /\ UNCHANGED <<poolSize_, initmutex, dtor, calls, causes>>

(* executeQuery() has rows, or none. *)
Query(t) ==
  /\ pc[t] = "using"
  /\ IF ret[t] \in live
       THEN pc' = [pc EXCEPT ![t] = "queried"] /\ UNCHANGED <<pool_, live, ret, rounds, outcome>>
       ELSE Undefined
  /\ UNCHANGED <<poolSize_, initmutex, dtor, calls, causes>>

(* Statements of 100 characters or more overrun q; one that fails, or that *)
(* is no select, leaves a NULL result set to mysql_fetch_row, and an SQL   *)
(* NULL a null pointer to a string.                                        *)
QueryUnsafe(t) ==
  /\ pc[t] = "using"
  /\ Undefined
  /\ causes' = causes \cup {"query"}
  /\ UNCHANGED <<poolSize_, initmutex, dtor, calls>>

(* Mutant: the flag of the slot is left as it is. *)
ReleasedInUse(i) == pool_

(* vec after the release of its slot i. *)
Released(i) == [pool_ EXCEPT ![i].second = FALSE]

(* releaseConnection(): the slot with that address, if there is one. *)
Release(t) ==
  /\ pc[t] = "queried"
  /\ IF pool_ = NULL \/ Freed
       THEN Undefined
       ELSE LET same == {i \in Slots : pool_[i].first = ret[t]} IN
            IF same = {} /\ RunsOut
              THEN Undefined
              ELSE /\ \/ same = {} /\ UNCHANGED pool_
                      \/ \E i \in same : First(i, same) /\ pool_' = Released(i)
                   /\ ret' = [ret EXCEPT ![t] = NULL]
                   /\ pc' = [pc EXCEPT ![t] = "idle"]
                   /\ rounds' = [rounds EXCEPT ![t] = @ + 1]
                   /\ UNCHANGED <<live, outcome>>
  /\ UNCHANGED <<poolSize_, initmutex, dtor, calls, causes>>

----------------------------------------------------------------------------
(* initPool(), for a pool that there is, or is being made, included. *)
InitPool ==
  /\ calls.init < MaxInits
  /\ dtor = 0
  /\ calls' = [calls EXCEPT !.init = @ + 1]
  /\ \E n \in Sizes \ {poolSize_} : poolSize_' = n
  /\ causes' = IF pool_ # NULL \/ initmutex # NULL THEN causes \cup {"init"} ELSE causes
  /\ UNCHANGED <<pool_, initmutex, live, dtor, pc, ret, rounds, outcome>>

InUse == \E t \in Threads : pc[t] \in {"scanning", "using", "queried"}

(* destroyPool(), without a lock. *)
DestroyPool ==
  /\ calls.destroy < MaxDestroys
  /\ dtor = 0
  /\ pool_ # NULL
  /\ calls' = [calls EXCEPT !.destroy = @ + 1]
  /\ dtor' = 1
  /\ causes' = IF InUse THEN causes \cup {"destroy"} ELSE causes
  /\ UNCHANGED <<pool_, poolSize_, initmutex, live, pc, ret, rounds, outcome>>

(* ~Pool() deletes poolSize_ connections, each over the network, ... *)
DeleteConnection ==
  /\ dtor \in 1 .. poolSize_
  /\ dtor' = dtor + 1
  /\ IF dtor > Len(pool_)
       THEN Undefined
       ELSE live' = live \ {pool_[dtor].first} /\ UNCHANGED <<pool_, pc, ret, rounds, outcome>>
  /\ UNCHANGED <<poolSize_, initmutex, calls, causes>>

(* ... and vec. *)
DeleteVec ==
  /\ dtor = poolSize_ + 1
  /\ dtor' = dtor + 1
  /\ UNCHANGED <<pool_, poolSize_, initmutex, live, pc, ret, rounds, calls, outcome, causes>>

StoreNull ==
  /\ Freed
  /\ pool_' = NULL
  /\ dtor' = 0
  /\ UNCHANGED <<poolSize_, initmutex, live, pc, ret, rounds, calls, outcome, causes>>

Destroys == DestroyPool \/ DeleteConnection \/ DeleteVec \/ StoreNull

GoesOn(t) == Construct(t) \/ ConstructFails(t) \/ Scan(t) \/ Query(t) \/ QueryUnsafe(t) \/ Release(t)

Next ==
  /\ outcome = "running"
  /\ (\E t \in Threads : Enter(t) \/ GoesOn(t)) \/ InitPool \/ Destroys

(***************************************************************************)
(* A thread that can go on does; in particular a waiting thread looks      *)
(* again and again.  Strong fairness is not assumed: each time there may   *)
(* be no connection left, but every thread asks only so many times.        *)
(***************************************************************************)
Spec ==
  /\ Init
  /\ [][Next]_vars
  /\ \A t \in Threads : WF_vars(outcome = "running" /\ GoesOn(t))

----------------------------------------------------------------------------
(* initPool was called when there was no pool, and nobody used the pool    *)
(* between the call of destroyPool and its end.                            *)
Proper == causes \cap {"init", "destroy"} = {}

(***************************************************************************)
(* The pool is created once, whoever comes first; no two threads have the  *)
(* same connection; a slot is marked in use exactly while a thread has its *)
(* connection; and there are no connections besides those that destroyPool *)
(* has still to delete.  So for any new pool at the same addresses.        *)
(***************************************************************************)
LentToOne ==
  Proper /\ outcome = "running" =>
    /\ \A s, t \in Threads : s # t /\ ret[s] = ret[t] => ret[s] = NULL
    /\ pool_ = NULL => live = {}
    /\ pool_ # NULL =>
         /\ live = {pool_[i].first : i \in {j \in DOMAIN pool_ : dtor <= j}}
         /\ \A i \in DOMAIN pool_ : pool_[i].second <=> \E t \in Threads : ret[t] = pool_[i].first

(* No thread uses a pool or a connection that is gone, or a slot that is   *)
(* not there, unless the pool was resized, somebody used it or came to use *)
(* it while destroyPool was running, or the query is one that executeQuery *)
(* cannot take.                                                            *)
FailsOnlyIfMisused == outcome = "undefined" => causes # {}

(* A thread that waits for a connection gets one: the threads before it    *)
(* release theirs, and the scan finds it.  (Before the first initPool the  *)
(* pool is one of no connections.)                                         *)
EveryoneServed ==
  \A t \in Threads : pc[t] = "scanning" ~> pc[t] = "using" \/ outcome # "running" \/ ~Proper \/ poolSize_ = 0

=============================================================================
