--------------------------- MODULE TimerQueueProofs ---------------------------
(***************************************************************************)
(* Theorems about TimerQueue, for any addresses, times, intervals and any  *)
(* number of timers:                                                       *)
(*   - TimersAgree, AssertsHold and AlarmIsSet: the invariants SameTimers, *)
(*     TimerAsserts and TimerfdArmed;                                      *)
(*   - RunOncePerInsertion and NoRestartOnceCancelled: the action          *)
(*     properties RunsOnce and CancelledIsGone.                            *)
(* All of them rest on the inductive invariant TimerInv.                   *)
(***************************************************************************)
EXTENDS TimerQueue, SequenceTheorems, FiniteSetTheorems, TLAPS

Functors == [fun : {"addTimerInLoop", "cancelInLoop"}, timer : Addrs \X (1 .. MaxTimers)]

(* A sequence number is given to one timer only, and no pair of an address *)
(* and a number is about a timer that is still to be made.                 *)
Numbers ==
  /\ \A p \in Addrs : heap[p].seq <= s_numCreated
  /\ \A p, q \in Addrs : Live(p) /\ heap[p].seq = heap[q].seq => p = q
  /\ \A t \in ids \cup adding \cup m_cancelingTimers : t[2] <= s_numCreated
  /\ \A i \in 1 .. Len(pending) : pending[i].timer[2] <= s_numCreated
  /\ \A s \in ran : s <= s_numCreated

(* The timers that wait, as SameTimers has it. *)
Waiting ==
  /\ \A e \in m_timers : Live(e[2]) /\ heap[e[2]].expiration = e[1]
  /\ m_activeTimers = {ActiveTimer(e[2]) : e \in m_timers}

(* The timers that handleRead has taken are alive, and do not wait.        *)
Taken ==
  /\ \A e \in expired : Live(e[2]) /\ heap[e[2]].expiration = e[1] /\ e[1] <= now
  /\ \A e \in expired, f \in m_timers : e[2] # f[2]

Adds(i) == pending[i].fun = "addTimerInLoop"

(* A timer that is on its way to the loop is alive and nowhere else. *)
Queued ==
  \A i \in 1 .. Len(pending) : Adds(i) =>
    /\ heap[pending[i].timer[1]].seq = pending[i].timer[2]
    /\ \A e \in m_timers \cup expired : e[2] # pending[i].timer[1]
    /\ \A j \in 1 .. Len(pending) :
         Adds(j) /\ j # i => pending[j].timer[1] # pending[i].timer[1]

(* A timer that has run, and is still there, is one of those whose round   *)
(* is not over.                                                            *)
RanThisRound ==
  \A p \in Addrs : Live(p) /\ heap[p].seq \in ran => \E e \in expired \ toRun : e[2] = p

(* What a callback has cancelled does not wait. *)
Cancelled == CallingExpiredTimers => m_cancelingTimers \cap m_activeTimers = {}

(* reset() arms the timerfd for no timer of the invalid time 0: one that a *)
(* callback has added has armed it.                                        *)
ArmedForZero ==
  CallingExpiredTimers /\ (\E e \in m_timers : e[1] = 0) => readable \/ armed = 1

TimerInv ==
  /\ TypeOK
  /\ pending \in Seq(Functors)
  /\ TimerAsserts
  /\ failed = "no" =>
       Numbers /\ Waiting /\ Taken /\ Queued /\ RanThisRound /\ Cancelled /\ ArmedForZero
  /\ TimerfdArmed

----------------------------------------------------------------------------

(* The address tells the entries of timers apart, so that there are only   *)
(* finitely many, as many as pairs of m_activeTimers: the sizes that the   *)
(* asserts compare are the same.                                           *)
LEMMA SameSize ==
  ASSUME TypeOK,
         NEW T \in SUBSET (Nat \X Addrs),
         \A e \in T : Live(e[2]) /\ heap[e[2]].expiration = e[1]
  PROVE  /\ IsFiniteSet(T)
         /\ Cardinality(T) = Cardinality({ActiveTimer(e[2]) : e \in T})
<1> DEFINE A == {ActiveTimer(e[2]) : e \in T}
           addr == [e \in T |-> e[2]]
           active == [e \in T |-> ActiveTimer(e[2])]
<1>1. \A e, f \in T : e[2] = f[2] => e = f
  OBVIOUS
<1>2. addr \in Injection(T, Addrs)
  BY <1>1 DEF Injection, IsInjective
<1>3. IsFiniteSet(T)
  BY <1>2, FS_Injection, AddrsAssumption
<1>4. active \in Bijection(T, A)
  <2>1. active \in [T -> A]
    OBVIOUS
  <2>2. \A e, f \in T : active[e] = active[f] => e = f
    BY <1>1 DEF ActiveTimer
  <2>3. \A a \in A : \E e \in T : active[e] = a
    OBVIOUS
  <2> QED
    BY <2>1, <2>2, <2>3 DEF Bijection, Injection, Surjection, IsInjective
<1>5. ExistsBijection(T, A)
  BY <1>4 DEF ExistsBijection
<1> QED
  BY <1>3, <1>5, FS_Bijection

LEMMA PendingType ==
  ASSUME TimerInv
  PROVE  /\ Len(pending) \in Nat
         /\ \A i \in 1 .. Len(pending) :
              /\ pending[i] \in Functors
              /\ pending[i].timer \in Addrs \X (1 .. MaxTimers)
              /\ pending[i].timer[1] \in Addrs
              /\ pending[i].timer[2] \in Nat \ {0}
<1>1. pending \in Seq(Functors)
  BY DEF TimerInv
<1>2. Len(pending) \in Nat
  BY <1>1, LenProperties
<1>3. \A i \in 1 .. Len(pending) : pending[i] \in Functors
  BY <1>1, ElementOfSeq
<1>4. \A f \in Functors :
        /\ f.timer \in Addrs \X (1 .. MaxTimers)
        /\ f.timer[1] \in Addrs
        /\ f.timer[2] \in Nat \ {0}
  BY TimesAssumption DEF Functors
<1> QED
  BY <1>2, <1>3, <1>4

LEMMA InitInv == Init => TimerInv
<1> SUFFICES ASSUME Init PROVE TimerInv
  OBVIOUS
<1> USE AddrsAssumption, TimesAssumption DEF Init
<1>1. TypeOK
  <2>1. stepped \in BOOLEAN /\ readable \in BOOLEAN
    BY Zenon
  <2>2. heap \in [Addrs -> [seq : 0 .. MaxTimers, expiration : Nat, interval : Nat]]
    BY DEF Free
  <2> QED
    BY <2>1, <2>2 DEF TypeOK
<1>2. pending \in Seq(Functors) /\ Len(pending) = 0
  BY EmptySeq
<1>3. Numbers /\ Queued
  BY <1>2 DEF Numbers, Live, Free, Queued
<1>4. Waiting /\ Taken /\ RanThisRound /\ Cancelled /\ ArmedForZero /\ TimerfdArmed
  BY DEF Waiting, Taken, RanThisRound, Cancelled, ArmedForZero, TimerfdArmed
<1> QED
  BY <1>1, <1>2, <1>3, <1>4 DEF TimerInv, TimerAsserts

----------------------------------------------------------------------------
(* Steps that leave the timers and the functors alone. *)

LEMMA TickInv ==
  ASSUME TimerInv, failed = "no", Tick
  PROVE  TimerInv'
<1> USE TimesAssumption
<1>0. /\ readable' <=> readable \/ armed = 1
      /\ stepped' <=> stepped \/ clock = MaxTime
  BY Zenon DEF Tick
<1>1. TypeOK'
  BY DEF TimerInv, TypeOK, Tick, sets, local
<1>2. (Numbers /\ Waiting /\ Taken /\ Queued /\ RanThisRound /\ Cancelled)'
  BY DEF TimerInv, Numbers, Waiting, Taken, Queued, Adds, RanThisRound, Cancelled,
         CallingExpiredTimers, Live, ActiveTimer, Tick, sets, local
<1>3. ArmedForZero'
  BY DEF TimerInv, TypeOK, ArmedForZero, CallingExpiredTimers, Tick, sets, local
<1>4. TimerfdArmed'
  <2> SUFFICES ASSUME m_timers # {}, pc = "idle"
               PROVE  /\ readable' \/ armed' > 0
                      /\ stepped' \/ readable' \/
                           \A e \in m_timers : armed' <= HowMuchTimeFromNow(e[1])'
    BY DEF TimerfdArmed, Tick, sets, local
  <2>1. readable' \/ armed' > 0
    <3>1. readable \/ armed > 0
      BY DEF TimerInv, TimerfdArmed
    <3>2. armed \in Nat /\ armed' = IF armed > 0 THEN armed - 1 ELSE 0
      BY DEF TimerInv, TypeOK, Tick
    <3> QED
      BY <1>0, <3>1, <3>2
  <2>2. ASSUME ~stepped', ~readable', NEW e \in m_timers
        PROVE  armed' <= HowMuchTimeFromNow(e[1])'
    <3>1. e[1] \in Nat /\ clock \in Nat /\ armed \in Nat
      BY DEF TimerInv, TypeOK
    <3>2. ~stepped /\ ~readable /\ clock' = clock + 1 /\ armed # 1
      <4>1. ~stepped /\ ~readable /\ armed # 1 /\ clock # MaxTime
        BY <1>0, <2>2
      <4> QED
        BY <4>1 DEF TimerInv, TypeOK, Tick
    <3>3. armed <= HowMuchTimeFromNow(e[1]) /\ armed > 1
      BY <2>2, <3>1, <3>2 DEF TimerInv, TimerfdArmed
    <3>4. armed' = armed - 1
      BY <3>1, <3>3 DEF Tick
    <3> QED
      BY <3>1, <3>2, <3>3, <3>4 DEF HowMuchTimeFromNow, MinDelay
  <2> QED
    BY <2>1, <2>2
<1> QED
  BY <1>1, <1>2, <1>3, <1>4 DEF TimerInv, TimerAsserts, Tick

LEMMA SetClockInv ==
  ASSUME TimerInv, failed = "no", SetClock
  PROVE  TimerInv'
<1>1. TypeOK'
  BY DEF TimerInv, TypeOK, SetClock, sets, local, fd
<1>2. (Numbers /\ Waiting /\ Taken /\ Queued /\ RanThisRound /\ Cancelled /\ ArmedForZero)'
  BY DEF TimerInv, Numbers, Waiting, Taken, Queued, Adds, RanThisRound, Cancelled, ArmedForZero,
         CallingExpiredTimers, Live, ActiveTimer, SetClock, sets, local, fd
<1>3. TimerfdArmed'
  BY DEF TimerInv, TimerfdArmed, SetClock, sets, local, fd
<1> QED
  BY <1>1, <1>2, <1>3 DEF TimerInv, TimerAsserts, SetClock

LEMMA PollInv ==
  ASSUME TimerInv, failed = "no", Poll
  PROVE  TimerInv'
<1>1. TypeOK'
  BY DEF TimerInv, TypeOK, Poll, wall, sets, local, fd
<1>2. (Numbers /\ Waiting /\ Taken /\ Queued /\ RanThisRound /\ Cancelled /\ ArmedForZero)'
  BY DEF TimerInv, Numbers, Waiting, Taken, Queued, Adds, RanThisRound, Cancelled, ArmedForZero,
         CallingExpiredTimers, Live, ActiveTimer, Poll, sets, local, fd
<1>3. TimerfdArmed'
  BY DEF TimerfdArmed, Poll
<1> QED
  BY <1>1, <1>2, <1>3 DEF TimerInv, TimerAsserts, Poll

LEMMA CallbackReturnsInv ==
  ASSUME TimerInv, failed = "no", CallbackReturns
  PROVE  TimerInv'
<1>1. TypeOK'
  BY DEF TimerInv, TypeOK, CallbackReturns, wall, sets, local, fd
<1>2. (Numbers /\ Waiting /\ Taken /\ Queued /\ RanThisRound /\ Cancelled /\ ArmedForZero)'
  BY DEF TimerInv, Numbers, Waiting, Taken, Queued, Adds, RanThisRound, Cancelled, ArmedForZero,
         CallingExpiredTimers, Live, ActiveTimer, CallbackReturns, sets, local, fd
<1>3. TimerfdArmed'
  BY DEF TimerfdArmed, CallbackReturns
<1> QED
  BY <1>1, <1>2, <1>3 DEF TimerInv, TimerAsserts, CallbackReturns

----------------------------------------------------------------------------
(* Steps that add a timer, or tell the loop to. *)

(* A timer that is inserted leaves the timerfd armed for the earliest. *)
LEMMA AddArms ==
  ASSUME TypeOK, TimerfdArmed, ArmedForZero, failed = "no",
         NEW p \in Addrs, NEW when \in Nat, NEW seq,
         AddTimerInLoop(p, when, seq), UNCHANGED <<clock, stepped, pc>>
  PROVE  /\ TimerfdArmed' /\ ArmedForZero'
         /\ armed' \in Nat /\ readable' \in BOOLEAN
<1>1. m_timers' = m_timers \cup {<<when, p>>}
  BY DEF AddTimerInLoop
<1>2. clock \in Nat /\ armed \in Nat /\ \A e \in m_timers' : e[1] \in Nat
  BY <1>1 DEF TypeOK
<1>3. CASE EarliestChanged(when)
  <2>1. armed' = HowMuchTimeFromNow(when) /\ readable' = FALSE
    BY <1>3 DEF AddTimerInLoop, ResetTimerfd
  <2>2. armed' \in Nat /\ armed' > 0 /\ (when = 0 => armed' = 1)
    BY <1>2, <2>1 DEF HowMuchTimeFromNow, MinDelay
  <2>3. readable' \in BOOLEAN
    BY <2>1, Zenon
  <2>4. \A e \in m_timers' : when <= e[1]
    BY <1>1, <1>2, <1>3 DEF EarliestChanged
  <2>5. \A e \in m_timers' : armed' <= HowMuchTimeFromNow(e[1])'
    BY <1>2, <2>1, <2>4 DEF HowMuchTimeFromNow, MinDelay
  <2>6. (\E e \in m_timers' : e[1] = 0) => armed' = 1
    BY <1>2, <2>2, <2>4
  <2> QED
    BY <2>2, <2>3, <2>5, <2>6 DEF TimerfdArmed, ArmedForZero
<1>4. CASE ~EarliestChanged(when)
  <2>1. armed' = armed /\ readable' = readable
    BY <1>4 DEF AddTimerInLoop, fd
  <2>2. PICK e \in m_timers : e[1] <= when
    BY <1>2, <1>1, <1>4 DEF EarliestChanged
  <2>3. e[1] \in Nat /\ HowMuchTimeFromNow(e[1]) <= HowMuchTimeFromNow(when)
    BY <1>1, <1>2, <2>2 DEF HowMuchTimeFromNow, MinDelay
  <2>4. \A f \in m_timers' : HowMuchTimeFromNow(f[1])' = HowMuchTimeFromNow(f[1])
    BY DEF HowMuchTimeFromNow
  <2>5. HowMuchTimeFromNow(e[1]) \in Nat /\ HowMuchTimeFromNow(when) \in Nat
    BY <1>2, <2>3 DEF HowMuchTimeFromNow, MinDelay
  <2>6. (\A f \in m_timers : armed <= HowMuchTimeFromNow(f[1]))
          => \A f \in m_timers' : armed' <= HowMuchTimeFromNow(f[1])'
    BY <1>1, <1>2, <2>1, <2>3, <2>4, <2>5
  <2>7. TimerfdArmed'
    BY <2>1, <2>2, <2>6 DEF TimerfdArmed
  <2>8. (\E f \in m_timers' : f[1] = 0) => \E f \in m_timers : f[1] = 0
    BY <1>1, <1>2, <2>2, <2>3
  <2> QED
    BY <2>1, <2>7, <2>8 DEF ArmedForZero, CallingExpiredTimers, TypeOK
<1> QED
  BY <1>3, <1>4

(* A timer is made at an address where there was none. *)
LEMMA NewTimerFacts ==
  ASSUME TimerInv, failed = "no", NEW p \in Addrs, NEW when \in Nat, NEW interval \in Nat,
         NewTimer(p, when, interval)
  PROVE  /\ s_numCreated \in Nat /\ s_numCreated' = s_numCreated + 1
         /\ s_numCreated' \in 1 .. MaxTimers
         /\ heap' \in [Addrs -> [seq : 0 .. MaxTimers, expiration : Nat, interval : Nat]]
         /\ heap'[p] = [seq |-> s_numCreated', expiration |-> when, interval |-> interval]
         /\ \A q \in Addrs \ {p} : heap'[q] = heap[q]
         /\ ~Live(p)
         /\ \A e \in m_timers \cup expired : e[2] \in Addrs \ {p}
         /\ \A i \in 1 .. Len(pending) :
              /\ pending[i] \in Functors
              /\ Adds(i) => pending[i].timer[1] # p
<1> USE TimesAssumption
<1>1. /\ s_numCreated \in Nat /\ s_numCreated' = s_numCreated + 1
      /\ s_numCreated' \in 1 .. MaxTimers
  BY DEF TimerInv, TypeOK, NewTimer
<1>2. heap' = [heap EXCEPT ![p] =
                 [seq |-> s_numCreated', expiration |-> when, interval |-> interval]]
  BY <1>1 DEF NewTimer
<1>3. /\ heap' \in [Addrs -> [seq : 0 .. MaxTimers, expiration : Nat, interval : Nat]]
      /\ heap'[p] = [seq |-> s_numCreated', expiration |-> when, interval |-> interval]
      /\ \A q \in Addrs \ {p} : heap'[q] = heap[q]
  BY <1>1, <1>2 DEF TimerInv, TypeOK
<1>4. ~Live(p)
  BY DEF NewTimer, Free, Live
<1>5. \A e \in m_timers \cup expired : e[2] \in Addrs \ {p}
  BY <1>4 DEF TimerInv, TypeOK, Waiting, Taken
<1>6. ASSUME NEW i \in 1 .. Len(pending)
      PROVE  /\ pending[i] \in Functors
             /\ Adds(i) => pending[i].timer[1] # p
  <2>1. pending[i] \in Functors
    BY PendingType
  <2>2. pending[i].timer[2] # 0
    BY PendingType
  <2> QED
    BY <1>4, <2>1, <2>2 DEF TimerInv, Queued, Live
<1> QED
  BY <1>1, <1>3, <1>4, <1>5, <1>6

(* What is said of the other timers is not touched. *)
LEMMA NewTimerKeeps ==
  ASSUME TimerInv, failed = "no", NEW p \in Addrs, NEW when \in Nat, NEW interval \in Nat,
         NewTimer(p, when, interval)
  PROVE  /\ heap'[p].seq = s_numCreated' /\ heap'[p].expiration = when
         /\ \A q \in Addrs : heap'[q].seq <= s_numCreated'
         /\ \A q, r \in Addrs : heap'[q].seq # 0 /\ heap'[q].seq = heap'[r].seq => q = r
         /\ \A e \in m_timers \cup expired : e[2] # p /\ heap'[e[2]] = heap[e[2]]
         /\ \A i \in 1 .. Len(pending) :
              Adds(i) => /\ pending[i].timer[1] # p
                         /\ heap'[pending[i].timer[1]] = heap[pending[i].timer[1]]
         /\ \A i \in 1 .. Len(pending) : pending[i].timer[2] <= s_numCreated'
         /\ \A t \in ids \cup adding \cup m_cancelingTimers :
              t[2] <= s_numCreated' /\ t # <<p, s_numCreated'>>
         /\ \A n \in ran : n <= s_numCreated'
         /\ \A q \in Addrs : heap'[q].seq # 0 /\ heap'[q].seq \in ran
              => Live(q) /\ heap[q].seq \in ran
<1> DEFINE seq == s_numCreated'
<1>1. s_numCreated \in Nat /\ seq = s_numCreated + 1
  BY NewTimerFacts
<1>2. /\ heap'[p].seq = seq /\ heap'[p].expiration = when
      /\ \A q \in Addrs : q # p => heap'[q] = heap[q]
  <2>1. /\ heap'[p] = [seq |-> seq, expiration |-> when, interval |-> interval]
        /\ \A q \in Addrs \ {p} : heap'[q] = heap[q]
    BY NewTimerFacts
  <2> QED
    BY <2>1
<1>3. \A q \in Addrs : heap[q].seq <= s_numCreated /\ heap[q].seq \in Nat
  BY DEF TimerInv, TypeOK, Numbers
<1>4. \A q \in Addrs : heap'[q].seq <= seq
  BY <1>1, <1>2, <1>3
<1>5. ASSUME NEW q \in Addrs, NEW r \in Addrs, heap'[q].seq # 0, heap'[q].seq = heap'[r].seq
      PROVE  q = r
  <2>1. q # p /\ r # p => q = r
    BY <1>2, <1>5 DEF TimerInv, Numbers, Live
  <2>2. \A x \in Addrs : x # p => heap'[x].seq # seq
    BY <1>1, <1>2, <1>3
  <2> QED
    BY <1>2, <1>5, <2>1, <2>2
<1>6. \A e \in m_timers \cup expired : e[2] # p /\ heap'[e[2]] = heap[e[2]]
  <2>1. \A e \in m_timers \cup expired : e[2] \in Addrs \ {p}
    BY NewTimerFacts
  <2> QED
    BY <1>2, <2>1
<1>7. \A i \in 1 .. Len(pending) :
        Adds(i) => /\ pending[i].timer[1] # p
                   /\ heap'[pending[i].timer[1]] = heap[pending[i].timer[1]]
  <2>1. \A i \in 1 .. Len(pending) : Adds(i) => pending[i].timer[1] # p
    BY NewTimerFacts
  <2> QED
    BY <1>2, <2>1, PendingType
<1>8. \A i \in 1 .. Len(pending) : pending[i].timer[2] <= seq
  BY <1>1, PendingType DEF TimerInv, Numbers
<1>9. \A t \in ids \cup adding \cup m_cancelingTimers : t[2] <= seq /\ t # <<p, seq>>
  BY <1>1 DEF TimerInv, TypeOK, Numbers
<1>10. \A n \in ran : n <= seq /\ n # seq
  BY <1>1 DEF TimerInv, TypeOK, Numbers
<1>11. \A q \in Addrs : heap'[q].seq # 0 /\ heap'[q].seq \in ran
         => Live(q) /\ heap[q].seq \in ran
  BY <1>2, <1>10 DEF Live
<1> QED
  BY <1>2, <1>4, <1>5, <1>6, <1>7, <1>8, <1>9, <1>10, <1>11

LEMMA AddTimerInv ==
  ASSUME TimerInv, failed = "no", NEW p \in Addrs, NEW when \in Nat, NEW interval \in Nat,
         AddTimer(p, when, interval)
  PROVE  TimerInv'
<1> DEFINE seq == s_numCreated'
<1>1. NewTimer(p, when, interval) /\ AddTimerInLoop(p, when, seq)
  BY DEF AddTimer
<1>2. seq \in 1 .. MaxTimers
  BY <1>1, NewTimerFacts
<1>3. heap'[p].seq = seq /\ heap'[p].expiration = when
  BY <1>1, NewTimerKeeps
<1>4. \A e \in m_timers \cup expired : e[2] # p /\ heap'[e[2]] = heap[e[2]]
  BY <1>1, NewTimerKeeps
<1>5. /\ UNCHANGED <<clock, stepped, m_cancelingTimers, expired, now, toRun, pc, pending,
                     adding, ran>>
      /\ ids' = ids \cup {<<p, seq>>}
      /\ m_timers' = m_timers \cup {<<when, p>>}
      /\ m_activeTimers' = m_activeTimers \cup {<<p, seq>>}
  BY <1>1 DEF AddTimer, AddTimerInLoop, wall, local
<1>6. failed' = "no"
  <2>1. <<when, p>> \notin m_timers
    BY <1>4
  <2>2. <<p, seq>> \notin m_activeTimers
    BY <1>4 DEF TimerInv, Waiting, ActiveTimer
  <2> QED
    BY <1>1, <2>1, <2>2 DEF AddTimerInLoop
<1>7. TimerfdArmed' /\ ArmedForZero' /\ armed' \in Nat /\ readable' \in BOOLEAN
  BY <1>1, <1>5, AddArms DEF TimerInv
<1>8. TypeOK'
  <2>1. /\ clock' \in 1 .. MaxTime /\ stepped' \in BOOLEAN
        /\ m_cancelingTimers' \subseteq Addrs \X (1 .. MaxTimers)
        /\ expired' \subseteq Nat \X Addrs /\ toRun' \subseteq expired' /\ now' \in Nat
        /\ pc' \in {"idle", "reported"} => expired' = {}
        /\ pc' \in {"idle", "reported", "calling", "callback"}
        /\ adding' \subseteq Addrs \X (1 .. MaxTimers)
        /\ ran' \subseteq 1 .. MaxTimers
    BY <1>5 DEF TimerInv, TypeOK
  <2>2. /\ s_numCreated' \in 0 .. MaxTimers
        /\ ids' \subseteq Addrs \X (1 .. MaxTimers)
        /\ m_timers' \subseteq Nat \X Addrs
        /\ m_activeTimers' \subseteq Addrs \X (1 .. MaxTimers)
    BY <1>2, <1>5 DEF TimerInv, TypeOK
  <2>3. heap' \in [Addrs -> [seq : 0 .. MaxTimers, expiration : Nat, interval : Nat]]
    BY <1>1, NewTimerFacts
  <2> QED
    BY <1>7, <2>1, <2>2, <2>3 DEF TypeOK
<1>9. Numbers'
  <2>1. /\ \A q \in Addrs : heap'[q].seq <= seq
        /\ \A q, r \in Addrs : heap'[q].seq # 0 /\ heap'[q].seq = heap'[r].seq => q = r
    BY <1>1, NewTimerKeeps
  <2>2. \A t \in ids' \cup adding' \cup m_cancelingTimers' : t[2] <= seq
    <3>1. \A t \in ids \cup adding \cup m_cancelingTimers : t[2] <= seq
      BY <1>1, NewTimerKeeps
    <3> QED
      BY <1>2, <1>5, <3>1
  <2>3. /\ \A i \in 1 .. Len(pending') : pending'[i].timer[2] <= seq
        /\ \A n \in ran' : n <= seq
    BY <1>1, <1>5, NewTimerKeeps
  <2> QED
    BY <2>1, <2>2, <2>3 DEF Numbers, Live
<1>10. Waiting'
  <2>1. \A e \in m_timers' : Live(e[2])' /\ heap'[e[2]].expiration = e[1]
    BY <1>2, <1>3, <1>4, <1>5 DEF TimerInv, Waiting, Live
  <2>2. \A e \in m_timers : ActiveTimer(e[2])' = ActiveTimer(e[2])
    BY <1>4 DEF ActiveTimer
  <2>3. ActiveTimer(p)' = <<p, seq>>
    BY <1>3 DEF ActiveTimer
  <2>4. \A x : x \in m_activeTimers' <=> x = <<p, seq>> \/ \E e \in m_timers : x = ActiveTimer(e[2])
    BY <1>5 DEF TimerInv, Waiting
  <2>5. \A x : x \in m_activeTimers' <=> \E e \in m_timers' : x = ActiveTimer(e[2])'
    <3>1. \A e : e \in m_timers' <=> e = <<when, p>> \/ e \in m_timers
      BY <1>5
    <3>2. <<when, p>>[2] = p
      OBVIOUS
    <3>3. ASSUME NEW x, x \in m_activeTimers' PROVE \E e \in m_timers' : x = ActiveTimer(e[2])'
      <4>1. CASE x = <<p, seq>>
        BY <2>3, <3>1, <3>2, <4>1
      <4>2. CASE \E e \in m_timers : x = ActiveTimer(e[2])
        BY <2>2, <3>1, <4>2
      <4> QED
        BY <2>4, <3>3, <4>1, <4>2
    <3>4. ASSUME NEW e \in m_timers' PROVE ActiveTimer(e[2])' \in m_activeTimers'
      <4>1. CASE e = <<when, p>>
        BY <2>3, <2>4, <3>2, <4>1
      <4>2. CASE e \in m_timers
        BY <2>2, <2>4, <4>2
      <4> QED
        BY <3>1, <4>1, <4>2
    <3> QED
      BY <3>3, <3>4
  <2> QED
    BY <2>1, <2>5 DEF Waiting
<1>11. Taken'
  BY <1>4, <1>5 DEF TimerInv, Taken, Live
<1>12. Queued'
  <2>1. \A i \in 1 .. Len(pending) :
          Adds(i) => /\ pending[i].timer[1] # p
                     /\ heap'[pending[i].timer[1]] = heap[pending[i].timer[1]]
    BY <1>1, NewTimerKeeps
  <2> QED
    BY <1>5, <2>1 DEF TimerInv, Queued, Adds
<1>13. RanThisRound'
  <2>1. \A q \in Addrs : heap'[q].seq # 0 /\ heap'[q].seq \in ran
          => Live(q) /\ heap[q].seq \in ran
    BY <1>1, NewTimerKeeps
  <2> QED
    BY <1>5, <2>1 DEF TimerInv, RanThisRound, Live
<1>14. Cancelled'
  <2>1. <<p, seq>> \notin m_cancelingTimers
    BY <1>1, NewTimerKeeps
  <2> QED
    BY <1>5, <2>1 DEF TimerInv, Cancelled, CallingExpiredTimers
<1>15. pending' \in Seq(Functors)
  BY <1>5 DEF TimerInv
<1> QED
  BY <1>6, <1>7, <1>8, <1>9, <1>10, <1>11, <1>12, <1>13, <1>14, <1>15 DEF TimerInv, TimerAsserts

LEMMA AddTimerElsewhereInv ==
  ASSUME TimerInv, failed = "no", NEW p \in Addrs, NEW when \in Nat, NEW interval \in Nat,
         AddTimerElsewhere(p, when, interval)
  PROVE  TimerInv'
<1> DEFINE seq == s_numCreated'
           f == [fun |-> "addTimerInLoop", timer |-> <<p, seq>>]
           n == Len(pending)
<1>1. NewTimer(p, when, interval)
  BY DEF AddTimerElsewhere
<1>2. seq \in 1 .. MaxTimers
  BY <1>1, NewTimerFacts
<1>3. heap'[p].seq = seq
  BY <1>1, NewTimerKeeps
<1>4. \A e \in m_timers \cup expired : e[2] # p /\ heap'[e[2]] = heap[e[2]]
  BY <1>1, NewTimerKeeps
<1>5. /\ UNCHANGED <<clock, stepped, armed, readable, m_timers, m_activeTimers,
                     m_cancelingTimers, expired, now, toRun, pc, ids, ran, failed>>
      /\ pending' = Append(pending, f)
      /\ adding' = adding \cup {<<p, seq>>}
  BY DEF AddTimerElsewhere, wall, fd, sets, local
<1>6. /\ pending' \in Seq(Functors)
      /\ Len(pending') = n + 1 /\ n \in Nat
      /\ \A i \in 1 .. n : pending'[i] = pending[i]
      /\ pending'[n + 1] = f
  <2>1. f \in Functors
    BY <1>2 DEF Functors
  <2> QED
    BY <1>5, <2>1, AppendProperties, PendingType DEF TimerInv
<1>7. TypeOK'
  <2>1. /\ clock' \in 1 .. MaxTime /\ stepped' \in BOOLEAN
        /\ armed' \in Nat /\ readable' \in BOOLEAN
        /\ m_timers' \subseteq Nat \X Addrs
        /\ m_activeTimers' \subseteq Addrs \X (1 .. MaxTimers)
        /\ m_cancelingTimers' \subseteq Addrs \X (1 .. MaxTimers)
        /\ expired' \subseteq Nat \X Addrs /\ toRun' \subseteq expired' /\ now' \in Nat
        /\ pc' \in {"idle", "reported"} => expired' = {}
        /\ pc' \in {"idle", "reported", "calling", "callback"}
        /\ ids' \subseteq Addrs \X (1 .. MaxTimers)
        /\ ran' \subseteq 1 .. MaxTimers
    BY <1>5 DEF TimerInv, TypeOK
  <2>2. /\ s_numCreated' \in 0 .. MaxTimers
        /\ adding' \subseteq Addrs \X (1 .. MaxTimers)
    BY <1>2, <1>5 DEF TimerInv, TypeOK
  <2>3. heap' \in [Addrs -> [seq : 0 .. MaxTimers, expiration : Nat, interval : Nat]]
    BY <1>1, NewTimerFacts
  <2> QED
    BY <2>1, <2>2, <2>3 DEF TypeOK
<1>8. Numbers'
  <2>1. /\ \A q \in Addrs : heap'[q].seq <= seq
        /\ \A q, r \in Addrs : heap'[q].seq # 0 /\ heap'[q].seq = heap'[r].seq => q = r
    BY <1>1, NewTimerKeeps
  <2>2. \A t \in ids' \cup adding' \cup m_cancelingTimers' : t[2] <= seq
    <3>1. \A t \in ids \cup adding \cup m_cancelingTimers : t[2] <= seq
      BY <1>1, NewTimerKeeps
    <3> QED
      BY <1>2, <1>5, <3>1
  <2>3. \A i \in 1 .. Len(pending') : pending'[i].timer[2] <= seq
    <3>1. \A i \in 1 .. n : pending[i].timer[2] <= seq
      BY <1>1, NewTimerKeeps
    <3>2. f.timer[2] <= seq
      BY <1>2
    <3> QED
      BY <1>6, <3>1, <3>2
  <2>4. \A m \in ran' : m <= seq
    BY <1>1, <1>5, NewTimerKeeps
  <2> QED
    BY <2>1, <2>2, <2>3, <2>4 DEF Numbers, Live
<1>9. Waiting'
  BY <1>4, <1>5 DEF TimerInv, Waiting, Live, ActiveTimer
<1>10. Taken'
  BY <1>4, <1>5 DEF TimerInv, Taken, Live
<1>11. Queued'
  <2>1. \A i \in 1 .. n :
          Adds(i) => /\ pending[i].timer[1] # p
                     /\ heap'[pending[i].timer[1]] = heap[pending[i].timer[1]]
    BY <1>1, NewTimerKeeps
  <2>2. f.timer[1] = p /\ f.timer[2] = seq
    OBVIOUS
  <2>3. ASSUME NEW i \in 1 .. n, Adds(i)
        PROVE  /\ heap'[pending[i].timer[1]].seq = pending[i].timer[2]
               /\ \A e \in m_timers \cup expired : e[2] # pending[i].timer[1]
               /\ \A j \in 1 .. n : Adds(j) /\ j # i => pending[j].timer[1] # pending[i].timer[1]
    BY <2>1, <2>3 DEF TimerInv, Queued
  <2>4. \A i \in 1 .. n + 1 : Adds(i)' <=> i = n + 1 \/ (i \in 1 .. n /\ Adds(i))
    BY <1>6 DEF Adds
  <2>5. ASSUME NEW i \in 1 .. n + 1, Adds(i)'
        PROVE  /\ heap'[pending'[i].timer[1]].seq = pending'[i].timer[2]
               /\ \A e \in m_timers \cup expired : e[2] # pending'[i].timer[1]
               /\ \A j \in 1 .. n + 1 :
                    Adds(j)' /\ j # i => pending'[j].timer[1] # pending'[i].timer[1]
    <3>1. CASE i = n + 1
      BY <1>3, <1>4, <1>6, <2>1, <2>2, <2>4, <3>1
    <3>2. CASE i \in 1 .. n /\ Adds(i)
      <4>1. pending'[i] = pending[i]
        BY <1>6, <3>2
      <4>2. /\ heap'[pending[i].timer[1]].seq = pending[i].timer[2]
            /\ \A e \in m_timers \cup expired : e[2] # pending[i].timer[1]
        BY <2>3, <3>2
      <4>3. ASSUME NEW j \in 1 .. n + 1, Adds(j)', j # i
            PROVE  pending'[j].timer[1] # pending[i].timer[1]
        <5>1. CASE j = n + 1
          BY <1>6, <2>1, <2>2, <3>2, <5>1
        <5>2. CASE j \in 1 .. n /\ Adds(j)
          <6>1. pending'[j] = pending[j]
            BY <1>6, <5>2
          <6> QED
            BY <2>3, <3>2, <4>3, <5>2, <6>1
        <5> QED
          BY <2>4, <4>3, <5>1, <5>2
      <4> QED
        BY <4>1, <4>2, <4>3
    <3> QED
      BY <2>4, <2>5, <3>1, <3>2
  <2> QED
    BY <1>5, <1>6, <2>5 DEF Queued
<1>12. RanThisRound'
  <2>1. \A q \in Addrs : heap'[q].seq # 0 /\ heap'[q].seq \in ran
          => Live(q) /\ heap[q].seq \in ran
    BY <1>1, NewTimerKeeps
  <2> QED
    BY <1>5, <2>1 DEF TimerInv, RanThisRound, Live
<1>13. Cancelled' /\ ArmedForZero' /\ TimerfdArmed'
  BY <1>5 DEF TimerInv, Cancelled, ArmedForZero, TimerfdArmed, CallingExpiredTimers,
              HowMuchTimeFromNow
<1> QED
  BY <1>5, <1>6, <1>7, <1>8, <1>9, <1>10, <1>11, <1>12, <1>13 DEF TimerInv, TimerAsserts

LEMMA AddTimerReturnsInv ==
  ASSUME TimerInv, failed = "no", AddTimerReturns
  PROVE  TimerInv'
<1>1. /\ UNCHANGED <<clock, stepped, armed, readable, s_numCreated, heap, m_timers,
                     m_activeTimers, m_cancelingTimers, expired, now, toRun, pc, pending, ran>>
      /\ adding' \subseteq adding /\ ids' \subseteq ids \cup adding
      /\ failed' \in {"no", "lifetime"}
  BY DEF AddTimerReturns, wall, fd, sets, local
<1>2. TypeOK'
  BY <1>1 DEF TimerInv, TypeOK
<1>3. Numbers'
  BY <1>1 DEF TimerInv, Numbers, Live
<1>4. (Waiting /\ Taken /\ Queued /\ RanThisRound /\ Cancelled /\ ArmedForZero)'
  BY <1>1 DEF TimerInv, Waiting, Taken, Queued, Adds, RanThisRound, Cancelled, ArmedForZero,
              CallingExpiredTimers, Live, ActiveTimer
<1>5. TimerfdArmed'
  BY <1>1 DEF TimerInv, TimerfdArmed, HowMuchTimeFromNow
<1> QED
  BY <1>1, <1>2, <1>3, <1>4, <1>5 DEF TimerInv, TimerAsserts

----------------------------------------------------------------------------
(* Steps that cancel a timer, or tell the loop to. *)

(* A timer that waits cannot be cancelled: one of the two sets that were   *)
(* of the same size loses an element.                                      *)
LEMMA CancelWaitingFails ==
  ASSUME TimerInv, failed = "no", NEW t \in m_activeTimers, CancelInLoop(t)
  PROVE  /\ failed' = "cancelInLoop"
         /\ m_timers' \subseteq m_timers
         /\ heap' \in [Addrs -> [seq : 0 .. MaxTimers, expiration : Nat, interval : Nat]]
         /\ UNCHANGED m_cancelingTimers
<1>1. t \in Addrs \X (1 .. MaxTimers)
  BY DEF TimerInv, TypeOK
<1>2. /\ m_timers' = m_timers \ {<<heap[t[1]].expiration, t[1]>>}
      /\ heap' = [heap EXCEPT ![t[1]] = Free]
      /\ failed' = IF Cardinality(m_timers') = Cardinality(m_activeTimers)
                   THEN failed ELSE "cancelInLoop"
      /\ UNCHANGED m_cancelingTimers
  BY DEF CancelInLoop
<1>3. PICK e \in m_timers : t = ActiveTimer(e[2])
  BY DEF TimerInv, Waiting
<1>4. e = <<heap[t[1]].expiration, t[1]>>
  BY <1>3 DEF TimerInv, TypeOK, Waiting, ActiveTimer
<1>5. IsFiniteSet(m_timers) /\ Cardinality(m_timers) = Cardinality(m_activeTimers)
  BY SameSize DEF TimerInv, TypeOK, Waiting
<1>6. Cardinality(m_timers) \in Nat
  BY <1>5, FS_CardinalityType
<1>7. Cardinality(m_timers') = Cardinality(m_timers) - 1
  BY <1>2, <1>3, <1>4, <1>5, FS_RemoveElement
<1>8. heap' \in [Addrs -> [seq : 0 .. MaxTimers, expiration : Nat, interval : Nat]]
  <2>1. Free \in [seq : 0 .. MaxTimers, expiration : Nat, interval : Nat]
    BY TimesAssumption DEF Free
  <2> QED
    BY <1>1, <1>2, <2>1 DEF TimerInv, TypeOK
<1> QED
  BY <1>2, <1>5, <1>6, <1>7, <1>8

LEMMA CancelInv ==
  ASSUME TimerInv, failed = "no", Cancel
  PROVE  TimerInv'
<1>1. PICK t \in ids : CancelInLoop(t) /\ ids' = ids \ {t}
  BY DEF Cancel
<1>2. UNCHANGED <<clock, stepped, armed, readable, s_numCreated, m_activeTimers, expired, now,
                  toRun, pc, pending, adding, ran>>
  BY DEF Cancel, wall, fd, local
<1>3. CASE t \in m_activeTimers
  <2>1. /\ failed' = "cancelInLoop"
        /\ m_timers' \subseteq m_timers
        /\ heap' \in [Addrs -> [seq : 0 .. MaxTimers, expiration : Nat, interval : Nat]]
        /\ UNCHANGED m_cancelingTimers
    BY <1>1, <1>3, CancelWaitingFails
  <2>2. TypeOK'
    BY <1>1, <1>2, <2>1 DEF TimerInv, TypeOK
  <2> QED
    BY <1>2, <2>1, <2>2 DEF TimerInv, TimerAsserts, TimerfdArmed
<1>4. CASE t \notin m_activeTimers
  <2>1. /\ UNCHANGED <<m_timers, heap, failed>>
        /\ m_cancelingTimers' \subseteq m_cancelingTimers \cup {t}
    BY <1>1, <1>4 DEF CancelInLoop
  <2>2. TypeOK'
    BY <1>1, <1>2, <2>1 DEF TimerInv, TypeOK
  <2>3. Numbers'
    BY <1>1, <1>2, <2>1 DEF TimerInv, Numbers, Live
  <2>4. (Waiting /\ Taken /\ Queued /\ RanThisRound /\ ArmedForZero)'
    BY <1>2, <2>1 DEF TimerInv, Waiting, Taken, Queued, Adds, RanThisRound, ArmedForZero,
                      CallingExpiredTimers, Live, ActiveTimer
  <2>5. Cancelled'
    BY <1>2, <1>4, <2>1 DEF TimerInv, Cancelled, CallingExpiredTimers
  <2>6. TimerfdArmed'
    BY <1>2, <2>1 DEF TimerInv, TimerfdArmed, HowMuchTimeFromNow
  <2> QED
    BY <1>2, <2>1, <2>2, <2>3, <2>4, <2>5, <2>6 DEF TimerInv, TimerAsserts
<1> QED
  BY <1>3, <1>4

LEMMA CancelElsewhereInv ==
  ASSUME TimerInv, failed = "no", CancelElsewhere
  PROVE  TimerInv'
<1> DEFINE n == Len(pending)
           f(t) == [fun |-> "cancelInLoop", timer |-> t]
<1>1. PICK t \in ids : pending' = Append(pending, f(t)) /\ ids' = ids \ {t}
  BY DEF CancelElsewhere
<1>2. UNCHANGED <<clock, stepped, armed, readable, s_numCreated, heap, m_timers, m_activeTimers,
                  m_cancelingTimers, expired, now, toRun, pc, adding, ran, failed>>
  BY DEF CancelElsewhere, wall, fd, sets, local
<1>3. /\ pending' \in Seq(Functors)
      /\ Len(pending') = n + 1 /\ n \in Nat
      /\ \A i \in 1 .. n : pending'[i] = pending[i]
      /\ pending'[n + 1] = f(t)
  <2>1. f(t) \in Functors
    BY DEF Functors, TimerInv, TypeOK
  <2> QED
    BY <1>1, <2>1, AppendProperties, PendingType DEF TimerInv
<1>4. TypeOK'
  BY <1>1, <1>2 DEF TimerInv, TypeOK
<1>5. Numbers'
  <2>1. \A i \in 1 .. n + 1 : pending'[i].timer[2] <= s_numCreated
    BY <1>3 DEF TimerInv, Numbers
  <2> QED
    BY <1>1, <1>2, <1>3, <2>1 DEF TimerInv, Numbers, Live
<1>6. Queued'
  <2>1. \A i \in 1 .. n + 1 : Adds(i)' => i \in 1 .. n /\ Adds(i) /\ pending'[i] = pending[i]
    BY <1>3 DEF Adds
  <2> QED
    BY <1>2, <1>3, <2>1 DEF TimerInv, Queued
<1>7. (Waiting /\ Taken /\ RanThisRound /\ Cancelled /\ ArmedForZero)'
  BY <1>2 DEF TimerInv, Waiting, Taken, RanThisRound, Cancelled, ArmedForZero,
              CallingExpiredTimers, Live, ActiveTimer
<1>8. TimerfdArmed'
  BY <1>2 DEF TimerInv, TimerfdArmed, HowMuchTimeFromNow
<1> QED
  BY <1>2, <1>3, <1>4, <1>5, <1>6, <1>7, <1>8 DEF TimerInv, TimerAsserts

----------------------------------------------------------------------------
(* The loop thread. *)

LEMMA RunPendingInv ==
  ASSUME TimerInv, failed = "no", RunPending
  PROVE  TimerInv'
<1> DEFINE t == Head(pending).timer
           n == Len(pending)
<1>1. UNCHANGED <<clock, stepped, s_numCreated, expired, now, toRun, pc, adding, ids, ran>>
  BY DEF RunPending, wall, local
<1>2. /\ pending' \in Seq(Functors)
      /\ n \in Nat /\ n >= 1 /\ Len(pending') = n - 1
      /\ \A i \in 1 .. n - 1 : pending'[i] = pending[i + 1]
      /\ t = pending[1].timer
  <2>1. pending \in Seq(Functors) /\ pending # <<>> /\ pending' = Tail(pending)
    BY DEF RunPending, TimerInv
  <2>2. Head(pending) = pending[1]
    BY <2>1
  <2>3. n \in Nat \ {0}
    BY <2>1, EmptySeq
  <2> QED
    BY <2>1, <2>2, <2>3, HeadTailProperties
<1>3. t \in Addrs \X (1 .. MaxTimers) /\ t[1] \in Addrs /\ t[2] \in Nat \ {0}
  BY <1>2, PendingType
<1>4. \A i \in 1 .. Len(pending') : /\ i + 1 \in 1 .. n
                                    /\ pending'[i] = pending[i + 1]
                                    /\ Adds(i)' <=> Adds(i + 1)
  BY <1>2 DEF Adds
<1>5. \A i \in 1 .. Len(pending') : pending'[i].timer[2] <= s_numCreated
  BY <1>4 DEF TimerInv, Numbers
<1>6. pc = "idle" /\ expired = {} /\ ~CallingExpiredTimers
  BY DEF RunPending, TimerInv, TypeOK, CallingExpiredTimers
<1>7. CASE Head(pending).fun = "addTimerInLoop"
  <2> DEFINE when == heap[t[1]].expiration
  <2>1. AddTimerInLoop(t[1], when, t[2]) /\ UNCHANGED <<heap, m_cancelingTimers>>
    BY <1>7 DEF RunPending
  <2>2. when \in Nat
    BY <1>3 DEF TimerInv, TypeOK
  <2>3. /\ heap[t[1]].seq = t[2]
        /\ \A e \in m_timers : e[2] # t[1]
        /\ \A j \in 1 .. n : Adds(j) /\ j # 1 => pending[j].timer[1] # t[1]
    <3>1. Adds(1)
      BY <1>2, <1>7 DEF Adds, RunPending, TimerInv
    <3> QED
      BY <1>2, <3>1 DEF TimerInv, Queued
  <2>4. /\ m_timers' = m_timers \cup {<<when, t[1]>>}
        /\ m_activeTimers' = m_activeTimers \cup {t}
    BY <1>3, <2>1 DEF AddTimerInLoop
  <2>5. failed' = "no"
    <3>1. <<when, t[1]>> \notin m_timers
      BY <2>3
    <3>2. <<t[1], t[2]>> \notin m_activeTimers
      BY <2>3 DEF TimerInv, Waiting, ActiveTimer
    <3> QED
      BY <2>1, <3>1, <3>2 DEF AddTimerInLoop
  <2>6. TimerfdArmed' /\ ArmedForZero' /\ armed' \in Nat /\ readable' \in BOOLEAN
    BY <1>1, <1>3, <2>1, <2>2, AddArms DEF TimerInv
  <2>7. TypeOK'
    <3>1. /\ m_timers' \subseteq Nat \X Addrs
          /\ m_activeTimers' \subseteq Addrs \X (1 .. MaxTimers)
      BY <1>3, <2>2, <2>4 DEF TimerInv, TypeOK
    <3> QED
      BY <1>1, <2>1, <2>6, <3>1 DEF TimerInv, TypeOK
  <2>8. Numbers'
    BY <1>1, <1>5, <2>1 DEF TimerInv, Numbers, Live
  <2>9. Waiting'
    <3>1. Live(t[1])
      BY <1>3, <2>3 DEF Live
    <3>2. \A e \in m_timers' : Live(e[2])' /\ heap'[e[2]].expiration = e[1]
      BY <2>1, <2>4, <3>1 DEF TimerInv, Waiting, Live
    <3>3. \A p : ActiveTimer(p)' = ActiveTimer(p)
      BY <2>1 DEF ActiveTimer
    <3>4. ActiveTimer(t[1]) = t
      BY <1>3, <2>3 DEF ActiveTimer
    <3>5. \A x : x \in m_activeTimers' <=> x = t \/ \E e \in m_timers : x = ActiveTimer(e[2])
      BY <2>4 DEF TimerInv, Waiting
    <3>6. \A x : x \in m_activeTimers' <=> \E e \in m_timers' : x = ActiveTimer(e[2])'
      <4>1. \A e : e \in m_timers' <=> e = <<when, t[1]>> \/ e \in m_timers
        BY <2>4
      <4>2. <<when, t[1]>>[2] = t[1]
        OBVIOUS
      <4> QED
        BY <3>3, <3>4, <3>5, <4>1, <4>2
    <3> QED
      BY <3>2, <3>6 DEF Waiting
  <2>10. Taken' /\ Cancelled' /\ RanThisRound'
    BY <1>1, <1>6, <2>1 DEF TimerInv, Taken, Cancelled, CallingExpiredTimers, RanThisRound, Live
  <2>11. Queued'
    <3>1. ASSUME NEW i \in 1 .. Len(pending'), Adds(i)'
          PROVE  /\ heap'[pending'[i].timer[1]].seq = pending'[i].timer[2]
                 /\ \A e \in m_timers' \cup expired' : e[2] # pending'[i].timer[1]
                 /\ \A j \in 1 .. Len(pending') :
                      Adds(j)' /\ j # i => pending'[j].timer[1] # pending'[i].timer[1]
      <4>1. /\ i + 1 \in 1 .. n /\ Adds(i + 1) /\ i + 1 # 1
            /\ pending'[i] = pending[i + 1]
        BY <1>4, <3>1
      <4>2. /\ heap[pending[i + 1].timer[1]].seq = pending[i + 1].timer[2]
            /\ \A e \in m_timers \cup expired : e[2] # pending[i + 1].timer[1]
            /\ \A j \in 1 .. n :
                 Adds(j) /\ j # i + 1 => pending[j].timer[1] # pending[i + 1].timer[1]
        BY <4>1 DEF TimerInv, Queued
      <4>3. pending[i + 1].timer[1] # t[1]
        BY <2>3, <4>1
      <4>4. \A e \in m_timers' \cup expired' : e[2] # pending[i + 1].timer[1]
        BY <1>1, <2>4, <4>2, <4>3
      <4>5. \A j \in 1 .. Len(pending') : j # i => j + 1 # i + 1
        OBVIOUS
      <4> QED
        BY <1>4, <2>1, <4>1, <4>2, <4>4, <4>5
    <3> QED
      BY <3>1 DEF Queued
  <2> QED
    BY <1>2, <2>5, <2>6, <2>7, <2>8, <2>9, <2>10, <2>11 DEF TimerInv, TimerAsserts
<1>8. CASE Head(pending).fun = "cancelInLoop"
  <2>1. CancelInLoop(t) /\ UNCHANGED <<armed, readable, m_activeTimers>>
    BY <1>8 DEF RunPending, fd
  <2>2. CASE t \in m_activeTimers
    <3>1. /\ failed' = "cancelInLoop"
          /\ m_timers' \subseteq m_timers
          /\ heap' \in [Addrs -> [seq : 0 .. MaxTimers, expiration : Nat, interval : Nat]]
          /\ UNCHANGED m_cancelingTimers
      BY <2>1, <2>2, CancelWaitingFails
    <3>2. TypeOK'
      BY <1>1, <2>1, <3>1 DEF TimerInv, TypeOK
    <3> QED
      BY <1>2, <3>1, <3>2 DEF TimerInv, TimerAsserts, TimerfdArmed
  <2>3. CASE t \notin m_activeTimers
    <3>1. UNCHANGED <<m_timers, heap, failed, m_cancelingTimers>>
      BY <1>6, <2>1, <2>3 DEF CancelInLoop
    <3>2. TypeOK'
      BY <1>1, <2>1, <3>1 DEF TimerInv, TypeOK
    <3>3. Numbers'
      BY <1>1, <1>5, <3>1 DEF TimerInv, Numbers, Live
    <3>4. (Waiting /\ Taken /\ RanThisRound /\ Cancelled /\ ArmedForZero)'
      BY <1>1, <2>1, <3>1 DEF TimerInv, Waiting, Taken, RanThisRound, Cancelled, ArmedForZero,
                              CallingExpiredTimers, Live, ActiveTimer
    <3>5. Queued'
      <4>1. ASSUME NEW i \in 1 .. Len(pending'), Adds(i)'
            PROVE  /\ heap'[pending'[i].timer[1]].seq = pending'[i].timer[2]
                   /\ \A e \in m_timers' \cup expired' : e[2] # pending'[i].timer[1]
                   /\ \A j \in 1 .. Len(pending') :
                        Adds(j)' /\ j # i => pending'[j].timer[1] # pending'[i].timer[1]
        <5>1. i + 1 \in 1 .. n /\ Adds(i + 1) /\ pending'[i] = pending[i + 1]
          BY <1>4, <4>1
        <5>2. /\ heap[pending[i + 1].timer[1]].seq = pending[i + 1].timer[2]
              /\ \A e \in m_timers \cup expired : e[2] # pending[i + 1].timer[1]
              /\ \A j \in 1 .. n :
                   Adds(j) /\ j # i + 1 => pending[j].timer[1] # pending[i + 1].timer[1]
          BY <5>1 DEF TimerInv, Queued
        <5>3. \A j \in 1 .. Len(pending') : j # i => j + 1 # i + 1
          OBVIOUS
        <5> QED
          BY <1>1, <1>4, <3>1, <5>1, <5>2, <5>3
      <4> QED
        BY <4>1 DEF Queued
    <3>6. TimerfdArmed'
      BY <1>1, <2>1, <3>1 DEF TimerInv, TimerfdArmed, HowMuchTimeFromNow
    <3> QED
      BY <1>2, <3>1, <3>2, <3>3, <3>4, <3>5, <3>6 DEF TimerInv, TimerAsserts
  <2> QED
    BY <2>2, <2>3
<1> QED
  BY <1>7, <1>8 DEF RunPending

LEMMA HandleReadInv ==
  ASSUME TimerInv, failed = "no", HandleRead
  PROVE  TimerInv'
<1> DEFINE due == {e \in m_timers : HasExpired(e)}
           actives == {ActiveTimer(e[2]) : e \in due}
<1>1. /\ UNCHANGED <<clock, stepped, armed, s_numCreated, heap, pending, adding, ids, ran>>
      /\ now' = clock /\ expired' = due /\ toRun' = due
      /\ m_timers' = m_timers \ due
      /\ m_activeTimers' = m_activeTimers \ actives
      /\ m_cancelingTimers' = {}
      /\ pc' = "calling"
  BY DEF HandleRead, wall
<1>2. readable' = FALSE /\ readable' \in BOOLEAN
  BY Zenon DEF HandleRead
<1>3. TypeOK'
  BY <1>1, <1>2 DEF TimerInv, TypeOK
<1>4. \A e, f \in m_timers : e[2] = f[2] => e = f
  BY DEF TimerInv, TypeOK, Waiting
<1>5. Waiting'
  <2>1. \A e \in m_timers' : Live(e[2])' /\ heap'[e[2]].expiration = e[1]
    BY <1>1 DEF TimerInv, Waiting, Live
  <2>2. \A p : ActiveTimer(p)' = ActiveTimer(p)
    BY <1>1 DEF ActiveTimer
  <2>3. \A e, f \in m_timers : ActiveTimer(e[2]) = ActiveTimer(f[2]) => e = f
    BY <1>4 DEF ActiveTimer
  <2>4. m_activeTimers = {ActiveTimer(e[2]) : e \in m_timers}
    BY DEF TimerInv, Waiting
  <2>5. m_activeTimers' = {ActiveTimer(e[2]) : e \in m_timers \ due}
    BY <1>1, <2>3, <2>4
  <2> QED
    BY <1>1, <2>1, <2>2, <2>5 DEF Waiting
<1>6. failed' = "no"
  <2>1. actives \subseteq m_activeTimers
    BY DEF TimerInv, Waiting
  <2>2. Cardinality(m_timers') = Cardinality(m_activeTimers')
    <3>1. m_timers' \in SUBSET (Nat \X Addrs)
      BY <1>3 DEF TypeOK
    <3>2. \A e \in m_timers' : Live(e[2]) /\ heap[e[2]].expiration = e[1]
      BY <1>1 DEF TimerInv, Waiting
    <3>3. m_activeTimers' = {ActiveTimer(e[2]) : e \in m_timers'}
      BY <1>1, <1>5 DEF Waiting, ActiveTimer
    <3> QED
      BY <3>1, <3>2, <3>3, SameSize DEF TimerInv
  <2> QED
    BY <2>1, <2>2 DEF HandleRead
<1>7. Numbers'
  BY <1>1 DEF TimerInv, Numbers, Live
<1>8. Taken'
  <2>1. \A e \in due : Live(e[2]) /\ heap[e[2]].expiration = e[1] /\ e[1] <= clock
    BY DEF TimerInv, Waiting, HasExpired
  <2>2. \A e \in due, f \in m_timers \ due : e[2] # f[2]
    BY <1>4
  <2> QED
    BY <1>1, <2>1, <2>2 DEF Taken, Live
<1>9. Queued'
  BY <1>1 DEF TimerInv, Queued, Adds
<1>10. RanThisRound'
  <2>1. expired = {}
    BY DEF HandleRead, TimerInv, TypeOK
  <2> QED
    BY <1>1, <2>1 DEF TimerInv, RanThisRound, Live
<1>11. ArmedForZero'
  <2>1. \A e \in m_timers' : e[1] # 0
    BY <1>1 DEF TimerInv, TypeOK, HasExpired
  <2> QED
    BY <2>1 DEF ArmedForZero
<1>12. Cancelled' /\ TimerfdArmed'
  BY <1>1 DEF Cancelled, TimerfdArmed
<1>13. pending' \in Seq(Functors)
  BY <1>1 DEF TimerInv
<1> QED
  BY <1>3, <1>5, <1>6, <1>7, <1>8, <1>9, <1>10, <1>11, <1>12, <1>13 DEF TimerInv, TimerAsserts

LEMMA RunTimerInv ==
  ASSUME TimerInv, failed = "no", RunTimer
  PROVE  TimerInv'
<1>1. PICK e \in toRun : toRun' = toRun \ {e} /\ ran' = ran \cup {heap[e[2]].seq}
  BY DEF RunTimer
<1>2. /\ UNCHANGED <<clock, stepped, armed, readable, s_numCreated, heap, m_timers,
                     m_activeTimers, m_cancelingTimers, expired, now, pending, adding, ids,
                     failed>>
      /\ pc = "calling" /\ pc' = "callback"
  BY DEF RunTimer, wall, fd, sets
<1>3. e \in expired /\ e[2] \in Addrs /\ Live(e[2])
  BY <1>1 DEF TimerInv, TypeOK, Taken
<1>4. heap[e[2]].seq \in 1 .. MaxTimers /\ heap[e[2]].seq <= s_numCreated
  BY <1>3 DEF TimerInv, TypeOK, Numbers, Live
<1>5. TypeOK'
  BY <1>1, <1>2, <1>4 DEF TimerInv, TypeOK
<1>6. Numbers'
  BY <1>1, <1>2, <1>4 DEF TimerInv, Numbers, Live
<1>7. (Waiting /\ Taken /\ Queued /\ Cancelled /\ ArmedForZero /\ TimerfdArmed)'
  BY <1>2 DEF TimerInv, Waiting, Taken, Queued, Adds, Cancelled, ArmedForZero, TimerfdArmed,
              CallingExpiredTimers, Live, ActiveTimer
<1>8. RanThisRound'
  <2> SUFFICES ASSUME NEW p \in Addrs, Live(p), heap[p].seq \in ran'
               PROVE  \E f \in expired \ toRun' : f[2] = p
    BY <1>2 DEF RanThisRound, Live
  <2>1. CASE heap[p].seq \in ran
    BY <1>1, <2>1 DEF TimerInv, RanThisRound
  <2>2. CASE heap[p].seq = heap[e[2]].seq
    <3>1. p = e[2]
      BY <1>3, <2>2 DEF TimerInv, Numbers
    <3> QED
      BY <1>1, <1>3, <3>1
  <2> QED
    BY <1>1, <2>1, <2>2
<1> QED
  BY <1>2, <1>5, <1>6, <1>7, <1>8 DEF TimerInv, TimerAsserts

LEMMA ResetInv ==
  ASSUME TimerInv, failed = "no", Reset
  PROVE  TimerInv'
<1> DEFINE done == {e[2] : e \in expired}
           again == {p \in done : Repeats(p)}
           entry(p) == <<now + heap[p].interval, p>>
<1>1. /\ heap' = [p \in Addrs |-> IF p \in again THEN Restart(p)
                                  ELSE IF p \in done THEN Free ELSE heap[p]]
      /\ m_timers' = m_timers \cup {entry(p) : p \in again}
      /\ m_activeTimers' = m_activeTimers \cup {ActiveTimer(p) : p \in again}
      /\ ran' = ran \ {heap[p].seq : p \in again}
      /\ expired' = {} /\ toRun = {} /\ pc = "calling" /\ pc' = "idle"
      /\ UNCHANGED <<clock, stepped, s_numCreated, m_cancelingTimers, now, toRun, pending,
                     adding, ids>>
  BY DEF Reset, wall
<1>2. /\ now \in Nat
      /\ \A p \in Addrs : heap[p] \in [seq : 0 .. MaxTimers, expiration : Nat, interval : Nat]
  BY DEF TimerInv, TypeOK
<1>3. \A p \in done : p \in Addrs /\ Live(p)
  BY DEF TimerInv, TypeOK, Taken
<1>4. \A p \in again : /\ p \in Addrs /\ p \in done /\ Live(p)
                       /\ heap[p].interval > 0
                       /\ ActiveTimer(p) \notin m_cancelingTimers
  BY <1>3 DEF Repeats
<1>5. \A p \in again : /\ heap'[p].seq = heap[p].seq
                       /\ heap'[p].expiration = now + heap[p].interval
  BY <1>1, <1>2, <1>4 DEF Restart
<1>6. \A p \in Addrs : p \in done /\ p \notin again => heap'[p].seq = 0
  BY <1>1 DEF Free
<1>7. \A p \in Addrs : p \notin done => heap'[p] = heap[p]
  BY <1>1
<1>8. \A e \in m_timers : e[2] \in Addrs /\ e[2] \notin done
  BY DEF TimerInv, TypeOK, Taken
<1>9. failed' = "no"
  <2>1. \A p \in again : entry(p) \notin m_timers
    BY <1>4, <1>8
  <2>2. \A p \in again : ActiveTimer(p) \notin m_activeTimers
    BY <1>4, <1>8 DEF TimerInv, Waiting, ActiveTimer
  <2> QED
    BY <2>1, <2>2 DEF Reset
<1>10. \A e \in m_timers' : \/ e \in m_timers
                            \/ e[2] \in again /\ e = entry(e[2]) /\ e[1] \in Nat /\ e[1] > 0
  BY <1>1, <1>2, <1>4
<1>11. heap' \in [Addrs -> [seq : 0 .. MaxTimers, expiration : Nat, interval : Nat]]
  <2>1. \A p \in again : Restart(p) \in [seq : 0 .. MaxTimers, expiration : Nat, interval : Nat]
    BY <1>2, <1>4 DEF Restart
  <2>2. Free \in [seq : 0 .. MaxTimers, expiration : Nat, interval : Nat]
    BY TimesAssumption DEF Free
  <2> QED
    BY <1>1, <1>2, <2>1, <2>2
<1>12. m_timers' \subseteq Nat \X Addrs
  BY <1>1, <1>2, <1>4 DEF TimerInv, TypeOK
<1>13. m_activeTimers' \subseteq Addrs \X (1 .. MaxTimers)
  BY <1>1, <1>2, <1>4 DEF TimerInv, TypeOK, ActiveTimer, Live
<1>14. TimerfdArmed' /\ armed' \in Nat /\ readable' \in BOOLEAN
  <2>1. clock \in Nat /\ armed \in Nat
    BY DEF TimerInv, TypeOK
  <2>2. CASE \E e \in m_timers' : IsFirst(e, m_timers') /\ e[1] > 0 /\ ResetTimerfd(e[1])
    <3>1. PICK e \in m_timers' : IsFirst(e, m_timers') /\ ResetTimerfd(e[1])
      BY <2>2
    <3>2. armed' = HowMuchTimeFromNow(e[1]) /\ readable' = FALSE
      BY <3>1 DEF ResetTimerfd
    <3>3. \A f \in m_timers' : f[1] \in Nat /\ e[1] <= f[1] /\ e[1] \in Nat
      BY <1>12, <3>1 DEF IsFirst
    <3>4. \A f \in m_timers' : armed' <= HowMuchTimeFromNow(f[1])'
      BY <1>1, <2>1, <3>2, <3>3 DEF HowMuchTimeFromNow, MinDelay
    <3>5. armed' \in Nat /\ armed' > 0
      BY <2>1, <3>1, <3>2, <3>3 DEF HowMuchTimeFromNow, MinDelay
    <3>6. readable' \in BOOLEAN
      BY <3>2, Zenon
    <3> QED
      BY <3>4, <3>5, <3>6 DEF TimerfdArmed
  <2>3. CASE /\ m_timers' = {} \/ \E e \in m_timers' : IsFirst(e, m_timers') /\ e[1] = 0
             /\ UNCHANGED fd
    <3>1. armed' = armed /\ readable' = readable
      BY <2>3 DEF fd
    <3>2. CASE m_timers' = {}
      BY <3>1, <3>2 DEF TimerfdArmed, TimerInv, TypeOK
    <3>3. CASE \E e \in m_timers' : e[1] = 0
      <4>1. \E e \in m_timers : e[1] = 0
        BY <1>10, <3>3
      <4>2. readable \/ armed = 1
        BY <1>1, <4>1 DEF TimerInv, ArmedForZero, CallingExpiredTimers
      <4>3. \A e \in m_timers' : e[1] \in Nat
        BY <1>12
      <4>4. armed = 1 => \A e \in m_timers' : armed' <= HowMuchTimeFromNow(e[1])'
        BY <1>1, <2>1, <3>1, <4>3 DEF HowMuchTimeFromNow, MinDelay
      <4> QED
        BY <3>1, <4>2, <4>4 DEF TimerfdArmed, TimerInv, TypeOK
    <3> QED
      BY <2>3, <3>2, <3>3
  <2> QED
    BY <2>2, <2>3 DEF Reset
<1>15. TypeOK'
  BY <1>1, <1>11, <1>12, <1>13, <1>14 DEF TimerInv, TypeOK
<1>16. \A p \in Addrs : heap'[p].seq = heap[p].seq \/ heap'[p].seq = 0
  BY <1>5, <1>6, <1>7
<1>17. Numbers'
  <2>1. \A p \in Addrs : heap'[p].seq <= s_numCreated
    BY <1>16 DEF TimerInv, TypeOK, Numbers
  <2>2. \A p, q \in Addrs : heap'[p].seq # 0 /\ heap'[p].seq = heap'[q].seq => p = q
    BY <1>16 DEF TimerInv, Numbers, Live
  <2> QED
    BY <1>1, <2>1, <2>2 DEF TimerInv, Numbers, Live
<1>18. Waiting'
  <2>1. \A e \in m_timers : heap'[e[2]] = heap[e[2]]
    BY <1>7, <1>8
  <2>2. \A e \in m_timers' : Live(e[2])' /\ heap'[e[2]].expiration = e[1]
    <3> SUFFICES ASSUME NEW e \in m_timers'
                 PROVE  heap'[e[2]].seq # 0 /\ heap'[e[2]].expiration = e[1]
      BY DEF Live
    <3>1. CASE e \in m_timers
      BY <2>1, <3>1 DEF TimerInv, Waiting, Live
    <3>2. CASE e[2] \in again /\ e = entry(e[2])
      BY <1>4, <1>5, <3>2 DEF Live
    <3> QED
      BY <1>10, <3>1, <3>2
  <2>3. \A e \in m_timers : ActiveTimer(e[2])' = ActiveTimer(e[2])
    BY <2>1 DEF ActiveTimer
  <2>4. \A p \in again : ActiveTimer(p)' = ActiveTimer(p)
    BY <1>5 DEF ActiveTimer
  <2>5. \A x : x \in m_activeTimers' <=>
                 \/ \E e \in m_timers : x = ActiveTimer(e[2])
                 \/ \E p \in again : x = ActiveTimer(p)
    BY <1>1 DEF TimerInv, Waiting
  <2>6. \A x : x \in m_activeTimers' <=> \E e \in m_timers' : x = ActiveTimer(e[2])'
    <3>1. \A p \in again : entry(p) \in m_timers' /\ entry(p)[2] = p
      BY <1>1
    <3>2. m_timers \subseteq m_timers'
      BY <1>1
    <3>3. \A e \in m_timers' : e \in m_timers \/ e[2] \in again
      BY <1>10
    <3> HIDE DEF again, entry
    <3> QED
      BY <2>3, <2>4, <2>5, <3>1, <3>2, <3>3
  <2> QED
    BY <2>2, <2>6 DEF Waiting
<1>19. Queued'
  <2>1. \A i \in 1 .. Len(pending) : Adds(i) => pending[i].timer[1] \notin done
    BY DEF TimerInv, Queued
  <2>2. \A i \in 1 .. Len(pending) :
          Adds(i) => heap'[pending[i].timer[1]] = heap[pending[i].timer[1]]
    BY <1>7, <2>1, PendingType
  <2>3. \A i \in 1 .. Len(pending) : Adds(i) =>
          \A e \in m_timers' \cup expired' : e[2] # pending[i].timer[1]
    BY <1>1, <1>4, <1>10, <2>1 DEF TimerInv, Queued
  <2> QED
    BY <1>1, <2>2, <2>3 DEF TimerInv, Queued, Adds
<1>20. RanThisRound'
  <2>1. ASSUME NEW p \in Addrs, heap'[p].seq # 0, heap'[p].seq \in ran' PROVE FALSE
    <3>1. heap'[p].seq = heap[p].seq
      BY <1>16, <2>1
    <3>2. heap[p].seq \in ran /\ p \notin again
      BY <1>1, <2>1, <3>1
    <3>3. p \in done
      BY <2>1, <3>1, <3>2 DEF TimerInv, RanThisRound, Live
    <3> QED
      BY <1>6, <2>1, <3>2, <3>3
  <2> QED
    BY <2>1 DEF RanThisRound, Live
<1>21. Taken' /\ Cancelled' /\ ArmedForZero'
  BY <1>1 DEF Taken, Cancelled, ArmedForZero, CallingExpiredTimers
<1>22. pending' \in Seq(Functors)
  BY <1>1 DEF TimerInv
<1> QED
  BY <1>9, <1>14, <1>15, <1>17, <1>18, <1>19, <1>20, <1>21, <1>22 DEF TimerInv, TimerAsserts

LEMMA NextInv == TimerInv /\ [Next]_vars => TimerInv'
<1> SUFFICES ASSUME TimerInv, [Next]_vars PROVE TimerInv'
  OBVIOUS
<1>1. CASE Next
  <2>1. failed = "no"
    BY <1>1 DEF Next
  <2>2. ASSUME NEW p \in Addrs, NEW when \in Whens, NEW interval \in Intervals,
               AddTimer(p, when, interval) \/ AddTimerElsewhere(p, when, interval)
        PROVE  TimerInv'
    BY <2>1, <2>2, TimesAssumption, AddTimerInv, AddTimerElsewhereInv
  <2>3. CASE LoopStep
    BY <2>1, <2>3, RunPendingInv, PollInv, HandleReadInv, RunTimerInv, CallbackReturnsInv,
       ResetInv DEF LoopStep
  <2> QED
    BY <1>1, <2>1, <2>2, <2>3, TickInv, SetClockInv, AddTimerReturnsInv, CancelInv,
       CancelElsewhereInv DEF Next
<1>2. CASE UNCHANGED vars
  <2>1. (TypeOK /\ pending \in Seq(Functors) /\ TimerAsserts)'
    BY <1>2 DEF vars, TimerInv, TypeOK, TimerAsserts
  <2>2. (failed = "no" => Numbers /\ Waiting /\ Taken /\ Queued)'
    BY <1>2 DEF vars, TimerInv, Numbers, Waiting, Taken, Queued, Adds, Live, ActiveTimer
  <2>3. (failed = "no" => RanThisRound /\ Cancelled /\ ArmedForZero)'
    BY <1>2 DEF vars, TimerInv, RanThisRound, Cancelled, ArmedForZero, CallingExpiredTimers, Live
  <2>4. TimerfdArmed'
    BY <1>2 DEF vars, TimerInv, TimerfdArmed, HowMuchTimeFromNow
  <2> QED
    BY <2>1, <2>2, <2>3, <2>4 DEF TimerInv
<1> QED
  BY <1>1, <1>2

THEOREM TimerInvariant == Safety => []TimerInv
BY InitInv, NextInv, PTL DEF Safety

----------------------------------------------------------------------------
(* m_timers and m_activeTimers hold the same timers, all of them alive and *)
(* under the expiration they have, however timers are added, cancelled,    *)
(* restarted and made again at an address, by whichever threads.           *)
THEOREM TimersAgree == Safety => []SameTimers
<1>1. TimerInv => SameTimers
  BY DEF TimerInv, SameTimers, Waiting
<1> QED
  BY <1>1, TimerInvariant, PTL

(* The asserts of insert and getExpired never fail. *)
THEOREM AssertsHold == Safety => []TimerAsserts
<1>1. TimerInv => TimerAsserts
  BY DEF TimerInv
<1> QED
  BY <1>1, TimerInvariant, PTL

(* Whenever the loop is about to wait and a timer is there, the timerfd is *)
(* armed, in time for the earliest; the invalid time 0 included, for which *)
(* reset() does not arm it.                                                *)
THEOREM AlarmIsSet == Safety => []TimerfdArmed
<1>1. TimerInv => TimerfdArmed
  BY DEF TimerInv
<1> QED
  BY <1>1, TimerInvariant, PTL

(* handleRead runs a timer once for each time it was inserted, and only    *)
(* when it has expired.                                                    *)
THEOREM RunOncePerInsertion == Safety => RunsOnce
<1> DEFINE Step == \A e \in toRun \ toRun' :
                     heap[e[2]].seq \notin ran /\ heap[e[2]].expiration <= now
<1>1. ASSUME TimerInv, [Next]_vars PROVE [Step]_vars
  <2>1. CASE ~RunTimer
    <3>1. toRun' = toRun \/ toRun = {}
      BY <1>1, <2>1 DEF Next, LoopStep, Tick, SetClock, AddTimer, AddTimerElsewhere,
         AddTimerReturns, Cancel, CancelElsewhere, RunPending, Poll, HandleRead, CallbackReturns,
         Reset, vars, local, TimerInv, TypeOK
    <3> QED
      BY <3>1
  <2>2. CASE RunTimer /\ failed = "no"
    <3>1. PICK e \in toRun : toRun' = toRun \ {e}
      BY <2>2 DEF RunTimer
    <3>2. /\ e \in expired /\ e[2] \in Addrs /\ Live(e[2])
          /\ heap[e[2]].expiration = e[1] /\ e[1] <= now
      BY <1>1, <2>2 DEF TimerInv, TypeOK, Taken
    <3>3. heap[e[2]].seq \notin ran
      <4>1. \A f \in expired : f[2] = e[2] => f = e
        BY <1>1, <2>2, <3>2 DEF TimerInv, TypeOK, Taken
      <4> QED
        BY <1>1, <2>2, <3>2, <4>1 DEF TimerInv, RanThisRound
    <3> QED
      BY <3>1, <3>2, <3>3
  <2> QED
    BY <1>1, <2>1, <2>2 DEF Next, RunTimer, vars
<1> QED
  BY <1>1, TimerInvariant, PTL DEF Safety, RunsOnce

(* reset() does not insert again what a callback of the round has          *)
(* cancelled, and it was not waiting when the round ended either.          *)
THEOREM NoRestartOnceCancelled == Safety => CancelledIsGone
<1> DEFINE Step == pc = "calling" /\ pc' = "idle" => m_cancelingTimers \cap m_activeTimers' = {}
<1>1. ASSUME TimerInv, [Next]_vars PROVE [Step]_vars
  <2> SUFFICES ASSUME pc = "calling", pc' = "idle"
               PROVE  m_cancelingTimers \cap m_activeTimers' = {}
    OBVIOUS
  <2>1. Reset /\ failed = "no"
    BY <1>1 DEF Next, LoopStep, Tick, SetClock, AddTimer, AddTimerElsewhere, AddTimerReturns,
       Cancel, CancelElsewhere, RunPending, Poll, HandleRead, RunTimer, CallbackReturns, vars
  <2>2. m_cancelingTimers \cap m_activeTimers = {}
    BY <1>1, <2>1 DEF TimerInv, Cancelled, CallingExpiredTimers
  <2> QED
    BY <2>1, <2>2 DEF Reset, Repeats
<1> QED
  BY <1>1, TimerInvariant, PTL DEF Safety, CancelledIsGone

=============================================================================
