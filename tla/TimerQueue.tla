------------------------------ MODULE TimerQueue ------------------------------
(***************************************************************************)
(* The timers of a loop: src/Reactor/TimerQueue.cpp, Timer.{h,cpp},        *)
(* TimerId.h and the run* functions of EventLoop.cpp.                      *)
(*                                                                         *)
(* There are two clocks.  Timers expire by the wall clock (gettimeofday),  *)
(* which may be set; the timerfd counts the monotonic clock down, and is   *)
(* armed with the difference of two readings of the wall clock.  Time is   *)
(* in ticks of the least delay that howMuchTimeFromNow returns.            *)
(*                                                                         *)
(* A Timer is an address of the heap, which is used again once the timer   *)
(* is deleted, and a sequence number, which is not.  Of the loop only the  *)
(* thread matters: it handles the timerfd, runs other handlers and runs    *)
(* the functors queued by other threads, in their order (FunctorQueue).    *)
(* failed names the assert that ended the process, or "lifetime" when a    *)
(* deleted timer was read.                                                 *)
(***************************************************************************)
EXTENDS Naturals, Sequences, FiniteSets

CONSTANTS
  Addrs,      \* addresses of timers: numbers, for std::set compares them
  Whens,      \* the times that runAt is called with
  Intervals,  \* the intervals of timers, 0 for a timer that does not repeat
  MaxTimers,  \* bound: timers created
  MaxTime     \* bound: the wall clock, which then stands still

ASSUME AddrsAssumption == Addrs \subseteq Nat /\ IsFiniteSet(Addrs)
ASSUME TimesAssumption ==
  Whens \subseteq Nat /\ Intervals \subseteq Nat /\ MaxTime \in Nat \ {0} /\ MaxTimers \in Nat

MinDelay == 1

VARIABLES
  clock,                   \* the wall clock
  stepped,                 \* history: it was set, or stood still
  armed,                   \* ticks until the timerfd alarms, 0 when disarmed
  readable,                \* the timerfd has alarmed
  s_numCreated,
  heap,                    \* the timers, by address; seq is 0 when there is none
  m_timers,                \* entries <<expiration, address>>
  m_activeTimers,          \* <<address, sequence>>
  m_cancelingTimers,
  expired, now,            \* locals of handleRead: entries, and its reading of the clock
  toRun,                   \* entries of expired not yet run
  pc,                      \* where the loop thread is
  pending,                 \* functors queued by other threads
  adding,                  \* timers of other threads' calls of addTimer that have not returned
  ids,                     \* TimerIds that were returned and not cancelled
  ran,                     \* history: timers that have run since they were inserted
  failed

wall   == <<clock, stepped>>
fd     == <<armed, readable>>
sets   == <<m_timers, m_activeTimers>>
local  == <<expired, now, toRun>>
vars == <<clock, stepped, armed, readable, s_numCreated, heap, m_timers, m_activeTimers,
          m_cancelingTimers, expired, now, toRun, pc, pending, adding, ids, ran, failed>>

Free == [seq |-> 0, expiration |-> 0, interval |-> 0]

(* Mutant: every timer has the latest sequence number. *)
ActiveTimerLatest(p) == <<p, s_numCreated>>

(* The pair that stands for a timer in m_activeTimers. *)
ActiveTimer(p) == <<p, heap[p].seq>>

(* The first entry of a std::set<Entry>. *)
IsFirst(e, ts) ==
  e \in ts /\ \A f \in ts : e[1] < f[1] \/ (e[1] = f[1] /\ e[2] <= f[2])

(* m_callingExpiredTimers. *)
CallingExpiredTimers == pc \in {"calling", "callback"}

(* User code may run in the loop thread: a callback, or another handler,   *)
(* also one that comes before the timerfd's in the same round.             *)
InUserCode == pc \in {"idle", "reported", "callback"}

Init ==
  /\ clock = 1 /\ stepped = FALSE
  /\ armed = 0 /\ readable = FALSE
  /\ s_numCreated = 0
  /\ heap = [p \in Addrs |-> Free]
  /\ m_timers = {} /\ m_activeTimers = {} /\ m_cancelingTimers = {}
  /\ expired = {} /\ now = 0 /\ toRun = {}
  /\ pc = "idle"
  /\ pending = <<>>
  /\ adding = {} /\ ids = {} /\ ran = {}
  /\ failed = "no"

----------------------------------------------------------------------------
(* The clocks *)

(* A tick of the monotonic clock, and of the wall clock until it has       *)
(* reached the bound.                                                      *)
Tick ==
  /\ armed > 0 \/ clock < MaxTime
  /\ clock' = IF clock < MaxTime THEN clock + 1 ELSE clock
  /\ stepped' = (stepped \/ clock = MaxTime)
  /\ armed' = IF armed > 0 THEN armed - 1 ELSE 0
  /\ readable' = (readable \/ armed = 1)
  /\ UNCHANGED <<s_numCreated, heap, sets, m_cancelingTimers, local, pc, pending, adding, ids,
                 ran, failed>>

(* The wall clock is set. *)
SetClock ==
  /\ clock' \in (1 .. MaxTime) \ {clock}
  /\ stepped' = TRUE
  /\ UNCHANGED <<fd, s_numCreated, heap, sets, m_cancelingTimers, local, pc, pending, adding,
                 ids, ran, failed>>

----------------------------------------------------------------------------
(* Mutant: a time that has passed disarms the timerfd. *)
HowMuchTimeUnbounded(when) == IF when > clock THEN when - clock ELSE 0

(* howMuchTimeFromNow. *)
HowMuchTimeFromNow(when) == IF when > clock + MinDelay THEN when - clock ELSE MinDelay

(* resetTimerfd: settime also takes back an alarm that was not read. *)
ResetTimerfd(when) == armed' = HowMuchTimeFromNow(when) /\ readable' = FALSE

(* new Timer at a free address. *)
NewTimer(p, when, interval) ==
  /\ s_numCreated < MaxTimers
  /\ heap[p] = Free
  /\ s_numCreated' = s_numCreated + 1
  /\ heap' = [heap EXCEPT ![p] =
                [seq |-> s_numCreated + 1, expiration |-> when, interval |-> interval]]

(* Mutant: the timerfd is armed for the first timer only. *)
EarliestChangedIfEmpty(when) == m_timers = {}

EarliestChanged(when) == \A e \in m_timers : when < e[1]

(* addTimerInLoop, and insert with its asserts. *)
AddTimerInLoop(p, when, seq) ==
  /\ m_timers' = m_timers \cup {<<when, p>>}
  /\ m_activeTimers' = m_activeTimers \cup {<<p, seq>>}
  /\ failed' = IF <<when, p>> \in m_timers \/ <<p, seq>> \in m_activeTimers THEN "insert"
               ELSE failed
  /\ IF EarliestChanged(when) THEN ResetTimerfd(when) ELSE UNCHANGED fd

(* runAt, runAfter and runEvery by the loop thread: addTimerInLoop is run  *)
(* at once.                                                                *)
AddTimer(p, when, interval) ==
  /\ InUserCode
  /\ NewTimer(p, when, interval)
  /\ AddTimerInLoop(p, when, s_numCreated')
  /\ ids' = ids \cup {<<p, s_numCreated'>>}
  /\ UNCHANGED <<wall, m_cancelingTimers, local, pc, pending, adding, ran>>

(* The same calls by another thread: the timer is queued ...               *)
AddTimerElsewhere(p, when, interval) ==
  /\ NewTimer(p, when, interval)
  /\ pending' = Append(pending, [fun |-> "addTimerInLoop", timer |-> <<p, s_numCreated'>>])
  /\ adding' = adding \cup {<<p, s_numCreated'>>}
  /\ UNCHANGED <<wall, fd, sets, m_cancelingTimers, local, pc, ids, ran, failed>>

(* ... and its sequence number is read for the TimerId that is returned.   *)
AddTimerReturns ==
  /\ \E t \in adding :
       /\ adding' = adding \ {t}
       /\ IF heap[t[1]].seq = t[2] THEN ids' = ids \cup {t} /\ UNCHANGED failed
          ELSE failed' = "lifetime" /\ UNCHANGED ids
  /\ UNCHANGED <<wall, fd, s_numCreated, heap, sets, m_cancelingTimers, local, pc, pending, ran>>

(* cancelInLoop.  The timer is erased from m_timers only, so that the      *)
(* assert on the sizes of the two sets fails.                              *)
CancelInLoop(t) ==
  IF t \in m_activeTimers
    THEN /\ m_timers' = m_timers \ {<<heap[t[1]].expiration, t[1]>>}
         /\ heap' = [heap EXCEPT ![t[1]] = Free]
         /\ failed' = IF Cardinality(m_timers') = Cardinality(m_activeTimers)
                      THEN failed ELSE "cancelInLoop"
         /\ UNCHANGED m_cancelingTimers
    ELSE /\ m_cancelingTimers' =
              IF CallingExpiredTimers THEN m_cancelingTimers \cup {t} ELSE m_cancelingTimers
         /\ UNCHANGED <<m_timers, heap, failed>>

(* cancel by the loop thread, and by another. *)
Cancel ==
  /\ InUserCode
  /\ \E t \in ids : CancelInLoop(t) /\ ids' = ids \ {t}
  /\ UNCHANGED <<wall, fd, s_numCreated, m_activeTimers, local, pc, pending, adding, ran>>

CancelElsewhere ==
  /\ \E t \in ids :
       /\ pending' = Append(pending, [fun |-> "cancelInLoop", timer |-> t])
       /\ ids' = ids \ {t}
  /\ UNCHANGED <<wall, fd, s_numCreated, heap, sets, m_cancelingTimers, local, pc, adding, ran,
                 failed>>

(* The loop runs a functor. *)
RunPending ==
  /\ pc = "idle"
  /\ pending # <<>>
  /\ pending' = Tail(pending)
  /\ LET t == Head(pending).timer IN
       \/ /\ Head(pending).fun = "addTimerInLoop"
          /\ AddTimerInLoop(t[1], heap[t[1]].expiration, t[2])
          /\ UNCHANGED <<heap, m_cancelingTimers>>
       \/ /\ Head(pending).fun = "cancelInLoop"
          /\ CancelInLoop(t)
          /\ UNCHANGED <<fd, m_activeTimers>>
  /\ UNCHANGED <<wall, s_numCreated, local, pc, adding, ids, ran>>

----------------------------------------------------------------------------
(* epoll reports the timerfd; other handlers may come first. *)
Poll ==
  /\ pc = "idle"
  /\ readable
  /\ pc' = "reported"
  /\ UNCHANGED <<wall, fd, s_numCreated, heap, sets, m_cancelingTimers, local, pending, adding,
                 ids, ran, failed>>

(* Mutant: the sentry of getExpired is one tick late. *)
HasExpiredSoon(e) == e[1] <= clock + 1

(* Before the sentry of getExpired. *)
HasExpired(e) == e[1] <= clock

(* handleRead up to the first callback: the alarm is read, if it is still  *)
(* there, and getExpired takes the timers that have expired out.           *)
HandleRead ==
  LET due == {e \in m_timers : HasExpired(e)}
      actives == {ActiveTimer(e[2]) : e \in due}
  IN /\ pc = "reported"
     /\ readable' = FALSE
     /\ now' = clock
     /\ expired' = due
     /\ toRun' = due
     /\ m_timers' = m_timers \ due
     /\ m_activeTimers' = m_activeTimers \ actives
     /\ failed' = IF actives \subseteq m_activeTimers
                     /\ Cardinality(m_timers') = Cardinality(m_activeTimers')
                  THEN failed ELSE "getExpired"
     /\ m_cancelingTimers' = {}
     /\ pc' = "calling"
     /\ UNCHANGED <<wall, armed, s_numCreated, heap, pending, adding, ids, ran>>

(* it->second->run(), in the order of the set. *)
RunTimer ==
  /\ pc = "calling"
  /\ \E e \in toRun :
       /\ IsFirst(e, toRun)
       /\ toRun' = toRun \ {e}
       /\ ran' = ran \cup {heap[e[2]].seq}
  /\ pc' = "callback"
  /\ UNCHANGED <<wall, fd, s_numCreated, heap, sets, m_cancelingTimers, expired, now, pending,
                 adding, ids, failed>>

CallbackReturns ==
  /\ pc = "callback"
  /\ pc' = "calling"
  /\ UNCHANGED <<wall, fd, s_numCreated, heap, sets, m_cancelingTimers, local, pending, adding,
                 ids, ran, failed>>

(* Mutant: a timer that is cancelled by a callback repeats all the same. *)
RepeatsAnyway(p) == heap[p].interval > 0

(* repeat(), and not cancelled by a callback of this round. *)
Repeats(p) == heap[p].interval > 0 /\ ActiveTimer(p) \notin m_cancelingTimers

(* Mutant: the expiration of a restarted timer is not set. *)
RestartInPlace(p) == heap[p]

(* Timer::restart of a timer that repeats. *)
Restart(p) == [heap[p] EXCEPT !.expiration = now + heap[p].interval]

(* reset: timers that repeat are restarted from `now` and inserted, the    *)
(* others deleted, and the timerfd is armed for the earliest.              *)
Reset ==
  LET done == {e[2] : e \in expired}
      again == {p \in done : Repeats(p)}
      entry(p) == <<now + heap[p].interval, p>>
  IN /\ pc = "calling"
     /\ toRun = {}
     /\ heap' = [p \in Addrs |-> IF p \in again THEN Restart(p)
                                 ELSE IF p \in done THEN Free ELSE heap[p]]
     /\ m_timers' = m_timers \cup {entry(p) : p \in again}
     /\ m_activeTimers' = m_activeTimers \cup {ActiveTimer(p) : p \in again}
     /\ failed' = IF \E p \in again : entry(p) \in m_timers \/ ActiveTimer(p) \in m_activeTimers
                  THEN "insert" ELSE failed
     /\ \/ /\ \E e \in m_timers' : IsFirst(e, m_timers') /\ e[1] > 0 /\ ResetTimerfd(e[1])
        \/ /\ m_timers' = {} \/ \E e \in m_timers' : IsFirst(e, m_timers') /\ e[1] = 0
           /\ UNCHANGED fd
     /\ ran' = ran \ {heap[p].seq : p \in again}
     /\ expired' = {}
     /\ pc' = "idle"
     /\ UNCHANGED <<wall, s_numCreated, m_cancelingTimers, now, toRun, pending, adding, ids>>

LoopStep == RunPending \/ Poll \/ HandleRead \/ RunTimer \/ CallbackReturns \/ Reset

Next ==
  /\ failed = "no"
  /\ \/ Tick \/ SetClock
     \/ \E p \in Addrs, when \in Whens, interval \in Intervals :
          AddTimer(p, when, interval) \/ AddTimerElsewhere(p, when, interval)
     \/ AddTimerReturns
     \/ Cancel \/ CancelElsewhere
     \/ LoopStep

Safety == Init /\ [][Next]_vars

(* Time passes and the loop runs; callbacks return.  Every round of the    *)
(* loop ends with the functors queued, however often the timerfd alarms.   *)
Spec ==
  /\ Safety
  /\ WF_vars(failed = "no" /\ Tick)
  /\ WF_vars(failed = "no" /\ LoopStep)
  /\ SF_vars(failed = "no" /\ RunPending)

----------------------------------------------------------------------------
Live(p) == heap[p].seq # 0

TypeOK ==
  /\ clock \in 1 .. MaxTime /\ stepped \in BOOLEAN
  /\ armed \in Nat /\ readable \in BOOLEAN
  /\ s_numCreated \in 0 .. MaxTimers
  /\ heap \in [Addrs -> [seq : 0 .. MaxTimers, expiration : Nat, interval : Nat]]
  /\ m_timers \subseteq Nat \X Addrs
  /\ m_activeTimers \subseteq Addrs \X (1 .. MaxTimers)
  /\ m_cancelingTimers \subseteq Addrs \X (1 .. MaxTimers)
  /\ expired \subseteq Nat \X Addrs /\ toRun \subseteq expired /\ now \in Nat
  /\ pc \in {"idle", "reported"} => expired = {}
  /\ pc \in {"idle", "reported", "calling", "callback"}
  /\ ids \subseteq Addrs \X (1 .. MaxTimers)
  /\ adding \subseteq Addrs \X (1 .. MaxTimers)
  /\ ran \subseteq 1 .. MaxTimers

(* The two sets hold the same timers, all alive, under the expiration the  *)
(* timer has: no entry is left behind when a timer is deleted, restarted   *)
(* or made at the same address. (With it the types, which say that no      *)
(* expired timer is left over when handleRead has returned.)               *)
SameTimers ==
  /\ TypeOK
  /\ failed = "no" =>
    /\ \A e \in m_timers : Live(e[2]) /\ heap[e[2]].expiration = e[1]
    /\ m_activeTimers = {ActiveTimer(e[2]) : e \in m_timers}

(* The asserts of insert and getExpired never fail: only cancelInLoop's    *)
(* can, and addTimer's use of a timer that it has handed over.             *)
TimerAsserts == failed \in {"no", "cancelInLoop", "lifetime"}

(* While a timer waits, the timerfd has alarmed or will; and, as long as   *)
(* the wall clock runs evenly, no later than the earliest timer expires.   *)
TimerfdArmed ==
  failed = "no" /\ m_timers # {} /\ pc = "idle" =>
    /\ readable \/ armed > 0
    /\ stepped \/ readable \/ \A e \in m_timers : armed <= HowMuchTimeFromNow(e[1])

(* A timer runs once for each time it is inserted, and not before it has   *)
(* expired by the reading of the clock that handleRead makes.              *)
RunsOnce ==
  [][\A e \in toRun \ toRun' :
       heap[e[2]].seq \notin ran /\ heap[e[2]].expiration <= now]_vars

(* A timer that a callback cancels while it is among the expired ones does *)
(* not start again.                                                        *)
CancelledIsGone ==
  [][pc = "calling" /\ pc' = "idle" => m_cancelingTimers \cap m_activeTimers' = {}]_vars

(* A timer that has expired is run, unless the clock is set back.          *)
ExpiredIsRun ==
  \A s \in 1 .. MaxTimers :
    (\E p \in Addrs : heap[p].seq = s /\ heap[p].expiration <= clock) ~>
      \/ s \in ran
      \/ failed # "no"
      \/ \E p \in Addrs : heap[p].seq = s /\ heap[p].expiration > clock

=============================================================================
