---------------------------- MODULE TcpServerProofs ----------------------------
(***************************************************************************)
(* Theorems about TcpServer, for any number of connections, of threads of  *)
(* the pool, and any use of them by the application:                       *)
(*   - ChannelsDoNotDangle, ConnectionCalledOnce, FailsByHangupOnly: the   *)
(*     invariants NoDanglingChannel, CalledOnce and OnlyHangupFails.       *)
(*   - ServerImplementsConnLife: TcpServer implements ConnLife.            *)
(*                                                                         *)
(* All of them rest on TcpInv.  It is about the functors that each loop    *)
(* has still to run, in their order, wherever the round of the loop has    *)
(* put them (Todo).  The life of a connection is a chain of functors, each *)
(* queued when the one before is run, so that there is one of each at most *)
(* (Stage); and as long as no loop closes a connection while a call of     *)
(* another thread on it is under way, nothing that is bound to a raw       *)
(* `this` is queued behind connectDestroyed (Fresh).                       *)
(***************************************************************************)
EXTENDS TcpServer, SequenceTheorems, TLAPS

Raw == {"shutdownInLoop", "sendInLoop"}
Funs == HoldsPtr \cup Raw
Functors == [fun : Funs, conn : Conns]

(* What loop l has still to run: the rest of its batch, then its queue. *)
TodoOf(q, b, n) == [l \in Loops |-> SubSeq(b[l], n[l] + 1, Len(b[l])) \o q[l]]

Todo == TodoOf(queue, batch, index)

(* x is to be run by loop l; by some loop; at one place only; behind y.    *)
Holds(T, l, x) == \E i \in 1 .. Len(T[l]) : T[l][i] = x

Has(T, x) == \E l \in Loops : \E i \in 1 .. Len(T[l]) : T[l][i] = x

Once(T, x) ==
  \A l, m \in Loops : \A i \in 1 .. Len(T[l]), j \in 1 .. Len(T[m]) :
    T[l][i] = x /\ T[m][j] = x => l = m /\ i = j

Behind(T, x, y) ==
  \E l \in Loops : \E i, j \in 1 .. Len(T[l]) : i < j /\ T[l][i] = y /\ T[l][j] = x

(* Every functor is in the loop that has to run it. *)
Home(x, r) == IF x.fun = "removeConnectionInLoop" THEN Base ELSE r.loop

Homes(T, cs) ==
  \A l \in Loops, x \in Functors :
    Holds(T, l, x) => cs[x.conn].state # "none" /\ l = Home(x, cs[x.conn])

Up == {"kConnected", "kDisConnecting", "kDisConnected"}

(* The life of connection c, r being its record, S m_connectionsSet and u  *)
(* what the application's thread does with it: not there yet; handed to    *)
(* its loop; established, in m_connectionsSet until connectDestroyed is    *)
(* queued; destroyed.                                                      *)
Stage(T, S, r, u, c) ==
  /\ r.state = "none" =>
       r = NoConn /\ c \notin S /\ u = "none" /\ \A f \in Funs : ~Has(T, Functor(f, c))
  /\ r.state = "kConnecting" =>
       /\ c \in S /\ u = "none"
       /\ r.established = 0 /\ r.destroyed = 0 /\ r.epoll = "new"
       /\ \A f \in Funs : Has(T, Functor(f, c)) <=> f = "connectEstablished"
  /\ r.state \in Up =>
       /\ r.established = 1
       /\ ~Has(T, Functor("connectEstablished", c))
       /\ \/ /\ r.destroyed = 0 /\ r.epoll = "added"
             /\ c \in S <=> ~Has(T, Functor("connectDestroyed", c))
          \/ /\ r.destroyed = 1 /\ r.epoll = "deleted"
             /\ c \notin S /\ ~Has(T, Functor("connectDestroyed", c))
  /\ Once(T, Functor("connectEstablished", c)) /\ Once(T, Functor("connectDestroyed", c))

(* As long as nobody has acted on a state that had changed: the connection *)
(* is closed once, its channel is disabled from then on, and whatever is   *)
(* bound to a raw pointer is run before connectDestroyed is.               *)
Fresh(T, S, r, c) ==
  /\ r.state \in Up /\ c \notin S => r.state = "kDisConnected"
  /\ Has(T, Functor("removeConnectionInLoop", c)) => c \in S /\ r.state = "kDisConnected"
  /\ Once(T, Functor("removeConnectionInLoop", c))
  /\ r.state = "kDisConnected" => r.events = {}
  /\ \A f \in Raw :
       /\ ~Behind(T, Functor(f, c), Functor("connectDestroyed", c))
       /\ r.destroyed = 1 => ~Has(T, Functor(f, c))

ConnRecords ==
  [loop : Loops, state : States, events : SUBSET {"R", "W"}, interest : SUBSET {"R", "W"},
   epoll : {"new", "added", "deleted"}, out : BOOLEAN, established : Nat, destroyed : Nat]

Types ==
  /\ TypeOK
  /\ conn \in [Conns -> ConnRecords]
  /\ DOMAIN sock = Conns /\ \A c \in Conns : "peer" \in DOMAIN sock[c]
  /\ DOMAIN user = Conns
  /\ queue \in [Loops -> Seq(Functors)] /\ batch \in [Loops -> Seq(Functors)]
  /\ index \in [Loops -> Nat]
  /\ DOMAIN phase = Loops /\ DOMAIN active = Loops

(* The rounds of the loops: what is reported is handled before functors    *)
(* are run, and is about channels that are registered.                     *)
Rounds ==
  \A l \in Loops :
    /\ phase[l] # "run" => batch[l] = <<>> /\ index[l] = 0
    /\ phase[l] # "dispatch" => active[l] = {}
    /\ \A e \in active[l] : e # Acceptor =>
         e.conn \in Conns /\ conn[e.conn].loop = l /\ conn[e.conn].epoll = "added"

Accepted == \A c \in Conns : conn[c].state # "none" => sock[c].peer = "open"

Lives ==
  \A c \in Conns :
    /\ Stage(Todo, m_connectionsSet, conn[c], user[c], c)
    /\ ~stale => Fresh(Todo, m_connectionsSet, conn[c], c)

AliveInv == Rounds /\ Accepted /\ Homes(Todo, conn) /\ Lives

TcpInv ==
  /\ Types
  /\ CalledOnce
  /\ OnlyHangupFails
  /\ Alive => AliveInv

----------------------------------------------------------------------------
(* The functors to be run, and what queueing, running and the rounds of a  *)
(* loop do to them.                                                        *)

LEMMA BaseIsLoop == Base \in Loops
BY TcpServerAssumption DEF Base, Loops

QueueState(q, b, n) ==
  /\ q \in [Loops -> Seq(Functors)] /\ b \in [Loops -> Seq(Functors)]
  /\ n \in [Loops -> Nat]
  /\ \A l \in Loops : n[l] <= Len(b[l])

LEMMA RestOfSeq ==
  ASSUME NEW S, NEW s \in Seq(S), NEW n \in Nat, n <= Len(s)
  PROVE  /\ SubSeq(s, n + 1, Len(s)) \in Seq(S)
         /\ n = 0 => SubSeq(s, n + 1, Len(s)) = s
         /\ n = Len(s) => SubSeq(s, n + 1, Len(s)) = <<>>
         /\ n < Len(s) => /\ SubSeq(s, n + 1, Len(s)) # <<>>
                          /\ Head(SubSeq(s, n + 1, Len(s))) = s[n + 1]
                          /\ Tail(SubSeq(s, n + 1, Len(s))) = SubSeq(s, (n + 1) + 1, Len(s))
<1>1. Len(s) \in Nat
  BY LenProperties
<1>2. \A i \in n + 1 .. Len(s) : s[i] \in S
  BY <1>1, ElementOfSeq
<1>3. n + 1 \in Int /\ Len(s) \in Int
  BY <1>1
<1>4. /\ SubSeq(s, n + 1, Len(s)) \in Seq(S)
      /\ Len(SubSeq(s, n + 1, Len(s))) = IF n + 1 <= Len(s) THEN Len(s) - (n + 1) + 1 ELSE 0
  BY <1>2, <1>3, SubSeqProperties
<1>5. n = 0 => SubSeq(s, n + 1, Len(s)) = s
  BY SubSeqFull
<1>6. n = Len(s) => SubSeq(s, n + 1, Len(s)) = <<>>
  BY <1>1, <1>3, SubSeqEmpty
<1>7. ASSUME n < Len(s)
      PROVE  /\ SubSeq(s, n + 1, Len(s)) # <<>>
             /\ Head(SubSeq(s, n + 1, Len(s))) = s[n + 1]
             /\ Tail(SubSeq(s, n + 1, Len(s))) = SubSeq(s, (n + 1) + 1, Len(s))
  <2>1. n + 1 \in 1 .. Len(s) /\ Len(s) \in n + 1 .. Len(s)
    BY <1>1, <1>7
  <2>2. Len(SubSeq(s, n + 1, Len(s))) # 0
    BY <1>1, <1>4, <1>7
  <2>3. SubSeq(s, n + 1, Len(s)) # <<>>
    BY <2>2, EmptySeq
  <2> QED
    BY <2>1, <2>3, HeadTailOfSubSeq
<1> QED
  BY <1>4, <1>5, <1>6, <1>7

LEMMA AppendConcat ==
  ASSUME NEW S, NEW s \in Seq(S), NEW t \in Seq(S), NEW e \in S
  PROVE  /\ s \o t \in Seq(S)
         /\ s \o Append(t, e) = Append(s \o t, e)
<1>1. s \o t \in Seq(S)
  BY ConcatProperties
<1>2. <<e>> \in Seq(S)
  OBVIOUS
<1>3. Append(t, e) = t \o <<e>>
  BY AppendIsConcat
<1>4. Append(s \o t, e) = (s \o t) \o <<e>>
  BY <1>1, AppendIsConcat
<1>5. (s \o t) \o <<e>> = s \o (t \o <<e>>)
  BY <1>2, ConcatAssociative
<1> QED
  BY <1>1, <1>3, <1>4, <1>5

LEMMA TailConcat ==
  ASSUME NEW S, NEW s \in Seq(S), NEW t \in Seq(S), s # <<>>
  PROVE  /\ s \o t # <<>>
         /\ Head(s \o t) = Head(s)
         /\ Tail(s \o t) = Tail(s) \o t
<1>1. Len(s) \in Nat /\ Len(s) > 0 /\ Len(t) \in Nat
  BY LenProperties, EmptySeq
<1>2. /\ s \o t \in Seq(S)
      /\ Len(s \o t) = Len(s) + Len(t)
      /\ \A i \in 1 .. Len(s) + Len(t) : (s \o t)[i] = IF i <= Len(s) THEN s[i] ELSE t[i - Len(s)]
  BY ConcatProperties
<1>3. s \o t # <<>>
  BY <1>1, <1>2, EmptySeq
<1>4. /\ Tail(s) \in Seq(S)
      /\ Len(Tail(s)) = Len(s) - 1
      /\ \A i \in 1 .. Len(Tail(s)) : Tail(s)[i] = s[i + 1]
  BY HeadTailProperties
<1>5. /\ Tail(s) \o t \in Seq(S)
      /\ Len(Tail(s) \o t) = Len(Tail(s)) + Len(t)
      /\ \A i \in 1 .. Len(Tail(s)) + Len(t) :
           (Tail(s) \o t)[i] = IF i <= Len(Tail(s)) THEN Tail(s)[i] ELSE t[i - Len(Tail(s))]
  BY <1>4, ConcatProperties
<1>6. /\ Tail(s \o t) \in Seq(S)
      /\ Len(Tail(s \o t)) = Len(s \o t) - 1
      /\ \A i \in 1 .. Len(Tail(s \o t)) : Tail(s \o t)[i] = (s \o t)[i + 1]
  BY <1>2, <1>3, HeadTailProperties
<1>7. Len(Tail(s \o t)) = Len(Tail(s) \o t)
  BY <1>1, <1>2, <1>4, <1>5, <1>6
<1>8. ASSUME NEW i \in 1 .. Len(Tail(s \o t))
      PROVE  Tail(s \o t)[i] = (Tail(s) \o t)[i]
  <2>1. i \in Nat /\ 1 <= i /\ i <= Len(s) - 1 + Len(t)
    BY <1>1, <1>2, <1>6
  <2>2. Tail(s \o t)[i] = IF i + 1 <= Len(s) THEN s[i + 1] ELSE t[i + 1 - Len(s)]
    BY <1>1, <1>2, <1>6, <2>1
  <2>3. CASE i + 1 <= Len(s)
    <3>1. i \in 1 .. Len(Tail(s)) /\ i \in 1 .. Len(Tail(s)) + Len(t) /\ i <= Len(Tail(s))
      BY <1>1, <1>4, <2>1, <2>3
    <3> QED
      BY <1>4, <1>5, <2>2, <2>3, <3>1
  <2>4. CASE ~ (i + 1 <= Len(s))
    <3>1. /\ i \in 1 .. Len(Tail(s)) + Len(t) /\ ~ (i <= Len(Tail(s)))
          /\ i - Len(Tail(s)) = i + 1 - Len(s)
      BY <1>1, <1>4, <2>1, <2>4
    <3> QED
      BY <1>5, <2>2, <2>4, <3>1
  <2> QED
    BY <2>3, <2>4
<1>9. Tail(s \o t) = Tail(s) \o t
  BY <1>5, <1>6, <1>7, <1>8, SeqEqual
<1>10. Head(s \o t) = (s \o t)[1] /\ Head(s) = s[1]
  BY <1>2, <1>3
<1> QED
  BY <1>1, <1>2, <1>3, <1>9, <1>10

LEMMA TodoAt ==
  ASSUME NEW q, NEW b, NEW n, QueueState(q, b, n), NEW l \in Loops
  PROVE  /\ TodoOf(q, b, n)[l] = SubSeq(b[l], n[l] + 1, Len(b[l])) \o q[l]
         /\ SubSeq(b[l], n[l] + 1, Len(b[l])) \in Seq(Functors)
         /\ TodoOf(q, b, n)[l] \in Seq(Functors)
<1>1. /\ q[l] \in Seq(Functors) /\ b[l] \in Seq(Functors)
      /\ n[l] \in Nat /\ n[l] <= Len(b[l])
  BY DEF QueueState
<1>2. SubSeq(b[l], n[l] + 1, Len(b[l])) \in Seq(Functors)
  BY <1>1, RestOfSeq
<1>3. TodoOf(q, b, n)[l] = SubSeq(b[l], n[l] + 1, Len(b[l])) \o q[l]
  BY DEF TodoOf
<1> QED
  BY <1>1, <1>2, <1>3, ConcatProperties

LEMMA TodoType ==
  ASSUME NEW q, NEW b, NEW n, QueueState(q, b, n)
  PROVE  TodoOf(q, b, n) \in [Loops -> Seq(Functors)]
<1>1. \A l \in Loops : TodoOf(q, b, n)[l] \in Seq(Functors)
  BY TodoAt
<1> QED
  BY <1>1 DEF TodoOf

LEMMA TodoIsFunction ==
  ASSUME NEW q, NEW b, NEW n
  PROVE  TodoOf(q, b, n) = [m \in Loops |-> TodoOf(q, b, n)[m]]
BY DEF TodoOf

(* Two functions that agree but at l. *)
LEMMA FunExcept ==
  ASSUME NEW F, NEW G, NEW l \in Loops, NEW s,
         F = [m \in Loops |-> F[m]], G = [m \in Loops |-> G[m]],
         F[l] = s, \A m \in Loops : m # l => F[m] = G[m]
  PROVE  F = [G EXCEPT ![l] = s]
OBVIOUS

LEMMA PushTodo ==
  ASSUME NEW q, NEW b, NEW n, QueueState(q, b, n),
         NEW l \in Loops, NEW f \in Funs, NEW c \in Conns
  PROVE  /\ QueueState(Push(q, l, f, c), b, n)
         /\ TodoOf(Push(q, l, f, c), b, n)
              = [TodoOf(q, b, n) EXCEPT ![l] = Append(@, Functor(f, c))]
<1> DEFINE x == Functor(f, c)
           p == Push(q, l, f, c)
<1>1. x \in Functors
  BY DEF Functor, Functors
<1>2. p = [q EXCEPT ![l] = Append(q[l], x)]
  BY DEF Push, QueueState
<1>3. q[l] \in Seq(Functors)
  BY DEF QueueState
<1>4. Append(q[l], x) \in Seq(Functors)
  BY <1>1, <1>3, AppendProperties
<1>5. QueueState(p, b, n)
  BY <1>2, <1>4 DEF QueueState
<1>6. p[l] = Append(q[l], x) /\ \A m \in Loops : m # l => p[m] = q[m]
  BY <1>2 DEF QueueState
<1> HIDE DEF x, p
<1>7. TodoOf(p, b, n)[l] = Append(TodoOf(q, b, n)[l], x)
  <2> DEFINE s == SubSeq(b[l], n[l] + 1, Len(b[l]))
  <2>1. s \in Seq(Functors) /\ TodoOf(q, b, n)[l] = s \o q[l]
    BY TodoAt
  <2>2. TodoOf(p, b, n)[l] = s \o p[l]
    BY <1>5, TodoAt
  <2> HIDE DEF s
  <2>3. s \o Append(q[l], x) = Append(s \o q[l], x)
    BY <1>1, <1>3, <2>1, AppendConcat
  <2> QED
    BY <1>6, <2>1, <2>2, <2>3
<1>8. \A m \in Loops : m # l => TodoOf(p, b, n)[m] = TodoOf(q, b, n)[m]
  BY <1>6 DEF TodoOf
<1>9. TodoOf(p, b, n) = [TodoOf(q, b, n) EXCEPT ![l] = Append(TodoOf(q, b, n)[l], x)]
  <2> DEFINE F == TodoOf(p, b, n)
             G == TodoOf(q, b, n)
  <2>1. F = [m \in Loops |-> F[m]] /\ G = [m \in Loops |-> G[m]]
    BY TodoIsFunction
  <2> HIDE DEF F, G
  <2>2. F[l] = Append(G[l], x) /\ \A m \in Loops : m # l => F[m] = G[m]
    BY <1>7, <1>8 DEF F, G
  <2>3. F = [G EXCEPT ![l] = Append(G[l], x)]
    BY <2>1, <2>2, FunExcept
  <2> QED
    BY <2>3 DEF F, G
<1> QED
  BY <1>5, <1>9 DEF x, p

LEMMA RunTodo ==
  ASSUME NEW q, NEW b, NEW n, QueueState(q, b, n), NEW l \in Loops, n[l] < Len(b[l])
  PROVE  /\ QueueState(q, b, [n EXCEPT ![l] = @ + 1])
         /\ TodoOf(q, b, n)[l] # <<>>
         /\ Head(TodoOf(q, b, n)[l]) = b[l][n[l] + 1]
         /\ TodoOf(q, b, [n EXCEPT ![l] = @ + 1])
              = [TodoOf(q, b, n) EXCEPT ![l] = Tail(@)]
<1> DEFINE p == [n EXCEPT ![l] = @ + 1]
           s == SubSeq(b[l], n[l] + 1, Len(b[l]))
<1>1. /\ q[l] \in Seq(Functors) /\ b[l] \in Seq(Functors)
      /\ n[l] \in Nat /\ n[l] <= Len(b[l])
  BY DEF QueueState
<1>2. p \in [Loops -> Nat] /\ p[l] = n[l] + 1 /\ \A m \in Loops : m # l => p[m] = n[m]
  BY <1>1 DEF QueueState
<1>3. Len(b[l]) \in Nat /\ n[l] + 1 <= Len(b[l])
  <2>1. Len(b[l]) \in Nat
    BY <1>1, LenProperties
  <2> QED
    BY <1>1, <2>1
<1> HIDE DEF p
<1>4. QueueState(q, b, p)
  BY <1>2, <1>3 DEF QueueState
<1>5. s \in Seq(Functors) /\ TodoOf(q, b, n)[l] = s \o q[l]
  BY TodoAt
<1>6. TodoOf(q, b, p)[l] = SubSeq(b[l], (n[l] + 1) + 1, Len(b[l])) \o q[l]
  <2>1. TodoOf(q, b, p)[l] = SubSeq(b[l], p[l] + 1, Len(b[l])) \o q[l]
    BY <1>4, TodoAt
  <2> QED
    BY <1>2, <2>1
<1>7. s # <<>> /\ Head(s) = b[l][n[l] + 1] /\ Tail(s) = SubSeq(b[l], (n[l] + 1) + 1, Len(b[l]))
  BY <1>1, RestOfSeq
<1> HIDE DEF s
<1>8. s \o q[l] # <<>> /\ Head(s \o q[l]) = Head(s) /\ Tail(s \o q[l]) = Tail(s) \o q[l]
  BY <1>1, <1>5, <1>7, TailConcat
<1>9. TodoOf(q, b, p)[l] = Tail(TodoOf(q, b, n)[l])
  BY <1>5, <1>6, <1>7, <1>8
<1>10. \A m \in Loops : m # l => TodoOf(q, b, p)[m] = TodoOf(q, b, n)[m]
  BY <1>2 DEF TodoOf
<1>11. TodoOf(q, b, p) = [TodoOf(q, b, n) EXCEPT ![l] = Tail(TodoOf(q, b, n)[l])]
  <2> DEFINE F == TodoOf(q, b, p)
             G == TodoOf(q, b, n)
  <2>1. F = [m \in Loops |-> F[m]] /\ G = [m \in Loops |-> G[m]]
    BY TodoIsFunction
  <2> HIDE DEF F, G
  <2>2. F[l] = Tail(G[l]) /\ \A m \in Loops : m # l => F[m] = G[m]
    BY <1>9, <1>10 DEF F, G
  <2>3. F = [G EXCEPT ![l] = Tail(G[l])]
    BY <2>1, <2>2, FunExcept
  <2> QED
    BY <2>3 DEF F, G
<1> QED
  BY <1>4, <1>5, <1>7, <1>8, <1>11 DEF p

LEMMA TakeTodo ==
  ASSUME NEW q, NEW b, NEW n, QueueState(q, b, n), NEW l \in Loops,
         b[l] = <<>>, n[l] = 0
  PROVE  /\ QueueState([q EXCEPT ![l] = <<>>], [b EXCEPT ![l] = q[l]], n)
         /\ TodoOf([q EXCEPT ![l] = <<>>], [b EXCEPT ![l] = q[l]], n) = TodoOf(q, b, n)
<1> DEFINE p == [q EXCEPT ![l] = <<>>]
           a == [b EXCEPT ![l] = q[l]]
<1>1. q[l] \in Seq(Functors) /\ b[l] \in Seq(Functors) /\ <<>> \in Seq(Functors)
  BY EmptySeq DEF QueueState
<1>2. /\ p[l] = <<>> /\ a[l] = q[l]
      /\ \A m \in Loops : m # l => p[m] = q[m] /\ a[m] = b[m]
      /\ p \in [Loops -> Seq(Functors)] /\ a \in [Loops -> Seq(Functors)]
  BY <1>1 DEF QueueState
<1>3. 0 <= Len(q[l])
  BY <1>1, LenProperties
<1> HIDE DEF p, a
<1>4. QueueState(p, a, n)
  BY <1>2, <1>3 DEF QueueState
<1>5. TodoOf(p, a, n)[l] = SubSeq(q[l], n[l] + 1, Len(q[l])) \o <<>>
  BY <1>2, <1>4, TodoAt
<1>6. SubSeq(q[l], n[l] + 1, Len(q[l])) = q[l]
  BY <1>1, <1>3, RestOfSeq
<1>7. q[l] \o <<>> = q[l] /\ <<>> \o q[l] = q[l]
  BY <1>1, ConcatEmptySeq
<1>8. TodoOf(q, b, n)[l] = SubSeq(b[l], n[l] + 1, Len(b[l])) \o q[l]
  BY TodoAt
<1>9. SubSeq(b[l], n[l] + 1, Len(b[l])) = <<>>
  <2>1. Len(b[l]) = 0
    BY <1>1, EmptySeq
  <2> QED
    BY <1>1, <2>1, RestOfSeq
<1>10. TodoOf(p, a, n)[l] = TodoOf(q, b, n)[l]
  BY <1>5, <1>6, <1>7, <1>8, <1>9
<1>11. \A m \in Loops : TodoOf(p, a, n)[m] = TodoOf(q, b, n)[m]
  BY <1>2, <1>10 DEF TodoOf
<1>12. TodoOf(p, a, n) = TodoOf(q, b, n)
  <2>1. /\ TodoOf(p, a, n) = [m \in Loops |-> TodoOf(p, a, n)[m]]
        /\ TodoOf(q, b, n) = [m \in Loops |-> TodoOf(q, b, n)[m]]
    BY DEF TodoOf
  <2> QED
    BY <1>11, <2>1
<1> QED
  BY <1>4, <1>12 DEF p, a

LEMMA DoneTodo ==
  ASSUME NEW q, NEW b, NEW n, QueueState(q, b, n), NEW l \in Loops, n[l] = Len(b[l])
  PROVE  /\ QueueState(q, [b EXCEPT ![l] = <<>>], [n EXCEPT ![l] = 0])
         /\ TodoOf(q, [b EXCEPT ![l] = <<>>], [n EXCEPT ![l] = 0]) = TodoOf(q, b, n)
<1> DEFINE a == [b EXCEPT ![l] = <<>>]
           p == [n EXCEPT ![l] = 0]
<1>1. /\ q[l] \in Seq(Functors) /\ b[l] \in Seq(Functors) /\ <<>> \in Seq(Functors)
      /\ n[l] \in Nat
  BY EmptySeq DEF QueueState
<1>2. /\ p[l] = 0 /\ a[l] = <<>>
      /\ \A m \in Loops : m # l => p[m] = n[m] /\ a[m] = b[m]
      /\ p \in [Loops -> Nat] /\ a \in [Loops -> Seq(Functors)]
  BY <1>1 DEF QueueState
<1>3. Len(<<>>) = 0
  BY EmptySeq
<1> HIDE DEF p, a
<1>4. QueueState(q, a, p)
  BY <1>2, <1>3 DEF QueueState
<1>5. TodoOf(q, a, p)[l] = SubSeq(<<>>, 0 + 1, 0) \o q[l]
  BY <1>2, <1>3, <1>4, TodoAt
<1>6. SubSeq(<<>>, 0 + 1, 0) = <<>>
  BY SubSeqEmpty
<1>7. SubSeq(b[l], n[l] + 1, Len(b[l])) = <<>>
  BY <1>1, RestOfSeq
<1>8. TodoOf(q, b, n)[l] = SubSeq(b[l], n[l] + 1, Len(b[l])) \o q[l]
  BY TodoAt
<1>9. TodoOf(q, a, p)[l] = TodoOf(q, b, n)[l]
  BY <1>5, <1>6, <1>7, <1>8
<1>10. \A m \in Loops : TodoOf(q, a, p)[m] = TodoOf(q, b, n)[m]
  BY <1>2, <1>9 DEF TodoOf
<1>11. TodoOf(q, a, p) = TodoOf(q, b, n)
  <2>1. /\ TodoOf(q, a, p) = [m \in Loops |-> TodoOf(q, a, p)[m]]
        /\ TodoOf(q, b, n) = [m \in Loops |-> TodoOf(q, b, n)[m]]
    BY DEF TodoOf
  <2> QED
    BY <1>10, <2>1
<1> QED
  BY <1>4, <1>11 DEF p, a

LEMMA FunctorsDiffer ==
  /\ \A f, c, g, d : Functor(f, c) = Functor(g, d) <=> f = g /\ c = d
  /\ \A f \in Funs, c \in Conns : Functor(f, c) \in Functors
  /\ \A x \in Functors : x = Functor(x.fun, x.conn) /\ x.fun \in Funs /\ x.conn \in Conns
<1>1. \A f, c, g, d : Functor(f, c) = Functor(g, d) => f = g /\ c = d
  <2> SUFFICES ASSUME NEW f, NEW c, NEW g, NEW d, Functor(f, c) = Functor(g, d)
               PROVE  f = g /\ c = d
    OBVIOUS
  <2>1. Functor(f, c).fun = Functor(g, d).fun /\ Functor(f, c).conn = Functor(g, d).conn
    OBVIOUS
  <2> QED
    BY <2>1 DEF Functor
<1>2. \A f \in Funs, c \in Conns : Functor(f, c) \in Functors
  BY DEF Functor, Functors
<1>3. \A x \in Functors : x = Functor(x.fun, x.conn) /\ x.fun \in Funs /\ x.conn \in Conns
  BY DEF Functor, Functors
<1> QED
  BY <1>1, <1>2, <1>3

(* U is T with x queued, and T without its first functor x of some loop:   *)
(* what is to be run, what is to be run once, and what is behind what.     *)
Appended(T, U, x) ==
  /\ \A y : Has(U, y) <=> Has(T, y) \/ y = x
  /\ \A y : Once(T, y) /\ (y = x => ~Has(T, x)) => Once(U, y)
  /\ \A y, z : Behind(U, z, y) => Behind(T, z, y) \/ (z = x /\ Has(T, y))

Dropped(T, U, x) ==
  /\ Has(T, x)
  /\ \A y : Has(U, y) => Has(T, y)
  /\ \A y : Has(T, y) /\ y # x => Has(U, y)
  /\ \A y : Once(T, y) => Once(U, y)
  /\ Once(T, x) => ~Has(U, x)
  /\ \A y, z : Behind(U, z, y) => Behind(T, z, y)

Todos == [Loops -> Seq(Functors)]

WithOneMore(T, U, l, x) == U = [T EXCEPT ![l] = Append(@, x)]

LEMMA AppendTodo ==
  ASSUME NEW T \in Todos, NEW l \in Loops, NEW x \in Functors, NEW U,
         WithOneMore(T, U, l, x)
  PROVE  /\ U \in Todos /\ Appended(T, U, x)
         /\ \A m \in Loops : \A y : Holds(U, m, y) => Holds(T, m, y) \/ (m = l /\ y = x)
<1>1. /\ T[l] \in Seq(Functors) /\ Len(T[l]) \in Nat
      /\ U[l] = Append(T[l], x) /\ \A m \in Loops : m # l => U[m] = T[m]
  BY LenProperties DEF Todos, WithOneMore
<1>2. /\ U[l] \in Seq(Functors)
      /\ Len(U[l]) = Len(T[l]) + 1
      /\ \A i \in 1 .. Len(T[l]) : U[l][i] = T[l][i]
      /\ U[l][Len(T[l]) + 1] = x
  BY <1>1, AppendProperties
<1>3. U \in Todos
  BY <1>2 DEF Todos, WithOneMore
<1>4. \A m \in Loops : Len(T[m]) \in Nat /\ Len(U[m]) \in Nat
  BY <1>1, <1>2, <1>3, LenProperties DEF Todos
(* A place of U is one of T, or the new one. *)
<1>5. ASSUME NEW m \in Loops, NEW i \in 1 .. Len(U[m])
      PROVE  \/ i \in 1 .. Len(T[m]) /\ U[m][i] = T[m][i]
             \/ m = l /\ i = Len(T[l]) + 1 /\ U[m][i] = x
  BY <1>1, <1>2, <1>4
<1>6. ASSUME NEW m \in Loops, NEW i \in 1 .. Len(T[m])
      PROVE  i \in 1 .. Len(U[m]) /\ U[m][i] = T[m][i] /\ (m = l => i # Len(T[l]) + 1)
  BY <1>1, <1>2, <1>4
<1>7. Len(T[l]) + 1 \in 1 .. Len(U[l])
  BY <1>1, <1>2
<1>8. \A y : Has(U, y) <=> Has(T, y) \/ y = x
  <2>1. ASSUME NEW y, Has(U, y) PROVE Has(T, y) \/ y = x
    <3>1. PICK m \in Loops : \E i \in 1 .. Len(U[m]) : U[m][i] = y
      BY <2>1 DEF Has
    <3>2. PICK i \in 1 .. Len(U[m]) : U[m][i] = y
      BY <3>1
    <3> QED
      BY <1>5, <3>2 DEF Has
  <2>2. ASSUME NEW y, Has(T, y) PROVE Has(U, y)
    <3>1. PICK m \in Loops : \E i \in 1 .. Len(T[m]) : T[m][i] = y
      BY <2>2 DEF Has
    <3>2. PICK i \in 1 .. Len(T[m]) : T[m][i] = y
      BY <3>1
    <3> QED
      BY <1>6, <3>2 DEF Has
  <2>3. Has(U, x)
    BY <1>2, <1>7 DEF Has
  <2> QED
    BY <2>1, <2>2, <2>3
<1>9. ASSUME NEW y, Once(T, y), y = x => ~Has(T, x)
      PROVE  Once(U, y)
  <2> SUFFICES ASSUME NEW m \in Loops, NEW n \in Loops,
                      NEW i \in 1 .. Len(U[m]), NEW j \in 1 .. Len(U[n]),
                      U[m][i] = y, U[n][j] = y
               PROVE  m = n /\ i = j
    BY DEF Once
  <2>1. CASE y = x
    <3>1. ~(i \in 1 .. Len(T[m]) /\ U[m][i] = T[m][i]) /\ ~(j \in 1 .. Len(T[n]) /\ U[n][j] = T[n][j])
      BY <1>9, <2>1 DEF Has
    <3> QED
      BY <1>5, <3>1
  <2>2. CASE y # x
    <3>1. i \in 1 .. Len(T[m]) /\ T[m][i] = y /\ j \in 1 .. Len(T[n]) /\ T[n][j] = y
      BY <1>5, <2>2
    <3> QED
      BY <1>9, <3>1 DEF Once
  <2> QED
    BY <2>1, <2>2
<1>10. ASSUME NEW y, NEW z, Behind(U, z, y)
       PROVE  Behind(T, z, y) \/ (z = x /\ Has(T, y))
  <2>1. PICK m \in Loops : \E i, j \in 1 .. Len(U[m]) : i < j /\ U[m][i] = y /\ U[m][j] = z
    BY <1>10 DEF Behind
  <2>2. PICK i \in 1 .. Len(U[m]), j \in 1 .. Len(U[m]) :
               i < j /\ U[m][i] = y /\ U[m][j] = z
    BY <2>1
  <2>3. i \in 1 .. Len(T[m]) /\ U[m][i] = T[m][i]
    <3>1. m = l => i # Len(T[l]) + 1
      BY <1>1, <1>2, <2>2
    <3> QED
      BY <1>5, <3>1
  <2>4. CASE j \in 1 .. Len(T[m]) /\ U[m][j] = T[m][j]
    BY <2>2, <2>3, <2>4 DEF Behind
  <2>5. CASE U[m][j] = x
    BY <2>2, <2>3, <2>5 DEF Has
  <2> QED
    BY <1>5, <2>4, <2>5
<1>11. \A m \in Loops : \A y : Holds(U, m, y) => Holds(T, m, y) \/ (m = l /\ y = x)
  BY <1>5 DEF Holds
<1> QED
  BY <1>3, <1>8, <1>9, <1>10, <1>11 DEF Appended

WithoutFirst(T, U, l, x) ==
  /\ \A m \in Loops : Len(T[m]) \in Nat /\ Len(U[m]) \in Nat
  /\ Len(T[l]) = Len(U[l]) + 1 /\ T[l][1] = x
  /\ \A i \in 1 .. Len(U[l]) : U[l][i] = T[l][i + 1]
  /\ \A m \in Loops : m # l => U[m] = T[m]

LEMMA DropPlaces ==
  ASSUME NEW T, NEW U, NEW l \in Loops, NEW x, WithoutFirst(T, U, l, x)
  PROVE  /\ Dropped(T, U, x)
         /\ \A m \in Loops : \A y : Holds(U, m, y) => Holds(T, m, y)
         /\ \A z : Holds(U, l, z) => Behind(T, z, x)
<1>1. T[l][1] = x /\ 1 \in 1 .. Len(T[l])
  BY DEF WithoutFirst
<1> DEFINE At(m, i) == IF m = l THEN i + 1 ELSE i
<1>2. ASSUME NEW m \in Loops, NEW i \in 1 .. Len(U[m])
      PROVE  /\ At(m, i) \in 1 .. Len(T[m])
             /\ U[m][i] = T[m][At(m, i)]
             /\ m = l => 1 < At(m, i)
             /\ \A j \in 1 .. Len(U[m]) : (At(m, i) = At(m, j) => i = j) /\ (i < j => At(m, i) < At(m, j))
  BY DEF WithoutFirst
<1>3. ASSUME NEW m \in Loops, NEW i \in 1 .. Len(T[m]), m # l \/ i # 1
      PROVE  \E j \in 1 .. Len(U[m]) : U[m][j] = T[m][i]
  <2>1. CASE m # l
    BY <2>1 DEF WithoutFirst
  <2>2. CASE m = l
    <3>1. i - 1 \in 1 .. Len(U[m]) /\ (i - 1) + 1 = i
      BY <1>3, <2>2 DEF WithoutFirst
    <3> QED
      BY <2>2, <3>1 DEF WithoutFirst
  <2> QED
    BY <2>1, <2>2
<1> HIDE DEF At
<1>4. Has(T, x)
  BY <1>1 DEF Has
<1>5. ASSUME NEW y, Has(U, y)
      PROVE  Has(T, y)
  <2>1. PICK m \in Loops : \E i \in 1 .. Len(U[m]) : U[m][i] = y
    BY <1>5 DEF Has
  <2>2. PICK i \in 1 .. Len(U[m]) : U[m][i] = y
    BY <2>1
  <2>3. At(m, i) \in 1 .. Len(T[m]) /\ T[m][At(m, i)] = y
    BY <1>2, <2>2
  <2> QED
    BY <2>3 DEF Has
<1>6. ASSUME NEW y, Has(T, y), y # x
       PROVE  Has(U, y)
  <2>1. PICK m \in Loops : \E i \in 1 .. Len(T[m]) : T[m][i] = y
    BY <1>6 DEF Has
  <2>2. PICK i \in 1 .. Len(T[m]) : T[m][i] = y
    BY <2>1
  <2>3. m # l \/ i # 1
    BY <1>1, <1>6, <2>2
  <2>4. \E j \in 1 .. Len(U[m]) : U[m][j] = y
    BY <1>3, <2>2, <2>3
  <2> QED
    BY <2>4 DEF Has
<1>7. ASSUME NEW y, Once(T, y)
       PROVE  Once(U, y)
  <2>1. ASSUME NEW m \in Loops, NEW k \in Loops,
               NEW i \in 1 .. Len(U[m]), NEW j \in 1 .. Len(U[k]),
               U[m][i] = y, U[k][j] = y
        PROVE  m = k /\ i = j
    <3>1. /\ At(m, i) \in 1 .. Len(T[m]) /\ T[m][At(m, i)] = y
          /\ At(k, j) \in 1 .. Len(T[k]) /\ T[k][At(k, j)] = y
      BY <1>2, <2>1
    <3>2. m = k /\ At(m, i) = At(k, j)
      BY <1>7, <3>1 DEF Once
    <3> QED
      BY <1>2, <3>2
  <2>2. \A m, k \in Loops : \A i \in 1 .. Len(U[m]), j \in 1 .. Len(U[k]) :
          U[m][i] = y /\ U[k][j] = y => m = k /\ i = j
    BY <2>1
  <2> QED
    BY <2>2, Zenon DEF Once
<1>8. ASSUME Once(T, x), Has(U, x)
       PROVE  FALSE
  <2>1. PICK m \in Loops : \E i \in 1 .. Len(U[m]) : U[m][i] = x
    BY <1>8 DEF Has
  <2>2. PICK i \in 1 .. Len(U[m]) : U[m][i] = x
    BY <2>1
  <2>3. At(m, i) \in 1 .. Len(T[m]) /\ T[m][At(m, i)] = x /\ (m = l => 1 < At(m, i))
    BY <1>2, <2>2
  <2>4. m = l /\ At(m, i) = 1
    BY <1>1, <1>8, <2>3 DEF Once
  <2> QED
    BY <2>3, <2>4
<1>9. ASSUME NEW y, NEW z, Behind(U, z, y)
       PROVE  Behind(T, z, y)
  <2>1. PICK m \in Loops : \E i, j \in 1 .. Len(U[m]) : i < j /\ U[m][i] = y /\ U[m][j] = z
    BY <1>9 DEF Behind
  <2>2. PICK i \in 1 .. Len(U[m]), j \in 1 .. Len(U[m]) :
               i < j /\ U[m][i] = y /\ U[m][j] = z
    BY <2>1
  <2>3. At(m, i) < At(m, j) /\ T[m][At(m, i)] = y /\ T[m][At(m, j)] = z
    BY <1>2, <2>2
  <2> QED
    BY <1>2, <2>3 DEF Behind
<1>10. ASSUME NEW z, NEW i \in 1 .. Len(U[l]), U[l][i] = z
       PROVE  Behind(T, z, x)
  <2>1. 1 < At(l, i) /\ At(l, i) \in 1 .. Len(T[l]) /\ T[l][At(l, i)] = z
    BY <1>2, <1>10
  <2> QED
    BY <1>1, <2>1 DEF Behind
<1>11. Dropped(T, U, x)
  BY <1>4, <1>5, <1>6, <1>7, <1>8, <1>9 DEF Dropped
<1>12. ASSUME NEW m \in Loops, NEW y, Holds(U, m, y)
       PROVE  Holds(T, m, y)
  <2>1. PICK i \in 1 .. Len(U[m]) : U[m][i] = y
    BY <1>12 DEF Holds
  <2>2. At(m, i) \in 1 .. Len(T[m]) /\ T[m][At(m, i)] = y
    BY <1>2, <2>1
  <2> QED
    BY <2>2 DEF Holds
<1> QED
  BY <1>10, <1>11, <1>12 DEF Holds

LEMMA TailTodo ==
  ASSUME NEW T \in Todos, NEW l \in Loops, T[l] # <<>>, NEW U,
         U = [T EXCEPT ![l] = Tail(@)]
  PROVE  /\ U \in Todos
         /\ Head(T[l]) \in Functors
         /\ Dropped(T, U, Head(T[l]))
         /\ \A m \in Loops : \A y : Holds(U, m, y) => Holds(T, m, y)
         /\ \A z : Holds(U, l, z) => Behind(T, z, Head(T[l]))
<1> DEFINE x == Head(T[l])
<1>1. /\ T[l] \in Seq(Functors) /\ Len(T[l]) \in Nat /\ Len(T[l]) > 0
      /\ U[l] = Tail(T[l]) /\ \A m \in Loops : m # l => U[m] = T[m]
  BY LenProperties, EmptySeq DEF Todos
<1>2. /\ U[l] \in Seq(Functors)
      /\ Len(U[l]) = Len(T[l]) - 1
      /\ \A i \in 1 .. Len(U[l]) : U[l][i] = T[l][i + 1]
      /\ x \in Functors
  <2>1. /\ Tail(T[l]) \in Seq(Functors)
        /\ Len(Tail(T[l])) = Len(T[l]) - 1
        /\ \A i \in 1 .. Len(Tail(T[l])) : Tail(T[l])[i] = T[l][i + 1]
        /\ Head(T[l]) \in Functors
    <3> DEFINE s == T[l]
    <3>1. s \in Seq(Functors) /\ s # <<>>
      BY <1>1
    <3> HIDE DEF s
    <3>2. /\ Tail(s) \in Seq(Functors)
          /\ Len(Tail(s)) = Len(s) - 1
          /\ \A i \in 1 .. Len(Tail(s)) : Tail(s)[i] = s[i + 1]
          /\ Head(s) \in Functors
      BY <3>1, HeadTailProperties
    <3> QED
      BY <3>2 DEF s
  <2> QED
    BY <1>1, <2>1
<1>3. x = T[l][1] /\ 1 \in 1 .. Len(T[l])
  BY <1>1
<1>4. U \in Todos
  BY <1>2 DEF Todos
<1>5. \A m \in Loops : Len(T[m]) \in Nat /\ Len(U[m]) \in Nat
  BY <1>1, <1>2, <1>4, LenProperties DEF Todos
<1> HIDE DEF x
<1>6. Len(T[l]) = Len(U[l]) + 1
  BY <1>1, <1>2
<1>7. /\ Dropped(T, U, x)
      /\ \A m \in Loops : \A y : Holds(U, m, y) => Holds(T, m, y)
      /\ \A z : Holds(U, l, z) => Behind(T, z, x)
  <2>1. WithoutFirst(T, U, l, x)
    BY <1>1, <1>2, <1>3, <1>5, <1>6 DEF WithoutFirst
  <2> QED
    BY <2>1, DropPlaces
<1> QED
  BY <1>2, <1>4, <1>7 DEF x

----------------------------------------------------------------------------
(* The life of a connection depends on its own functors only.              *)

SameBut(T, U, c) ==
  \A d \in Conns \ {c} : \A f \in Funs :
    /\ Has(U, Functor(f, d)) <=> Has(T, Functor(f, d))
    /\ Once(T, Functor(f, d)) => Once(U, Functor(f, d))
    /\ \A g \in Funs :
         Behind(U, Functor(f, d), Functor(g, d)) => Behind(T, Functor(f, d), Functor(g, d))

LEMMA SameButItself ==
  ASSUME NEW T, NEW c
  PROVE  SameBut(T, T, c)
BY DEF SameBut

LEMMA SameButTrans ==
  ASSUME NEW T, NEW U, NEW V, NEW c, SameBut(T, U, c), SameBut(U, V, c)
  PROVE  SameBut(T, V, c)
BY DEF SameBut

LEMMA AppendSame ==
  ASSUME NEW T, NEW U, NEW f, NEW c, Appended(T, U, Functor(f, c))
  PROVE  SameBut(T, U, c)
BY FunctorsDiffer DEF SameBut, Appended

LEMMA DropSame ==
  ASSUME NEW T, NEW U, NEW f, NEW c, Dropped(T, U, Functor(f, c))
  PROVE  SameBut(T, U, c)
BY FunctorsDiffer DEF SameBut, Dropped

LEMMA StageFrame ==
  ASSUME NEW T, NEW U, NEW c, SameBut(T, U, c), NEW d \in Conns, d # c,
         NEW S, NEW R, d \in S <=> d \in R, NEW r, NEW u, Stage(T, S, r, u, d)
  PROVE  Stage(U, R, r, u, d)
<1>1. \A f \in Funs : /\ Has(U, Functor(f, d)) <=> Has(T, Functor(f, d))
                      /\ Once(T, Functor(f, d)) => Once(U, Functor(f, d))
  BY DEF SameBut
<1>2. "connectEstablished" \in Funs /\ "connectDestroyed" \in Funs
  BY DEF Funs, HoldsPtr
<1> QED
  BY <1>1, <1>2 DEF Stage

LEMMA FreshFrame ==
  ASSUME NEW T, NEW U, NEW c, SameBut(T, U, c), NEW d \in Conns, d # c,
         NEW S, NEW R, d \in S <=> d \in R, NEW r, Fresh(T, S, r, d)
  PROVE  Fresh(U, R, r, d)
<1>1. \A f \in Funs :
        /\ Has(U, Functor(f, d)) <=> Has(T, Functor(f, d))
        /\ Once(T, Functor(f, d)) => Once(U, Functor(f, d))
        /\ \A g \in Funs :
             Behind(U, Functor(f, d), Functor(g, d)) => Behind(T, Functor(f, d), Functor(g, d))
  BY DEF SameBut
<1>2. /\ "removeConnectionInLoop" \in Funs /\ "connectDestroyed" \in Funs
      /\ \A f \in Raw : f \in Funs
  BY DEF Funs, HoldsPtr
<1> QED
  BY <1>1, <1>2 DEF Fresh

(* A step of one connection c. *)
LEMMA OneLife ==
  ASSUME Lives, NEW c \in Conns, SameBut(Todo, Todo', c),
         \A d \in Conns \ {c} : /\ conn'[d] = conn[d] /\ user'[d] = user[d]
                                /\ d \in m_connectionsSet' <=> d \in m_connectionsSet,
         ~stale' => ~stale,
         Stage(Todo', m_connectionsSet', conn'[c], user'[c], c),
         ~stale' => Fresh(Todo', m_connectionsSet', conn'[c], c)
  PROVE  Lives'
<1> DEFINE T == Todo
           U == Todo'
<1> HIDE DEF T, U
<1>1. ASSUME NEW d \in Conns, d # c
      PROVE  /\ Stage(U, m_connectionsSet', conn'[d], user'[d], d)
             /\ ~stale' => Fresh(U, m_connectionsSet', conn'[d], d)
  <2>1. /\ Stage(T, m_connectionsSet, conn[d], user[d], d)
        /\ ~stale => Fresh(T, m_connectionsSet, conn[d], d)
    BY DEF Lives, T
  <2>2. SameBut(T, U, c)
    BY DEF T, U
  <2>3. Stage(U, m_connectionsSet', conn[d], user[d], d)
    BY <1>1, <2>1, <2>2, StageFrame
  <2>4. ~stale' => Fresh(U, m_connectionsSet', conn[d], d)
    BY <1>1, <2>1, <2>2, FreshFrame
  <2> QED
    BY <1>1, <2>3, <2>4
<1> QED
  BY <1>1 DEF Lives, U

----------------------------------------------------------------------------
(* What the steps do to the life of a connection. *)

(* A connection that is established changes, and stays so. *)
StaysUp(r, s) ==
  /\ r.state \in Up /\ s.state \in Up
  /\ s.established = r.established /\ s.destroyed = r.destroyed /\ s.epoll = r.epoll

LEMMA UpStage ==
  ASSUME NEW T, NEW S, NEW r, NEW s, NEW u, NEW v, NEW c, StaysUp(r, s), Stage(T, S, r, u, c)
  PROVE  Stage(T, S, s, v, c)
BY DEF StaysUp, Stage, Up

LEMMA UpFresh ==
  ASSUME NEW T, NEW S, NEW r, NEW s, NEW c, StaysUp(r, s), Fresh(T, S, r, c),
         r.state = "kDisConnected" => s.state = "kDisConnected",
         s.state = "kDisConnected" => s.events = {}
  PROVE  Fresh(T, S, s, c)
BY DEF StaysUp, Fresh, Up

(* Functors that are not part of the chain are queued and run. *)
LEMMA DropStage ==
  ASSUME NEW T, NEW U, NEW S, NEW r, NEW u, NEW c, NEW f \in Funs,
         f \notin {"connectEstablished", "connectDestroyed"}, r.state \in States,
         Dropped(T, U, Functor(f, c)), Stage(T, S, r, u, c)
  PROVE  Stage(U, S, r, u, c) /\ r.state \in Up
<1>1. Has(T, Functor(f, c))
  BY DEF Dropped
<1>2. r.state \in Up
  BY <1>1 DEF Stage, States, Up
<1>3. \A g \in {"connectEstablished", "connectDestroyed"} :
        /\ Has(U, Functor(g, c)) <=> Has(T, Functor(g, c))
        /\ Once(T, Functor(g, c)) => Once(U, Functor(g, c))
  BY FunctorsDiffer DEF Dropped
<1> QED
  BY <1>2, <1>3 DEF Stage, Up

LEMMA DropFresh ==
  ASSUME NEW T, NEW U, NEW S, NEW r, NEW c, NEW x, Dropped(T, U, x), Fresh(T, S, r, c)
  PROVE  Fresh(U, S, r, c)
BY DEF Dropped, Fresh

LEMMA AppendStage ==
  ASSUME NEW T, NEW U, NEW S, NEW r, NEW u, NEW c, NEW f,
         f \notin {"connectEstablished", "connectDestroyed"}, r.state \in Up,
         Appended(T, U, Functor(f, c)), Stage(T, S, r, u, c)
  PROVE  Stage(U, S, r, u, c)
<1>1. \A g \in {"connectEstablished", "connectDestroyed"} :
        /\ Has(U, Functor(g, c)) <=> Has(T, Functor(g, c))
        /\ Once(T, Functor(g, c)) => Once(U, Functor(g, c))
  BY FunctorsDiffer DEF Appended
<1> QED
  BY <1>1 DEF Stage, Up

(* Something is queued for a connection that has not been closed. *)
LEMMA AppendFresh ==
  ASSUME NEW T, NEW U, NEW S, NEW r, NEW u, NEW c, NEW f \in Raw \cup {"forceCloseInLoop"},
         r.state \in Up, r.state # "kDisConnected",
         Appended(T, U, Functor(f, c)), Stage(T, S, r, u, c), Fresh(T, S, r, c)
  PROVE  Fresh(U, S, r, c)
<1>1. c \in S /\ ~Has(T, Functor("removeConnectionInLoop", c))
  BY DEF Fresh
<1>2. r.destroyed # 1 /\ ~Has(T, Functor("connectDestroyed", c))
  BY <1>1 DEF Stage
<1>3. f # "removeConnectionInLoop"
  BY DEF Raw
<1>4. /\ ~Has(U, Functor("removeConnectionInLoop", c))
      /\ Once(T, Functor("removeConnectionInLoop", c)) => Once(U, Functor("removeConnectionInLoop", c))
  BY <1>1, <1>3, FunctorsDiffer DEF Appended
<1>5. \A g \in Raw : Behind(U, Functor(g, c), Functor("connectDestroyed", c))
                       => Behind(T, Functor(g, c), Functor("connectDestroyed", c))
  BY <1>2 DEF Appended
<1> QED
  BY <1>1, <1>2, <1>4, <1>5 DEF Fresh

(* The chain itself.  A connection is accepted, by the base loop for       *)
(* itself or for another loop.                                             *)
LEMMA AcceptHere ==
  ASSUME NEW T, NEW S, NEW r, NEW u, NEW v, NEW c, NEW s,
         r.state = "none", Stage(T, S, r, u, c),
         s.state = "kConnected", s.established = 1, s.destroyed = 0, s.epoll = "added"
  PROVE  Stage(T, S \cup {c}, s, v, c) /\ (Fresh(T, S, r, c) => Fresh(T, S \cup {c}, s, c))
<1>1. \A f \in Funs : ~Has(T, Functor(f, c))
  BY DEF Stage
<1>2. /\ ~Has(T, Functor("connectEstablished", c)) /\ ~Has(T, Functor("connectDestroyed", c))
      /\ ~Has(T, Functor("removeConnectionInLoop", c))
  BY <1>1 DEF Funs, HoldsPtr
<1>3. Once(T, Functor("connectEstablished", c)) /\ Once(T, Functor("connectDestroyed", c))
  BY DEF Stage
<1>4. Stage(T, S \cup {c}, s, v, c)
  BY <1>2, <1>3 DEF Stage
<1>5. Fresh(T, S, r, c) => Fresh(T, S \cup {c}, s, c)
  BY <1>2 DEF Fresh
<1> QED
  BY <1>4, <1>5

LEMMA AcceptThere ==
  ASSUME NEW T, NEW U, NEW S, NEW r, NEW u, NEW c, NEW s,
         r.state = "none", Stage(T, S, r, u, c),
         s.state = "kConnecting", s.established = 0, s.destroyed = 0, s.epoll = "new",
         Appended(T, U, Functor("connectEstablished", c))
  PROVE  Stage(U, S \cup {c}, s, u, c) /\ (Fresh(T, S, r, c) => Fresh(U, S \cup {c}, s, c))
<1>1. \A f \in Funs : ~Has(T, Functor(f, c))
  BY DEF Stage
<1>2. "connectEstablished" \in Funs /\ "connectDestroyed" \in Funs /\ "removeConnectionInLoop" \in Funs
  BY DEF Funs, HoldsPtr
<1>3. \A f \in Funs : Has(U, Functor(f, c)) <=> f = "connectEstablished"
  BY <1>1, <1>2, FunctorsDiffer DEF Appended
<1>4. Once(T, Functor("connectEstablished", c)) /\ Once(T, Functor("connectDestroyed", c)) /\ u = "none"
  BY DEF Stage
<1>5. Once(U, Functor("connectEstablished", c)) /\ Once(U, Functor("connectDestroyed", c))
  BY <1>1, <1>2, <1>4, FunctorsDiffer DEF Appended
<1>6. Stage(U, S \cup {c}, s, u, c)
  BY <1>3, <1>4, <1>5 DEF Stage, Up
<1>7. ASSUME Fresh(T, S, r, c)
      PROVE  Fresh(U, S \cup {c}, s, c)
  <2>1. ~Has(U, Functor("removeConnectionInLoop", c))
    BY <1>2, <1>3
  <2>2. Once(U, Functor("removeConnectionInLoop", c))
    BY <1>1, <1>2, <1>7, FunctorsDiffer DEF Fresh, Appended
  <2>3. \A f \in Raw : Behind(U, Functor(f, c), Functor("connectDestroyed", c))
                         => Behind(T, Functor(f, c), Functor("connectDestroyed", c))
    BY <1>1, <1>2 DEF Appended
  <2> QED
    BY <1>7, <2>1, <2>2, <2>3 DEF Fresh, Up
<1> QED
  BY <1>6, <1>7

(* connectEstablished runs. *)
LEMMA EstablishLife ==
  ASSUME NEW T, NEW U, NEW S, NEW r, NEW u, NEW v, NEW c, NEW s, r.state \in States,
         Dropped(T, U, Functor("connectEstablished", c)), Stage(T, S, r, u, c),
         s.state = "kConnected", s.established = r.established + 1,
         s.destroyed = r.destroyed, s.epoll = IF r.epoll = "deleted" THEN r.epoll ELSE "added"
  PROVE  /\ r.state = "kConnecting" /\ r.established = 0 /\ r.destroyed = 0 /\ r.epoll = "new"
         /\ Stage(U, S, s, v, c)
         /\ Fresh(T, S, r, c) => Fresh(U, S, s, c)
<1>1. Has(T, Functor("connectEstablished", c)) /\ "connectEstablished" \in Funs
  BY DEF Dropped, Funs, HoldsPtr
<1>2. r.state = "kConnecting"
  BY <1>1 DEF Stage, States, Up
<1>3. /\ c \in S /\ r.established = 0 /\ r.destroyed = 0 /\ r.epoll = "new"
      /\ \A f \in Funs : Has(T, Functor(f, c)) <=> f = "connectEstablished"
      /\ Once(T, Functor("connectEstablished", c)) /\ Once(T, Functor("connectDestroyed", c))
  BY <1>2 DEF Stage
<1>4. ~Has(U, Functor("connectEstablished", c)) /\ ~Has(U, Functor("connectDestroyed", c))
  <2>1. ~Has(T, Functor("connectDestroyed", c))
    BY <1>3 DEF Funs, HoldsPtr
  <2> QED
    BY <1>3, <2>1 DEF Dropped
<1>5. Once(U, Functor("connectEstablished", c)) /\ Once(U, Functor("connectDestroyed", c))
  BY <1>3 DEF Dropped
<1>6. Stage(U, S, s, v, c)
  <2>1. s.established = 1 /\ s.destroyed = 0 /\ s.epoll = "added"
    BY <1>3
  <2> QED
    BY <1>3, <1>4, <1>5, <2>1 DEF Stage
<1>7. ASSUME Fresh(T, S, r, c)
      PROVE  Fresh(U, S, s, c)
  <2>1. Fresh(U, S, r, c)
    BY <1>7, DropFresh
  <2>2. ~Has(T, Functor("removeConnectionInLoop", c))
    BY <1>3 DEF Funs, HoldsPtr
  <2>3. ~Has(U, Functor("removeConnectionInLoop", c))
    BY <2>2 DEF Dropped
  <2> QED
    BY <1>3, <2>1, <2>3 DEF Fresh
<1> QED
  BY <1>2, <1>3, <1>6, <1>7

(* The connection is closed: removeConnectionInLoop is queued for the base *)
(* loop; it runs, or is called at once, and queues connectDestroyed.       *)
LEMMA QueueRemoval ==
  ASSUME NEW T, NEW U, NEW S, NEW s, NEW c,
         Appended(T, U, Functor("removeConnectionInLoop", c)),
         s.state = "kDisConnected", c \in S, ~Has(T, Functor("removeConnectionInLoop", c)),
         Fresh(T, S, s, c)
  PROVE  Fresh(U, S, s, c)
<1>1. Once(U, Functor("removeConnectionInLoop", c))
  BY DEF Fresh, Appended
<1>2. \A f \in Raw : Functor(f, c) # Functor("removeConnectionInLoop", c)
  BY FunctorsDiffer DEF Raw
<1>3. \A f \in Raw : /\ Has(U, Functor(f, c)) => Has(T, Functor(f, c))
                     /\ Behind(U, Functor(f, c), Functor("connectDestroyed", c))
                          => Behind(T, Functor(f, c), Functor("connectDestroyed", c))
  BY <1>2 DEF Appended
<1> QED
  BY <1>1, <1>3 DEF Fresh

LEMMA RemovalStage ==
  ASSUME NEW T, NEW U, NEW S, NEW r, NEW u, NEW c,
         Appended(T, U, Functor("connectDestroyed", c)),
         r.state \in Up, c \in S, Stage(T, S, r, u, c)
  PROVE  Stage(U, S \ {c}, r, u, c)
<1>1. /\ r.established = 1 /\ r.destroyed = 0 /\ r.epoll = "added"
      /\ ~Has(T, Functor("connectEstablished", c)) /\ ~Has(T, Functor("connectDestroyed", c))
      /\ Once(T, Functor("connectEstablished", c)) /\ Once(T, Functor("connectDestroyed", c))
  BY DEF Stage
<1>2. Functor("connectEstablished", c) # Functor("connectDestroyed", c)
  BY FunctorsDiffer
<1>3. /\ Has(U, Functor("connectDestroyed", c)) /\ ~Has(U, Functor("connectEstablished", c))
      /\ Once(U, Functor("connectEstablished", c)) /\ Once(U, Functor("connectDestroyed", c))
  BY <1>1, <1>2 DEF Appended
<1> QED
  BY <1>1, <1>3 DEF Stage, Up

LEMMA RemovalFresh ==
  ASSUME NEW T, NEW U, NEW S, NEW r, NEW u, NEW c,
         Appended(T, U, Functor("connectDestroyed", c)),
         r.state = "kDisConnected", c \in S, Stage(T, S, r, u, c), Fresh(T, S, r, c),
         ~Has(T, Functor("removeConnectionInLoop", c))
  PROVE  Fresh(U, S \ {c}, r, c)
<1>1. r.destroyed = 0 /\ Once(T, Functor("removeConnectionInLoop", c))
  BY DEF Stage, Fresh, Up
<1>2. \A f \in Raw \cup {"removeConnectionInLoop"} : Functor(f, c) # Functor("connectDestroyed", c)
  BY FunctorsDiffer DEF Raw
<1>3. /\ ~Has(U, Functor("removeConnectionInLoop", c))
      /\ Once(U, Functor("removeConnectionInLoop", c))
      /\ \A f \in Raw : Behind(U, Functor(f, c), Functor("connectDestroyed", c))
                          => Behind(T, Functor(f, c), Functor("connectDestroyed", c))
  BY <1>1, <1>2 DEF Appended
<1> QED
  BY <1>1, <1>3 DEF Fresh

(* connectDestroyed runs. *)
LEMMA DestroyLife ==
  ASSUME NEW T, NEW U, NEW S, NEW r, NEW u, NEW v, NEW c, NEW s, r.state \in States,
         Dropped(T, U, Functor("connectDestroyed", c)), Stage(T, S, r, u, c),
         s.state \in Up, s.established = r.established, s.destroyed = r.destroyed + 1,
         s.epoll = "deleted"
  PROVE  /\ r.state \in Up /\ r.established = 1 /\ r.destroyed = 0 /\ r.epoll = "added" /\ c \notin S
         /\ Stage(U, S, s, v, c)
         /\ (/\ Fresh(T, S, r, c)
             /\ r.state = "kDisConnected" => s.state = "kDisConnected" /\ s.events = r.events
             /\ \A f \in Raw : ~Has(U, Functor(f, c)))
            => Fresh(U, S, s, c)
<1>1. Has(T, Functor("connectDestroyed", c)) /\ "connectDestroyed" \in Funs
  BY DEF Dropped, Funs, HoldsPtr
<1>2. r.state \in Up
  BY <1>1 DEF Stage, States, Up
<1>3. /\ c \notin S /\ r.established = 1 /\ r.destroyed = 0 /\ r.epoll = "added"
      /\ ~Has(T, Functor("connectEstablished", c))
      /\ Once(T, Functor("connectEstablished", c)) /\ Once(T, Functor("connectDestroyed", c))
  BY <1>1, <1>2 DEF Stage
<1>4. /\ ~Has(U, Functor("connectEstablished", c)) /\ ~Has(U, Functor("connectDestroyed", c))
      /\ Once(U, Functor("connectEstablished", c)) /\ Once(U, Functor("connectDestroyed", c))
  BY <1>3 DEF Dropped
<1>5. Stage(U, S, s, v, c)
  <2>1. s.established = 1 /\ s.destroyed = 1
    BY <1>3
  <2> QED
    BY <1>3, <1>4, <2>1 DEF Stage, Up
<1>6. ASSUME Fresh(T, S, r, c),
             r.state = "kDisConnected" => s.state = "kDisConnected" /\ s.events = r.events,
             \A f \in Raw : ~Has(U, Functor(f, c))
      PROVE  Fresh(U, S, s, c)
  <2>1. Fresh(U, S, r, c)
    BY <1>6, DropFresh
  <2>2. r.state = "kDisConnected" /\ s.state = "kDisConnected" /\ s.events = {}
    BY <1>2, <1>3, <1>6 DEF Fresh
  <2> QED
    BY <1>6, <2>1, <2>2 DEF Fresh
<1> QED
  BY <1>2, <1>3, <1>5, <1>6

----------------------------------------------------------------------------
(* What the member functions do to a connection. *)

(* Everything but the state and the events is kept. *)
Kept(r, s) ==
  /\ s \in ConnRecords
  /\ s.loop = r.loop /\ s.established = r.established /\ s.destroyed = r.destroyed
  /\ r.epoll # "new" => s.epoll = r.epoll

(* And a closed connection stays closed, with its channel disabled. *)
Quiet(r, s) ==
  /\ Kept(r, s)
  /\ r.state \in Up => s.state \in Up
  /\ s.state = "kDisConnected" <=> r.state = "kDisConnected"
  /\ r.state = "kDisConnected" /\ r.events = {} => s.events = {}

LEMMA KeptItself ==
  ASSUME NEW r \in ConnRecords
  PROVE  Quiet(r, r)
BY DEF Quiet, Kept

LEMMA UpdateRecord ==
  ASSUME NEW r \in ConnRecords
  PROVE  /\ Update(r) \in ConnRecords
         /\ Update(r).loop = r.loop /\ Update(r).state = r.state /\ Update(r).events = r.events
         /\ Update(r).established = r.established /\ Update(r).destroyed = r.destroyed
         /\ Update(r).epoll = IF r.epoll = "deleted" THEN r.epoll ELSE "added"
BY DEF Update, ConnRecords

LEMMA IsWritingQuiet ==
  ASSUME NEW r \in ConnRecords
  PROVE  Quiet(r, AfterIsWriting(r)) /\ AfterIsWriting(r).state = r.state
BY DEF Quiet, Kept, AfterIsWriting, ConnRecords, Up

LEMMA ShutdownQuiet ==
  ASSUME NEW r \in ConnRecords
  PROVE  Quiet(r, ShutdownInLoop(r))
BY IsWritingQuiet DEF ShutdownInLoop

LEMMA SendQuiet ==
  ASSUME NEW r \in ConnRecords, NEW w
  PROVE  Quiet(r, SendInLoop(r, w)) /\ SendInLoop(r, w).state = r.state
<1> DEFINE r1 == AfterIsWriting(r)
           r2 == [r1 EXCEPT !.out = TRUE]
           r3 == [r2 EXCEPT !.events = @ \cup {"W"}]
<1>1. r1 \in ConnRecords /\ Quiet(r, r1) /\ r1.state = r.state
  BY IsWritingQuiet DEF Quiet, Kept
<1> HIDE DEF r1
<1>2. /\ r2 \in ConnRecords /\ r2.loop = r1.loop /\ r2.state = r1.state /\ r2.epoll = r1.epoll
      /\ r2.established = r1.established /\ r2.destroyed = r1.destroyed
  BY <1>1 DEF ConnRecords
<1>3. /\ r3 \in ConnRecords /\ r3.loop = r1.loop /\ r3.state = r1.state /\ r3.epoll = r1.epoll
      /\ r3.established = r1.established /\ r3.destroyed = r1.destroyed
  BY <1>1 DEF ConnRecords
<1>4. SendInLoop(r, w) = IF r.state = "kDisConnected" THEN r
                         ELSE IF w \notin {"none", "part"} THEN r1
                         ELSE IF IsWriting(r2) THEN r2 ELSE Update(r3)
  BY DEF SendInLoop, EnableWriting, r1
<1> HIDE DEF r2, r3
<1>5. CASE r.state = "kDisConnected"
  BY <1>4, <1>5, KeptItself
<1>6. CASE r.state # "kDisConnected"
  <2>1. Quiet(r, r2) /\ r2.state = r.state
    BY <1>1, <1>2, <1>6 DEF Quiet, Kept
  <2>2. Quiet(r, Update(r3)) /\ Update(r3).state = r.state
    <3>1. /\ Update(r3) \in ConnRecords
          /\ Update(r3).loop = r1.loop /\ Update(r3).state = r1.state
          /\ Update(r3).established = r1.established /\ Update(r3).destroyed = r1.destroyed
          /\ Update(r3).epoll = IF r1.epoll = "deleted" THEN r1.epoll ELSE "added"
      BY <1>3, UpdateRecord
    <3>2. r1.epoll \in {"new", "added", "deleted"} /\ r.epoll \in {"new", "added", "deleted"}
      BY <1>1 DEF ConnRecords
    <3> QED
      BY <1>1, <1>6, <3>1, <3>2 DEF Quiet, Kept
  <2> QED
    BY <1>1, <1>4, <1>6, <2>1, <2>2
<1> QED
  BY <1>5, <1>6

LEMMA DisConnectingRecord ==
  ASSUME NEW r \in ConnRecords
  PROVE  LET s == [r EXCEPT !.state = "kDisConnecting"] IN
         /\ s \in ConnRecords /\ Kept(r, s) /\ s.state = "kDisConnecting" /\ s.events = r.events
         /\ r.state \in {"kConnected", "kDisConnecting"} => Quiet(r, s)
BY DEF Quiet, Kept, ConnRecords, States, Up

LEMMA QuietTrans ==
  ASSUME NEW r, NEW s, NEW t, Quiet(r, s), Quiet(s, t)
  PROVE  Quiet(r, t)
BY DEF Quiet, Kept

LEMMA CloseRecord ==
  ASSUME NEW r \in ConnRecords
  PROVE  /\ Kept(r, HandleCloseState(r))
         /\ HandleCloseState(r).state = "kDisConnected" /\ HandleCloseState(r).events = {}
         /\ HandleCloseState(r).epoll = IF r.epoll = "deleted" THEN r.epoll ELSE "added"
<1> DEFINE r1 == [r EXCEPT !.state = "kDisConnected"]
           r2 == [r1 EXCEPT !.events = {}]
<1>1. /\ r2 \in ConnRecords /\ r2.loop = r.loop /\ r2.state = "kDisConnected" /\ r2.epoll = r.epoll
      /\ r2.established = r.established /\ r2.destroyed = r.destroyed /\ r2.events = {}
      /\ r.epoll \in {"new", "added", "deleted"}
  BY DEF ConnRecords, States
<1>2. HandleCloseState(r) = Update(r2)
  BY DEF HandleCloseState, DisableAll
<1> HIDE DEF r2
<1> QED
  BY <1>1, <1>2, UpdateRecord DEF Kept

LEMMA EstablishedRecord ==
  ASSUME NEW r \in ConnRecords
  PROVE  LET s == Established(r) IN
         /\ s \in ConnRecords /\ s.loop = r.loop /\ s.state = "kConnected"
         /\ s.established = r.established + 1 /\ s.destroyed = r.destroyed
         /\ s.epoll = IF r.epoll = "deleted" THEN r.epoll ELSE "added"
<1> DEFINE r1 == [r EXCEPT !.state = "kConnected", !.established = @ + 1]
           r2 == [r1 EXCEPT !.events = @ \cup {"R"}]
<1>1. /\ r2 \in ConnRecords /\ r2.loop = r.loop /\ r2.state = "kConnected" /\ r2.epoll = r.epoll
      /\ r2.established = r.established + 1 /\ r2.destroyed = r.destroyed
  <2>1. r.established \in Nat /\ r.established + 1 \in Nat
    BY DEF ConnRecords
  <2>2. /\ r1 \in ConnRecords /\ r1.loop = r.loop /\ r1.state = "kConnected" /\ r1.epoll = r.epoll
        /\ r1.established = r.established + 1 /\ r1.destroyed = r.destroyed
    BY <2>1 DEF ConnRecords, States
  <2> HIDE DEF r1
  <2> QED
    BY <2>2 DEF ConnRecords
<1>2. Established(r) = Update(r2)
  BY DEF Established, EnableReading
<1> HIDE DEF r2
<1> QED
  BY <1>1, <1>2, UpdateRecord

LEMMA NewConnRecord ==
  ASSUME NEW l \in Loops
  PROVE  LET s == NewConn(l) IN
         /\ s \in ConnRecords /\ s.loop = l /\ s.state = "kConnecting"
         /\ s.established = 0 /\ s.destroyed = 0 /\ s.epoll = "new"
BY DEF NewConn, ConnRecords, States

LEMMA DestroyedRecord ==
  ASSUME NEW r \in ConnRecords
  PROVE  LET s == [RemoveChannel(r) EXCEPT !.destroyed = @ + 1] IN
         /\ s \in ConnRecords /\ s.loop = r.loop /\ s.state = r.state /\ s.events = r.events
         /\ s.established = r.established /\ s.destroyed = r.destroyed + 1 /\ s.epoll = "deleted"
<1> DEFINE r1 == RemoveChannel(r)
<1>1. r.destroyed \in Nat /\ r.destroyed + 1 \in Nat
  BY DEF ConnRecords
<1>2. /\ r1 \in ConnRecords /\ r1.loop = r.loop /\ r1.state = r.state /\ r1.events = r.events
      /\ r1.established = r.established /\ r1.destroyed = r.destroyed /\ r1.epoll = "deleted"
  BY DEF RemoveChannel, ConnRecords
<1> HIDE DEF r1
<1>3. LET s == [r1 EXCEPT !.destroyed = @ + 1] IN
      /\ s \in ConnRecords /\ s.loop = r.loop /\ s.state = r.state /\ s.events = r.events
      /\ s.established = r.established /\ s.destroyed = r.destroyed + 1 /\ s.epoll = "deleted"
  BY <1>1, <1>2 DEF ConnRecords
<1> QED
  BY <1>3 DEF r1

----------------------------------------------------------------------------
(* The steps. *)

LEMMA FunNames ==
  /\ {"connectEstablished", "removeConnectionInLoop", "connectDestroyed", "forceCloseInLoop",
      "shutdownInLoop", "sendInLoop"} \subseteq Funs
  /\ Raw \subseteq Funs
  /\ \A f \in Funs : \/ f = "connectEstablished" \/ f = "removeConnectionInLoop"
                     \/ f = "connectDestroyed" \/ f = "forceCloseInLoop" \/ f \in Raw
  /\ \A f \in Raw : f \notin HoldsPtr
BY DEF Funs, HoldsPtr, Raw

LEMMA QueueTypes ==
  ASSUME Types
  PROVE  QueueState(queue, batch, index) /\ Todo \in Todos
<1>1. QueueState(queue, batch, index)
  <2>1. \A l \in Loops : Len(batch[l]) \in Nat
    BY LenProperties DEF Types
  <2> QED
    BY <2>1 DEF Types, TypeOK, QueueState
<1> QED
  BY <1>1, TodoType DEF Todo, Todos

(* All that is new in U is x, in loop l. *)
NewAt(T, U, l, x) ==
  \A m \in Loops : \A y : Holds(U, m, y) => Holds(T, m, y) \/ (m = l /\ y = x)

LEMMA PushStep ==
  ASSUME NEW q, NEW b, NEW n, QueueState(q, b, n),
         NEW l \in Loops, NEW f \in Funs, NEW c \in Conns
  PROVE  LET T == TodoOf(q, b, n)
             U == TodoOf(Push(q, l, f, c), b, n)
         IN /\ QueueState(Push(q, l, f, c), b, n)
            /\ Appended(T, U, Functor(f, c))
            /\ SameBut(T, U, c)
            /\ NewAt(T, U, l, Functor(f, c))
<1> DEFINE T == TodoOf(q, b, n)
           U == TodoOf(Push(q, l, f, c), b, n)
           x == Functor(f, c)
<1>1. QueueState(Push(q, l, f, c), b, n) /\ U = [T EXCEPT ![l] = Append(@, x)]
  BY PushTodo
<1>2. T \in Todos
  BY TodoType DEF Todos
<1>3. x \in Functors
  BY FunctorsDiffer
<1>4. x = Functor(f, c)
  OBVIOUS
<1> HIDE DEF T, U, x
<1>5. Appended(T, U, x) /\ NewAt(T, U, l, x)
  <2>1. WithOneMore(T, U, l, x)
    BY <1>1 DEF WithOneMore
  <2> QED
    BY <1>2, <1>3, <2>1, AppendTodo DEF NewAt
<1>6. SameBut(T, U, c)
  BY <1>4, <1>5, AppendSame
<1> QED
  BY <1>1, <1>5, <1>6 DEF T, U, x

LEMMA RunStep ==
  ASSUME NEW q, NEW b, NEW n, QueueState(q, b, n), NEW l \in Loops, n[l] < Len(b[l])
  PROVE  LET T == TodoOf(q, b, n)
             U == TodoOf(q, b, [n EXCEPT ![l] = @ + 1])
             x == b[l][n[l] + 1]
         IN /\ QueueState(q, b, [n EXCEPT ![l] = @ + 1])
            /\ x \in Functors
            /\ Dropped(T, U, x)
            /\ SameBut(T, U, x.conn)
            /\ \A m \in Loops : \A y : Holds(U, m, y) => Holds(T, m, y)
            /\ \A z : Holds(U, l, z) => Behind(T, z, x)
            /\ Holds(T, l, x)
<1> DEFINE T == TodoOf(q, b, n)
           U == TodoOf(q, b, [n EXCEPT ![l] = @ + 1])
           x == b[l][n[l] + 1]
<1>1. /\ QueueState(q, b, [n EXCEPT ![l] = @ + 1])
      /\ T[l] # <<>> /\ Head(T[l]) = x /\ U = [T EXCEPT ![l] = Tail(@)]
  BY RunTodo
<1>2. T \in Todos
  BY TodoType DEF Todos
<1> HIDE DEF T, U, x
<1>3. /\ x \in Functors /\ Dropped(T, U, x)
      /\ \A m \in Loops : \A y : Holds(U, m, y) => Holds(T, m, y)
      /\ \A z : Holds(U, l, z) => Behind(T, z, x)
  BY <1>1, <1>2, TailTodo
<1>4. SameBut(T, U, x.conn)
  BY <1>3, FunctorsDiffer, DropSame
<1>5. Holds(T, l, x)
  <2>1. T[l] \in Seq(Functors)
    BY <1>2 DEF Todos
  <2>2. Len(T[l]) \in Nat /\ Len(T[l]) > 0 /\ Head(T[l]) = T[l][1]
    BY <1>1, <2>1, LenProperties, EmptySeq
  <2> QED
    BY <1>1, <2>2 DEF Holds
<1> QED
  BY <1>1, <1>3, <1>4, <1>5 DEF T, U, x

LEMMA HoldsHas ==
  ASSUME NEW T, NEW x
  PROVE  Has(T, x) <=> \E l \in Loops : Holds(T, l, x)
BY DEF Has, Holds

LEMMA HomesAppend ==
  ASSUME NEW T, NEW U, NEW cs, NEW l \in Loops, NEW f \in Funs, NEW c \in Conns, Homes(T, cs),
         cs[c].state # "none",
         f = "removeConnectionInLoop" => l = Base,
         f # "removeConnectionInLoop" => l = cs[c].loop,
         NewAt(T, U, l, Functor(f, c))
  PROVE  Homes(U, cs)
<1>1. Functor(f, c).fun = f /\ Functor(f, c).conn = c
  BY DEF Functor
<1> QED
  BY <1>1 DEF Homes, Home, NewAt

LEMMA HomesDrop ==
  ASSUME NEW T, NEW U, NEW cs, Homes(T, cs),
         \A m \in Loops : \A y : Holds(U, m, y) => Holds(T, m, y)
  PROVE  Homes(U, cs)
BY DEF Homes

LEMMA HomesChange ==
  ASSUME NEW T, NEW cs, NEW ds, Homes(T, cs),
         \A c \in Conns : cs[c].state # "none" => ds[c].state # "none" /\ ds[c].loop = cs[c].loop
  PROVE  Homes(T, ds)
<1>1. \A x \in Functors : x.conn \in Conns
  BY FunctorsDiffer
<1> QED
  BY <1>1 DEF Homes, Home

Users == {"none", "holds", "shutdownInLoop", "forceCloseInLoop"} \cup UserOps

(* A step that changes connection c to s, and what is queued. *)
LEMMA TypesStep ==
  ASSUME Types, UNCHANGED <<m_numThreads, m_next, phase>>,
         NEW c \in Conns, NEW s \in ConnRecords, s.loop = conn[c].loop,
         conn' = [conn EXCEPT ![c] = s], m_connectionsSet' \subseteq Conns,
         DOMAIN sock' = Conns, \A d \in Conns : "peer" \in DOMAIN sock'[d],
         DOMAIN user' = Conns, \A d \in Conns : user'[d] \in Users,
         QueueState(queue', batch', index'), DOMAIN active' = Loops
  PROVE  Types'
<1>1. conn' \in [Conns -> ConnRecords]
  BY DEF Types
<1>2. \A d \in Conns : conn'[d].state \in States /\ conn'[d].epoll \in {"new", "added", "deleted"}
  BY <1>1 DEF ConnRecords
<1>3. \A d \in Conns : conn'[d].loop \in 0 .. m_numThreads
  BY DEF Types, TypeOK
<1>4. \A l \in Loops : index'[l] \in 0 .. Len(batch'[l])
  BY LenProperties DEF QueueState
<1>5. /\ m_numThreads' \in 0 .. MaxThreads /\ m_next' \in 0 .. MaxThreads
      /\ m_numThreads' > 0 => m_next' < m_numThreads'
      /\ \A l \in Loops : phase'[l] \in {"poll", "dispatch", "run"}
  BY DEF Types, TypeOK
<1>6. TypeOK'
  BY <1>2, <1>3, <1>4, <1>5 DEF TypeOK, Users
<1> QED
  BY <1>1, <1>6 DEF Types, QueueState

LEMMA CountsKept ==
  ASSUME CalledOnce,
         \A d \in Conns : /\ conn'[d].established = conn[d].established
                          /\ conn'[d].destroyed = conn[d].destroyed
  PROVE  CalledOnce'
BY DEF CalledOnce

(* A step of one connection that is there, and what has to be shown of it. *)
LEMMA StepOfConn ==
  ASSUME Types, AliveInv, NEW c \in Conns,
         \A d \in Conns \ {c} : /\ conn'[d] = conn[d] /\ user'[d] = user[d]
                                /\ d \in m_connectionsSet' <=> d \in m_connectionsSet,
         SameBut(Todo, Todo', c), Homes(Todo', conn'), ~stale' => ~stale,
         Stage(Todo', m_connectionsSet', conn'[c], user'[c], c),
         ~stale' => Fresh(Todo', m_connectionsSet', conn'[c], c),
         conn[c].state # "none", conn'[c].loop = conn[c].loop,
         conn[c].epoll = "added" => conn'[c].epoll = "added" \/ active[conn[c].loop] = {},
         \A l \in Loops : active'[l] \subseteq active[l],
         phase' = phase, batch' = batch,
         \A l \in Loops : phase[l] # "run" => index'[l] = index[l],
         \A d \in Conns : sock[d].peer = "open" => sock'[d].peer = "open"
  PROVE  AliveInv'
<1>1. Lives'
  BY OneLife DEF AliveInv
<1>2. Accepted'
  BY DEF Accepted, AliveInv
<1>3. Rounds'
  <2> SUFFICES ASSUME NEW l \in Loops
               PROVE  /\ phase[l] # "run" => batch[l] = <<>> /\ index'[l] = 0
                      /\ phase[l] # "dispatch" => active'[l] = {}
                      /\ \A e \in active'[l] : e # Acceptor =>
                           /\ e.conn \in Conns
                           /\ conn'[e.conn].loop = l /\ conn'[e.conn].epoll = "added"
    BY DEF Rounds
  <2>1. /\ phase[l] # "run" => batch[l] = <<>> /\ index[l] = 0
        /\ phase[l] # "dispatch" => active[l] = {}
        /\ \A e \in active[l] : e # Acceptor =>
             e.conn \in Conns /\ conn[e.conn].loop = l /\ conn[e.conn].epoll = "added"
    BY DEF AliveInv, Rounds
  <2>2. active'[l] \subseteq active[l]
    OBVIOUS
  <2>3. ASSUME NEW e \in active'[l], e # Acceptor
        PROVE  e.conn \in Conns /\ conn'[e.conn].loop = l /\ conn'[e.conn].epoll = "added"
    <3>1. e \in active[l] /\ e.conn \in Conns /\ conn[e.conn].loop = l /\ conn[e.conn].epoll = "added"
      BY <2>1, <2>2, <2>3
    <3>2. CASE e.conn = c
      BY <3>1, <3>2
    <3>3. CASE e.conn # c
      BY <3>1, <3>3
    <3> QED
      BY <3>2, <3>3
  <2> QED
    BY <2>1, <2>2, <2>3
<1> QED
  BY <1>1, <1>2, <1>3 DEF AliveInv

(* A connection whose channel is registered is established. *)
LEMMA RegisteredIsUp ==
  ASSUME NEW T, NEW S, NEW r \in ConnRecords, NEW u, NEW c, Stage(T, S, r, u, c), r.epoll # "new"
  PROVE  r.state \in Up
<1>1. r.state \in States
  BY DEF ConnRecords
<1>2. NoConn.epoll = "new"
  BY DEF NoConn, NewConn
<1> QED
  BY <1>1, <1>2 DEF Stage, States, Up

LEMMA UpChannel ==
  ASSUME NEW T, NEW S, NEW r, NEW u, NEW c, Stage(T, S, r, u, c), r.state \in Up
  PROVE  r.epoll # "new" /\ r.state # "none"
BY DEF Stage, Up

(* handleClose, with T what is to be run apart from what called it.        *)
LEMMA HandleCloseStep ==
  ASSUME Types, NEW n, QueueState(queue, batch, n), NEW c \in Conns, NEW l \in Loops,
         Homes(TodoOf(queue, batch, n), conn), conn[c].state \in Up,
         Stage(TodoOf(queue, batch, n), m_connectionsSet, conn[c], user[c], c),
         ~stale => Fresh(TodoOf(queue, batch, n), m_connectionsSet, conn[c], c),
         HandleClose(c, l), failed = "no"
  PROVE  LET T == TodoOf(queue, batch, n)
             U == TodoOf(queue', batch, n)
         IN /\ QueueState(queue', batch, n)
            /\ conn' = [conn EXCEPT ![c] = conn'[c]] /\ Kept(conn[c], conn'[c])
            /\ m_connectionsSet' \subseteq m_connectionsSet
            /\ \A d \in Conns \ {c} : d \in m_connectionsSet' <=> d \in m_connectionsSet
            /\ ~stale => failed' \in {"no", "handleClose"}
            /\ failed' = "no" =>
                 /\ SameBut(T, U, c) /\ Homes(U, conn')
                 /\ Stage(U, m_connectionsSet', conn'[c], user[c], c)
                 /\ ~stale => Fresh(U, m_connectionsSet', conn'[c], c)
<1> DEFINE T == TodoOf(queue, batch, n)
           U == TodoOf(queue', batch, n)
           S == m_connectionsSet
           r == conn[c]
           s == HandleCloseState(conn[c])
<1>1. r \in ConnRecords /\ conn \in [Conns -> ConnRecords]
  BY DEF Types
<1>2. r.epoll # "new" /\ r.state # "none"
  BY UpChannel
<1>3. /\ Kept(r, s) /\ s.state = "kDisConnected" /\ s.events = {}
      /\ s.epoll = r.epoll
  <2>1. r.epoll \in {"new", "added", "deleted"}
    BY <1>1 DEF ConnRecords
  <2> QED
    BY <1>1, <1>2, <2>1, CloseRecord DEF Kept
<1>4. StaysUp(r, s)
  BY <1>3 DEF StaysUp, Kept, Up
<1>5. Stage(T, S, s, user[c], c)
  BY <1>4, UpStage
<1>6. ASSUME ~stale, CanClose(r)
      PROVE  Fresh(T, S, s, c) /\ c \in S /\ ~Has(T, Functor("removeConnectionInLoop", c))
  <2>1. r.state # "kDisConnected" /\ Fresh(T, S, r, c)
    BY <1>6 DEF CanClose
  <2>2. Fresh(T, S, s, c)
    BY <1>3, <1>4, <2>1, UpFresh
  <2> QED
    BY <2>1, <2>2 DEF Fresh
<1>7. CASE UNCHANGED <<conn, queue, m_connectionsSet>> /\ failed' \in {"handleClose", "updateChannel"}
           /\ (failed' = "updateChannel" => CanClose(r) /\ r.epoll = "deleted")
  <2>1. conn' = [conn EXCEPT ![c] = conn'[c]] /\ Kept(r, conn'[c])
    BY <1>1, <1>7, KeptItself DEF Quiet
  <2>2. ~stale => failed' = "handleClose"
    <3>1. c \in S => r.epoll = "added"
      BY DEF Stage
    <3> QED
      BY <1>6, <1>7, <3>1
  <2> QED
    BY <1>7, <2>1, <2>2
<1>8. CASE /\ CanClose(r) /\ r.epoll # "deleted"
           /\ conn' = [conn EXCEPT ![c] = HandleCloseState(@)]
           /\ IF l = Base
                THEN RemoveConnectionInLoop(c, queue)
                ELSE /\ queue' = Push(queue, Base, "removeConnectionInLoop", c)
                     /\ UNCHANGED <<m_connectionsSet, failed>>
  <2>1. conn'[c] = s /\ conn' = [conn EXCEPT ![c] = conn'[c]] /\ Kept(r, conn'[c])
    BY <1>1, <1>3, <1>8
  <2>2. Homes(T, conn')
    <3>1. \A d \in Conns : conn[d].state # "none" =>
             conn'[d].state # "none" /\ conn'[d].loop = conn[d].loop
      BY <1>1, <1>3, <2>1 DEF Kept
    <3> QED
      BY <3>1, HomesChange
  <2>3. CASE l = Base /\ c \in S
    <3>1. /\ queue' = Push(queue, r.loop, "connectDestroyed", c) /\ S' = S \ {c}
          /\ UNCHANGED failed
      BY <1>8, <2>3 DEF RemoveConnectionInLoop
    <3>2. r.loop \in Loops /\ "connectDestroyed" \in Funs
      BY <1>1, FunNames DEF ConnRecords
    <3>3. /\ QueueState(queue', batch, n) /\ Appended(T, U, Functor("connectDestroyed", c))
          /\ SameBut(T, U, c)
          /\ NewAt(T, U, r.loop, Functor("connectDestroyed", c))
      BY <3>1, <3>2, PushStep
    <3> HIDE DEF U, T
    <3>4. Homes(U, conn')
      <4>1. conn'[c].state # "none" /\ conn'[c].loop = r.loop
        BY <1>3, <2>1 DEF Kept
      <4> QED
        BY <2>2, <3>2, <3>3, <4>1, HomesAppend
    <3>5. Stage(U, S', s, user[c], c)
      <4>1. s.state \in Up
        BY <1>3 DEF Up
      <4> QED
        BY <1>5, <2>3, <3>1, <3>3, <4>1, RemovalStage
    <3>6. ~stale => Fresh(U, S', s, c)
      BY <1>3, <1>5, <1>6, <1>8, <2>3, <3>1, <3>3, RemovalFresh
    <3>7. S' \subseteq S /\ \A d \in Conns \ {c} : d \in S' <=> d \in S
      BY <3>1
    <3> QED
      BY <2>1, <3>1, <3>3, <3>4, <3>5, <3>6, <3>7 DEF U, T
  <2>4. CASE l = Base /\ c \notin S
    <3>1. queue' = queue /\ S' = S \ {c} /\ failed' = "removeConnection"
      BY <1>8, <2>4 DEF RemoveConnectionInLoop
    <3>2. stale
      BY <1>6, <1>8, <2>4
    <3> QED
      BY <2>1, <3>1, <3>2
  <2>5. CASE l # Base
    <3>1. queue' = Push(queue, Base, "removeConnectionInLoop", c) /\ S' = S /\ failed' = failed
      BY <1>8, <2>5
    <3>2. Base \in Loops /\ "removeConnectionInLoop" \in Funs
      BY BaseIsLoop, FunNames
    <3>3. /\ QueueState(queue', batch, n) /\ Appended(T, U, Functor("removeConnectionInLoop", c))
          /\ SameBut(T, U, c)
          /\ NewAt(T, U, Base, Functor("removeConnectionInLoop", c))
      BY <3>1, <3>2, PushStep
    <3> HIDE DEF U, T
    <3>4. Homes(U, conn')
      <4>1. conn'[c].state # "none"
        BY <1>3, <2>1
      <4> QED
        BY <2>2, <3>2, <3>3, <4>1, HomesAppend
    <3>5. Stage(U, S, s, user[c], c)
      <4>1. s.state \in Up
        BY <1>3 DEF Up
      <4> QED
        BY <1>5, <3>3, <4>1, AppendStage
    <3>6. ~stale => Fresh(U, S, s, c)
      BY <1>3, <1>6, <1>8, <3>3, QueueRemoval
    <3> QED
      BY <2>1, <3>1, <3>3, <3>4, <3>5, <3>6 DEF U, T
  <2> QED
    BY <2>3, <2>4, <2>5
<1> QED
  BY <1>7, <1>8 DEF HandleClose

(* The peer's side of a socket is left alone. *)
SamePeer(k, j) == "peer" \in DOMAIN j /\ j.peer = k.peer

LEMMA SocketSteps ==
  ASSUME NEW k, "peer" \in DOMAIN k, NEW r, NEW w
  PROVE  /\ SamePeer(k, k)
         /\ SamePeer(k, [k EXCEPT !.data = FALSE])
         /\ SamePeer(k, [k EXCEPT !.err = FALSE])
         /\ SamePeer(k, AfterWrite(k, w))
         /\ SamePeer(k, ShutdownWrite(r, k))
BY DEF SamePeer, AfterWrite, ShutdownWrite

LEMMA QuietLife ==
  ASSUME NEW T, NEW S, NEW r, NEW s, NEW u, NEW c, Quiet(r, s), r.state \in Up, Stage(T, S, r, u, c)
  PROVE  Stage(T, S, s, u, c) /\ (Fresh(T, S, r, c) => Fresh(T, S, s, c))
<1>1. r.epoll # "new"
  BY UpChannel
<1>2. StaysUp(r, s)
  BY <1>1 DEF Quiet, Kept, StaysUp
<1>3. Fresh(T, S, r, c) => (s.state = "kDisConnected" => s.events = {})
  BY DEF Quiet, Fresh
<1> QED
  BY <1>2, <1>3, UpStage, UpFresh DEF Quiet

(* A handler that neither closes the connection nor opens it, and may have *)
(* queued forceCloseInLoop.                                                *)
LEMMA QuietEvent ==
  ASSUME TcpInv, Alive, NEW l \in Loops, NEW c \in Conns, NEW e,
         conn[c].loop = l, conn[c].epoll = "added",
         NEW s, Quiet(conn[c], s), conn' = [conn EXCEPT ![c] = s],
         \/ queue' = queue
         \/ queue' = Push(queue, l, "forceCloseInLoop", c) /\ CanClose(conn[c]),
         NEW k, SamePeer(sock[c], k), sock' = sock \/ sock' = [sock EXCEPT ![c] = k],
         failed' \in {"no", "SIGPIPE"},
         active' = [active EXCEPT ![l] = @ \ {e}],
         UNCHANGED <<server, m_connectionsSet, user, stale, batch, index, phase>>
  PROVE  TcpInv'
<1> DEFINE T == Todo
           U == Todo'
           S == m_connectionsSet
           r == conn[c]
<1>1. /\ Types /\ AliveInv /\ CalledOnce /\ OnlyHangupFails
  BY DEF TcpInv
<1>2. QueueState(queue, batch, index) /\ T = TodoOf(queue, batch, index)
      /\ U = TodoOf(queue', batch, index)
  BY <1>1, QueueTypes DEF Todo
<1>3. /\ Stage(T, S, r, user[c], c) /\ (~stale => Fresh(T, S, r, c)) /\ Homes(T, conn)
      /\ r \in ConnRecords /\ conn \in [Conns -> ConnRecords]
  BY <1>1 DEF AliveInv, Lives, Types
<1>4. r.state \in Up /\ r.state # "none"
  BY <1>3, RegisteredIsUp DEF Up
<1>5. s \in ConnRecords /\ s.loop = r.loop /\ s.epoll = "added" /\ s.state \in Up /\ conn'[c] = s
  BY <1>3, <1>4 DEF Quiet, Kept
<1>6. Homes(T, conn')
  <2>1. \A d \in Conns : conn[d].state # "none" =>
          conn'[d].state # "none" /\ conn'[d].loop = conn[d].loop
    BY <1>3, <1>5 DEF Up
  <2> QED
    BY <1>3, <2>1, HomesChange
<1>7. /\ QueueState(queue', batch, index) /\ SameBut(T, U, c) /\ Homes(U, conn')
      /\ Stage(U, S, r, user[c], c) /\ (~stale => Fresh(U, S, r, c))
  <2>1. CASE queue' = queue
    BY <1>2, <1>3, <1>6, <2>1, SameButItself
  <2>2. CASE queue' = Push(queue, l, "forceCloseInLoop", c) /\ CanClose(r)
    <3>1. "forceCloseInLoop" \in Funs
      BY FunNames
    <3>2. /\ QueueState(queue', batch, index)
          /\ Appended(T, U, Functor("forceCloseInLoop", c)) /\ SameBut(T, U, c)
          /\ NewAt(T, U, l, Functor("forceCloseInLoop", c))
      BY <1>2, <2>2, <3>1, PushStep
    <3> HIDE DEF T, U
    <3>3. Homes(U, conn')
      <4>1. conn'[c].state # "none" /\ l = conn'[c].loop
        BY <1>5 DEF Up
      <4> QED
        BY <1>6, <3>1, <3>2, <4>1, HomesAppend
    <3>4. Stage(U, S, r, user[c], c)
      BY <1>3, <1>4, <3>2, AppendStage
    <3>5. ~stale => Fresh(U, S, r, c)
      <4>1. r.state # "kDisConnected"
        BY <2>2 DEF CanClose
      <4> QED
        BY <1>3, <1>4, <3>2, <4>1, AppendFresh
    <3> QED
      BY <3>2, <3>3, <3>4, <3>5
  <2> QED
    BY <2>1, <2>2
<1>8. Stage(U, S, s, user[c], c) /\ (~stale => Fresh(U, S, s, c))
  BY <1>4, <1>7, QuietLife
<1>9. /\ DOMAIN sock' = Conns /\ \A d \in Conns : "peer" \in DOMAIN sock'[d]
      /\ \A d \in Conns : sock[d].peer = "open" => sock'[d].peer = "open"
  BY <1>1 DEF Types, SamePeer
<1>10. DOMAIN active' = Loops /\ \A m \in Loops : active'[m] \subseteq active[m]
  BY <1>1 DEF Types
<1>11. DOMAIN user' = Conns /\ (\A d \in Conns : user'[d] \in Users) /\ S' \subseteq Conns
  BY <1>1 DEF Types, TypeOK, Users
<1>12. Types'
  BY <1>1, <1>5, <1>7, <1>9, <1>10, <1>11, TypesStep DEF server
<1>13. CalledOnce'
  <2>1. \A d \in Conns : /\ conn'[d].established = conn[d].established
                         /\ conn'[d].destroyed = conn[d].destroyed
    BY <1>3, <1>5 DEF Quiet, Kept
  <2> QED
    BY <1>1, <2>1, CountsKept
<1>14. OnlyHangupFails'
  BY DEF OnlyHangupFails
<1>15. AliveInv'
  <2>1. \A d \in Conns \ {c} : /\ conn'[d] = conn[d] /\ user'[d] = user[d]
                               /\ d \in S' <=> d \in S
    BY <1>3
  <2> QED
    BY <1>1, <1>4, <1>5, <1>7, <1>8, <1>9, <1>10, <2>1, StepOfConn
<1> QED
  BY <1>12, <1>13, <1>14, <1>15 DEF TcpInv

(* A handler that closes the connection. *)
LEMMA CloseEvent ==
  ASSUME TcpInv, Alive, NEW l \in Loops, NEW c \in Conns, NEW e,
         conn[c].loop = l, conn[c].epoll = "added", HandleClose(c, l),
         active' = [active EXCEPT ![l] = @ \ {e}],
         UNCHANGED <<server, sock, user, stale, batch, index, phase>>
  PROVE  TcpInv'
<1> DEFINE T == Todo
           U == Todo'
           S == m_connectionsSet
           r == conn[c]
<1>1. /\ Types /\ AliveInv /\ CalledOnce /\ OnlyHangupFails
  BY DEF TcpInv
<1>2. QueueState(queue, batch, index) /\ T = TodoOf(queue, batch, index)
      /\ U = TodoOf(queue', batch, index)
  BY <1>1, QueueTypes DEF Todo
<1>3. /\ Stage(T, S, r, user[c], c) /\ (~stale => Fresh(T, S, r, c)) /\ Homes(T, conn)
      /\ r \in ConnRecords /\ conn \in [Conns -> ConnRecords] /\ S \subseteq Conns
  BY <1>1 DEF AliveInv, Lives, Types, TypeOK
<1>4. r.state \in Up /\ r.state # "none"
  BY <1>3, RegisteredIsUp DEF Up
<1>5. /\ QueueState(queue', batch, index)
      /\ conn' = [conn EXCEPT ![c] = conn'[c]] /\ Kept(r, conn'[c])
      /\ S' \subseteq S /\ \A d \in Conns \ {c} : d \in S' <=> d \in S
      /\ ~stale => failed' \in {"no", "handleClose"}
      /\ failed' = "no" =>
           /\ SameBut(T, U, c) /\ Homes(U, conn')
           /\ Stage(U, S', conn'[c], user[c], c)
           /\ ~stale => Fresh(U, S', conn'[c], c)
  BY <1>1, <1>2, <1>3, <1>4, HandleCloseStep DEF Alive
<1>6. /\ conn'[c] \in ConnRecords /\ conn'[c].loop = r.loop /\ conn'[c].epoll = "added"
      /\ conn'[c].established = r.established /\ conn'[c].destroyed = r.destroyed
  BY <1>5 DEF Kept
<1>7. \A d \in Conns \ {c} : conn'[d] = conn[d]
  BY <1>3, <1>5
<1>8. /\ DOMAIN sock' = Conns /\ \A d \in Conns : "peer" \in DOMAIN sock'[d]
      /\ DOMAIN user' = Conns /\ \A d \in Conns : user'[d] \in Users
  BY <1>1 DEF Types, TypeOK, Users
<1>9. DOMAIN active' = Loops /\ \A m \in Loops : active'[m] \subseteq active[m]
  BY <1>1 DEF Types
<1>10. Types'
  <2>1. QueueState(queue', batch', index') /\ S' \subseteq Conns
    BY <1>3, <1>5
  <2> QED
    BY <1>1, <1>5, <1>6, <1>8, <1>9, <2>1, TypesStep DEF server
<1>11. CalledOnce'
  BY <1>1, <1>6, <1>7, CountsKept
<1>12. OnlyHangupFails'
  BY <1>5 DEF OnlyHangupFails
<1>13. ASSUME failed' = "no"
       PROVE  AliveInv'
  BY <1>1, <1>4, <1>5, <1>6, <1>7, <1>9, <1>13, StepOfConn
<1> QED
  BY <1>10, <1>11, <1>12, <1>13 DEF TcpInv, Alive

LEMMA EventStep ==
  ASSUME TcpInv, Alive, NEW l \in Loops, HandleEvent(l)
  PROVE  TcpInv'
<1>1. PICK e \in active[l] \ {Acceptor} :
        /\ active' = [active EXCEPT ![l] = @ \ {e}]
        /\ \/ "IN" \in e.revents /\ HandleRead(e.conn, l)
           \/ /\ "IN" \notin e.revents /\ "HUP" \in e.revents
              /\ HandleClose(e.conn, l)
              /\ UNCHANGED sock
           \/ /\ {"IN", "HUP"} \cap e.revents = {}
              /\ UNCHANGED <<conn, sock, queue, m_connectionsSet, failed>>
  BY DEF HandleEvent
<1>2. UNCHANGED <<server, user, stale, batch, index, phase>>
  BY DEF HandleEvent
<1> DEFINE c == e.conn
           r == conn[c]
<1>3. c \in Conns /\ r.loop = l /\ r.epoll = "added"
  BY DEF TcpInv, AliveInv, Rounds
<1>4. /\ r \in ConnRecords /\ conn \in [Conns -> ConnRecords]
      /\ DOMAIN sock = Conns /\ "peer" \in DOMAIN sock[c]
  BY <1>3 DEF TcpInv, Types
<1>5. failed = "no"
  BY DEF Alive
<1> HIDE DEF c
<1>6. Quiet(r, r) /\ conn = [conn EXCEPT ![c] = r]
  BY <1>3, <1>4, KeptItself
<1>7. CASE HandleClose(c, l) /\ UNCHANGED sock
  BY <1>1, <1>2, <1>3, <1>7, CloseEvent
<1>8. CASE /\ UNCHANGED <<conn, queue, m_connectionsSet, failed>>
           /\ \E k : SamePeer(sock[c], k) /\ (sock' = sock \/ sock' = [sock EXCEPT ![c] = k])
  BY <1>1, <1>2, <1>3, <1>5, <1>6, <1>8, QuietEvent
<1>9. CASE MessageCallBack(c, l) /\ UNCHANGED m_connectionsSet
  <2> DEFINE s == [sock[c] EXCEPT !.data = FALSE]
             down == [r EXCEPT !.state = "kDisConnecting"]
  <2>1. SamePeer(sock[c], s) /\ "peer" \in DOMAIN s
    BY <1>4, SocketSteps DEF SamePeer
  <2>2. CASE conn' = conn /\ sock' = [sock EXCEPT ![c] = s] /\ UNCHANGED <<queue, failed>>
    BY <1>1, <1>2, <1>3, <1>5, <1>6, <1>9, <2>1, <2>2, QuietEvent
  <2>3. CASE /\ r.state = "kConnected"
             /\ \E w \in WriteResults(r, s) :
                  LET sent == SendInLoop(r, w)
                      closing == [sent EXCEPT !.state = "kDisConnecting"]
                      s1 == AfterWrite(s, w)
                  IN /\ failed' = IF w = "EPIPE" THEN "SIGPIPE" ELSE failed
                     /\ \/ conn' = [conn EXCEPT ![c] = sent] /\ sock' = [sock EXCEPT ![c] = s1]
                        \/ /\ conn' = [conn EXCEPT ![c] = ShutdownInLoop(closing)]
                           /\ sock' = [sock EXCEPT ![c] = ShutdownWrite(closing, s1)]
             /\ UNCHANGED queue
    <3> DEFINE sent(w) == SendInLoop(r, w)
               closing(w) == [sent(w) EXCEPT !.state = "kDisConnecting"]
               s1(w) == AfterWrite(s, w)
    <3>1. PICK w \in WriteResults(r, s) :
            /\ failed' = IF w = "EPIPE" THEN "SIGPIPE" ELSE failed
            /\ \/ conn' = [conn EXCEPT ![c] = sent(w)] /\ sock' = [sock EXCEPT ![c] = s1(w)]
               \/ /\ conn' = [conn EXCEPT ![c] = ShutdownInLoop(closing(w))]
                  /\ sock' = [sock EXCEPT ![c] = ShutdownWrite(closing(w), s1(w))]
      BY <2>3
    <3>2. Quiet(r, sent(w)) /\ sent(w).state = "kConnected" /\ sent(w) \in ConnRecords
      BY <1>4, <2>3, SendQuiet DEF Quiet, Kept
    <3> HIDE DEF sent
    <3>3. Quiet(sent(w), closing(w)) /\ closing(w) \in ConnRecords
      BY <3>2, DisConnectingRecord
    <3> HIDE DEF closing
    <3>4. Quiet(r, ShutdownInLoop(closing(w)))
      BY <3>2, <3>3, ShutdownQuiet, QuietTrans
    <3> HIDE DEF s
    <3>5. SamePeer(sock[c], s1(w)) /\ "peer" \in DOMAIN s1(w)
      BY <2>1, SocketSteps DEF SamePeer
    <3> HIDE DEF s1
    <3>6. SamePeer(sock[c], ShutdownWrite(closing(w), s1(w)))
      BY <3>5, SocketSteps DEF SamePeer
    <3>7. failed' \in {"no", "SIGPIPE"} /\ queue' = queue
      BY <1>5, <2>3, <3>1
    <3>8. CASE conn' = [conn EXCEPT ![c] = sent(w)] /\ sock' = [sock EXCEPT ![c] = s1(w)]
      BY <1>1, <1>2, <1>3, <1>9, <3>2, <3>5, <3>7, <3>8, QuietEvent
    <3>9. CASE /\ conn' = [conn EXCEPT ![c] = ShutdownInLoop(closing(w))]
               /\ sock' = [sock EXCEPT ![c] = ShutdownWrite(closing(w), s1(w))]
      BY <1>1, <1>2, <1>3, <1>9, <3>4, <3>6, <3>7, <3>9, QuietEvent
    <3> QED
      BY <3>1, <3>8, <3>9
  <2>4. CASE /\ r.state = "kConnected"
             /\ conn' = [conn EXCEPT ![c] = ShutdownInLoop(down)]
             /\ sock' = [sock EXCEPT ![c] = ShutdownWrite(down, s)]
             /\ UNCHANGED <<queue, failed>>
    <3>1. Quiet(r, down) /\ down \in ConnRecords
      BY <1>4, <2>4, DisConnectingRecord
    <3> HIDE DEF down, s
    <3>2. Quiet(r, ShutdownInLoop(down))
      BY <3>1, ShutdownQuiet, QuietTrans
    <3>3. SamePeer(sock[c], ShutdownWrite(down, s))
      BY <2>1, SocketSteps DEF SamePeer
    <3> QED
      BY <1>1, <1>2, <1>3, <1>5, <1>9, <2>4, <3>2, <3>3, QuietEvent
  <2>5. CASE /\ CanClose(r)
             /\ conn' = [conn EXCEPT ![c] = down]
             /\ sock' = [sock EXCEPT ![c] = s]
             /\ queue' = Push(queue, l, "forceCloseInLoop", c)
             /\ UNCHANGED failed
    <3>1. Quiet(r, down)
      BY <1>4, <2>5, DisConnectingRecord DEF CanClose
    <3> HIDE DEF down, s
    <3> QED
      BY <1>1, <1>2, <1>3, <1>5, <1>9, <2>1, <2>5, <3>1, QuietEvent
  <2> QED
    BY <1>9, <2>2, <2>3, <2>4, <2>5 DEF MessageCallBack
<1>10. SamePeer(sock[c], sock[c]) /\ SamePeer(sock[c], [sock[c] EXCEPT !.err = FALSE])
  BY <1>4, SocketSteps
<1>11. CASE HandleRead(c, l)
  <2>1. CASE sock' = [sock EXCEPT ![c].err = FALSE] /\ UNCHANGED <<conn, queue, m_connectionsSet, failed>>
    <3>1. sock' = [sock EXCEPT ![c] = [sock[c] EXCEPT !.err = FALSE]]
      BY <2>1
    <3> QED
      BY <1>8, <1>10, <2>1, <3>1
  <2> QED
    BY <1>7, <1>9, <1>11, <2>1 DEF HandleRead
<1> QED
  BY <1>1, <1>7, <1>8, <1>10, <1>11 DEF c

----------------------------------------------------------------------------
(* A connection is not deleted as long as its connectDestroyed, or any     *)
(* other functor that holds it, has to be run.                             *)
LEMMA TodoHeld ==
  ASSUME NEW qs, NEW bs, NEW ns, QueueState(qs, bs, ns), NEW c, NEW f \in HoldsPtr,
         Has(TodoOf(qs, bs, ns), Functor(f, c))
  PROVE  \E l \in Loops : HeldBy(qs[l], c) \/ HeldBy(bs[l], c)
<1> DEFINE T == TodoOf(qs, bs, ns)
<1>1. PICK l \in Loops : \E i \in 1 .. Len(T[l]) : T[l][i] = Functor(f, c)
  BY DEF Has
<1>2. PICK i \in 1 .. Len(T[l]) : T[l][i] = Functor(f, c)
  BY <1>1
<1> DEFINE b == bs[l]
           q == qs[l]
           n == ns[l]
           s == SubSeq(b, n + 1, Len(b))
<1>3. b \in Seq(Functors) /\ q \in Seq(Functors) /\ n \in Nat /\ n <= Len(b) /\ Len(b) \in Nat
  BY LenProperties DEF QueueState
<1>4. T[l] = s \o q /\ s \in Seq(Functors)
  BY TodoAt
<1> HIDE DEF b, q, n, T
<1>5. /\ Len(s) = IF n + 1 <= Len(b) THEN Len(b) - (n + 1) + 1 ELSE 0
      /\ \A j \in 1 .. Len(b) - (n + 1) + 1 : s[j] = b[(n + 1) + j - 1]
  <2>1. \A j \in n + 1 .. Len(b) : b[j] \in Functors
    BY <1>3, ElementOfSeq
  <2>2. n + 1 \in Int /\ Len(b) \in Int
    BY <1>3
  <2> QED
    BY <2>1, <2>2, SubSeqProperties
<1> HIDE DEF s
<1>6. /\ Len(s \o q) = Len(s) + Len(q)
      /\ \A j \in 1 .. Len(s) + Len(q) : (s \o q)[j] = IF j <= Len(s) THEN s[j] ELSE q[j - Len(s)]
  BY <1>3, <1>4, ConcatProperties
<1>7. Len(s) \in Nat /\ Len(q) \in Nat
  BY <1>3, <1>4, LenProperties
<1>8. Functor(f, c).fun = f /\ Functor(f, c).conn = c
  BY DEF Functor
<1>9. CASE i <= Len(s)
  <2>1. n + i \in 1 .. Len(b) /\ i \in 1 .. Len(b) - (n + 1) + 1 /\ (n + 1) + i - 1 = n + i
    BY <1>3, <1>5, <1>7, <1>9
  <2>2. b[n + i] = Functor(f, c)
    BY <1>2, <1>4, <1>5, <1>6, <1>9, <2>1
  <2>3. HeldBy(b, c)
    BY <1>8, <2>1, <2>2 DEF HeldBy
  <2> QED
    BY <2>3 DEF b
<1>10. CASE ~ (i <= Len(s))
  <2>1. i - Len(s) \in 1 .. Len(q) /\ i \in 1 .. Len(s) + Len(q)
    BY <1>2, <1>4, <1>6, <1>7, <1>10
  <2>2. q[i - Len(s)] = Functor(f, c)
    BY <1>2, <1>4, <1>6, <1>10, <2>1
  <2>3. HeldBy(q, c)
    BY <1>8, <2>1, <2>2 DEF HeldBy
  <2> QED
    BY <2>3 DEF q
<1> QED
  BY <1>9, <1>10

LEMMA TodoReferences ==
  ASSUME Types, NEW c \in Conns, NEW f \in HoldsPtr, Has(Todo, Functor(f, c))
  PROVE  Referenced(c)
<1>1. QueueState(queue, batch, index)
  BY QueueTypes
<1>2. \E l \in Loops : HeldBy(queue[l], c) \/ HeldBy(batch[l], c)
  BY <1>1, TodoHeld DEF Todo
<1> QED
  BY <1>2 DEF Referenced

LEMMA DeletedIsDestroyed ==
  ASSUME Types, NEW c \in Conns, Deleted(c),
         Stage(Todo, m_connectionsSet, conn[c], user[c], c)
  PROVE  /\ conn[c].state \in Up /\ c \notin m_connectionsSet
         /\ conn[c].destroyed = 1 /\ conn[c].epoll = "deleted"
<1>1. conn[c].state \in States /\ conn[c].state # "none" /\ c \notin m_connectionsSet /\ ~Referenced(c)
  BY DEF Types, TypeOK, Deleted, Referenced
<1>2. conn[c].state \in Up
  BY <1>1 DEF Stage, States, Up
<1>3. ~Has(Todo, Functor("connectDestroyed", c))
  <2>1. "connectDestroyed" \in HoldsPtr
    BY DEF HoldsPtr
  <2> QED
    BY <1>1, <2>1, TodoReferences
<1> QED
  BY <1>1, <1>2, <1>3 DEF Stage

----------------------------------------------------------------------------
(* Functor f of connection c is being run by loop l; V is what is left.    *)
Running(l, f, c, V) ==
  /\ c \in Conns /\ f \in Funs
  /\ phase[l] = "run" /\ \A m \in Loops : m # l => index'[m] = index[m]
  /\ V = TodoOf(queue, batch, index') /\ QueueState(queue, batch, index')
  /\ Dropped(Todo, V, Functor(f, c)) /\ SameBut(Todo, V, c) /\ Homes(V, conn)
  /\ \A z : Holds(V, l, z) => Behind(Todo, z, Functor(f, c))
  /\ conn[c].state # "none" /\ (f # "removeConnectionInLoop" => l = conn[c].loop)
  /\ UNCHANGED <<server, stale, batch, phase, active>>

LEMMA RunningFunctor ==
  ASSUME TcpInv, Alive, NEW l \in Loops, RunFunctor(l)
  PROVE  LET x == batch[l][index[l] + 1] IN
         /\ Running(l, x.fun, x.conn, TodoOf(queue, batch, index'))
         /\ Call(l, x)
<1> DEFINE x == batch[l][index[l] + 1]
           V == TodoOf(queue, batch, index')
<1>1. Types /\ AliveInv /\ Homes(Todo, conn)
  BY DEF TcpInv, AliveInv
<1>2. /\ phase[l] = "run" /\ index[l] < Len(batch[l]) /\ index' = [index EXCEPT ![l] = @ + 1]
      /\ UNCHANGED <<server, stale, batch, phase, active>> /\ Call(l, x)
  BY DEF RunFunctor
<1>3. QueueState(queue, batch, index)
  BY <1>1, QueueTypes
<1>4. /\ QueueState(queue, batch, index') /\ x \in Functors
      /\ Dropped(Todo, V, x) /\ SameBut(Todo, V, x.conn)
      /\ \A m \in Loops : \A y : Holds(V, m, y) => Holds(Todo, m, y)
      /\ \A z : Holds(V, l, z) => Behind(Todo, z, x)
      /\ Holds(Todo, l, x)
  BY <1>2, <1>3, RunStep DEF Todo
<1>5. \A m \in Loops : m # l => index'[m] = index[m]
  BY <1>2, <1>3 DEF QueueState
<1> HIDE DEF x, V
<1>6. x = Functor(x.fun, x.conn) /\ x.fun \in Funs /\ x.conn \in Conns
  BY <1>4, FunctorsDiffer
<1>7. Homes(V, conn)
  BY <1>1, <1>4, HomesDrop
<1>8. conn[x.conn].state # "none" /\ (x.fun # "removeConnectionInLoop" => l = conn[x.conn].loop)
  BY <1>1, <1>4 DEF Homes, Home
<1> QED
  BY <1>2, <1>4, <1>5, <1>6, <1>7, <1>8 DEF Running, x, V

LEMMA RunEnds ==
  ASSUME TcpInv, Alive, NEW l \in Loops, NEW f, NEW c, NEW V, Running(l, f, c, V),
         NEW s \in ConnRecords, s.loop = conn[c].loop, conn' = [conn EXCEPT ![c] = s],
         s.destroyed <= s.established, s.established <= 1,
         NEW k, SamePeer(sock[c], k), sock' = sock \/ sock' = [sock EXCEPT ![c] = k],
         user' = user \/ user' = [user EXCEPT ![c] = "holds"],
         m_connectionsSet' \in {m_connectionsSet, m_connectionsSet \ {c}},
         QueueState(queue', batch, index'),
         ~stale => failed' \in {"no", "SIGPIPE", "handleClose"},
         failed' = "no" =>
           /\ SameBut(V, Todo', c) /\ Homes(Todo', conn')
           /\ Stage(Todo', m_connectionsSet', s, user'[c], c)
           /\ ~stale => Fresh(Todo', m_connectionsSet', s, c)
           /\ conn[c].epoll = "added" => s.epoll = "added" \/ active[conn[c].loop] = {}
  PROVE  TcpInv'
<1>1. Types /\ AliveInv /\ CalledOnce /\ OnlyHangupFails
  BY DEF TcpInv
<1>2. /\ c \in Conns /\ phase[l] = "run" /\ \A m \in Loops : m # l => index'[m] = index[m]
      /\ SameBut(Todo, V, c) /\ conn[c].state # "none"
      /\ UNCHANGED <<server, stale, batch, phase, active>>
  BY DEF Running
<1>3. conn \in [Conns -> ConnRecords] /\ conn'[c] = s /\ \A d \in Conns \ {c} : conn'[d] = conn[d]
  BY <1>1, <1>2 DEF Types
<1>4. /\ DOMAIN sock' = Conns /\ \A d \in Conns : "peer" \in DOMAIN sock'[d]
      /\ \A d \in Conns : sock[d].peer = "open" => sock'[d].peer = "open"
  BY <1>1, <1>2 DEF Types, SamePeer
<1>5. /\ DOMAIN user' = Conns /\ \A d \in Conns : user'[d] \in Users
      /\ \A d \in Conns \ {c} : user'[d] = user[d]
  <2>1. DOMAIN user = Conns /\ \A d \in Conns : user[d] \in Users
    BY <1>1 DEF Types, TypeOK, Users
  <2>2. "holds" \in Users
    BY DEF Users
  <2> QED
    BY <1>2, <2>1, <2>2
<1>6. m_connectionsSet' \subseteq Conns
      /\ \A d \in Conns \ {c} : d \in m_connectionsSet' <=> d \in m_connectionsSet
  BY <1>1 DEF Types, TypeOK
<1>7. Types'
  <2>1. DOMAIN active' = Loops /\ QueueState(queue', batch', index')
    BY <1>1, <1>2 DEF Types
  <2> QED
    BY <1>1, <1>2, <1>4, <1>5, <1>6, <2>1, TypesStep DEF server
<1>8. CalledOnce'
  BY <1>1, <1>3 DEF CalledOnce
<1>9. OnlyHangupFails'
  BY <1>2 DEF OnlyHangupFails
<1>10. ASSUME failed' = "no"
       PROVE  AliveInv'
  <2>1. SameBut(Todo, Todo', c)
    BY <1>2, <1>10, SameButTrans
  <2>2. \A m \in Loops : phase[m] # "run" => index'[m] = index[m]
    BY <1>2
  <2>3. /\ \A d \in Conns \ {c} : /\ conn'[d] = conn[d] /\ user'[d] = user[d]
                                  /\ d \in m_connectionsSet' <=> d \in m_connectionsSet
        /\ Homes(Todo', conn') /\ (~stale' => ~stale)
        /\ Stage(Todo', m_connectionsSet', conn'[c], user'[c], c)
        /\ ~stale' => Fresh(Todo', m_connectionsSet', conn'[c], c)
        /\ conn'[c].loop = conn[c].loop
        /\ conn[c].epoll = "added" => conn'[c].epoll = "added" \/ active[conn[c].loop] = {}
        /\ \A m \in Loops : active'[m] \subseteq active[m]
    BY <1>2, <1>3, <1>5, <1>6, <1>10
  <2> QED
    BY <1>1, <1>2, <1>4, <2>1, <2>2, <2>3, StepOfConn
<1> QED
  BY <1>7, <1>8, <1>9, <1>10 DEF TcpInv, Alive

(* What is known of the connection whose functor is being run. *)
LEMMA RunningConn ==
  ASSUME TcpInv, Alive, NEW l \in Loops, NEW f, NEW c, NEW V, Running(l, f, c, V)
  PROVE  /\ c \in Conns /\ conn \in [Conns -> ConnRecords] /\ conn[c] \in ConnRecords
         /\ conn[c].state \in States
         /\ Stage(Todo, m_connectionsSet, conn[c], user[c], c)
         /\ ~stale => Fresh(Todo, m_connectionsSet, conn[c], c)
         /\ SamePeer(sock[c], sock[c]) /\ "peer" \in DOMAIN sock[c]
         /\ conn[c].destroyed <= conn[c].established /\ conn[c].established <= 1
         /\ failed = "no" /\ active[l] = {}
<1>1. c \in Conns /\ phase[l] = "run"
  BY DEF Running
<1>2. /\ conn \in [Conns -> ConnRecords] /\ conn[c] \in ConnRecords /\ "peer" \in DOMAIN sock[c]
      /\ conn[c].state \in States
  BY <1>1 DEF TcpInv, Types, TypeOK
<1>3. /\ Stage(Todo, m_connectionsSet, conn[c], user[c], c)
      /\ ~stale => Fresh(Todo, m_connectionsSet, conn[c], c)
  BY <1>1 DEF TcpInv, AliveInv, Lives
<1>4. active[l] = {}
  BY <1>1 DEF TcpInv, AliveInv, Rounds
<1> QED
  BY <1>1, <1>2, <1>3, <1>4 DEF TcpInv, CalledOnce, SamePeer, Alive

LEMMA CallEstablished ==
  ASSUME TcpInv, Alive, NEW l \in Loops, NEW c, NEW V, Running(l, "connectEstablished", c, V),
         conn' = [conn EXCEPT ![c] = Established(@)], ConnectionCallBack(c),
         UNCHANGED <<sock, queue, m_connectionsSet, failed>>
  PROVE  TcpInv'
<1> DEFINE S == m_connectionsSet
           r == conn[c]
           s == Established(conn[c])
<1>1. /\ c \in Conns /\ conn \in [Conns -> ConnRecords] /\ r \in ConnRecords /\ r.state \in States
      /\ Stage(Todo, S, r, user[c], c) /\ (~stale => Fresh(Todo, S, r, c))
      /\ SamePeer(sock[c], sock[c]) /\ failed = "no"
  BY RunningConn
<1>2. /\ s \in ConnRecords /\ s.loop = r.loop /\ s.state = "kConnected"
      /\ s.established = r.established + 1 /\ s.destroyed = r.destroyed
      /\ s.epoll = IF r.epoll = "deleted" THEN r.epoll ELSE "added"
  BY <1>1, EstablishedRecord
<1>3. Dropped(Todo, V, Functor("connectEstablished", c))
  BY DEF Running
<1>4. /\ QueueState(queue', batch, index') /\ V = Todo' /\ Homes(V, conn) /\ r.state # "none"
  BY DEF Running, Todo
<1>5. user' = user \/ user' = [user EXCEPT ![c] = "holds"]
  BY DEF ConnectionCallBack
<1> HIDE DEF s
<1>6. conn' = [conn EXCEPT ![c] = s]
  BY DEF s
<1>7. /\ r.established = 0 /\ r.destroyed = 0 /\ r.epoll = "new"
      /\ Stage(V, S, s, user'[c], c)
      /\ Fresh(Todo, S, r, c) => Fresh(V, S, s, c)
  BY <1>1, <1>2, <1>3, EstablishLife
<1>8. Homes(V, conn')
  <2> DEFINE cs == conn'
  <2>1. \A d \in Conns : conn[d].state # "none" =>
          cs[d].state # "none" /\ cs[d].loop = conn[d].loop
    BY <1>1, <1>2, <1>6
  <2>2. Homes(V, conn)
    BY <1>4
  <2> HIDE DEF cs
  <2>3. Homes(V, cs)
    BY <2>1, <2>2, HomesChange
  <2> QED
    BY <2>3 DEF cs
<1>9. s.destroyed <= s.established /\ s.established <= 1
  BY <1>2, <1>7
<1>10. /\ SameBut(V, Todo', c) /\ Homes(Todo', conn') /\ Stage(Todo', S', s, user'[c], c)
       /\ ~stale => Fresh(Todo', S', s, c)
       /\ r.epoll = "added" => s.epoll = "added" \/ active[conn[c].loop] = {}
  BY <1>1, <1>4, <1>7, <1>8, SameButItself
<1>11. failed' = "no" /\ S' \in {S, S \ {c}} /\ sock' = sock
  BY <1>1
<1> QED
  BY <1>1, <1>2, <1>4, <1>5, <1>6, <1>9, <1>10, <1>11, RunEnds

LEMMA CallRemove ==
  ASSUME TcpInv, Alive, NEW l \in Loops, NEW c, NEW V, Running(l, "removeConnectionInLoop", c, V),
         RemoveConnectionInLoop(c, queue), UNCHANGED <<conn, sock, user>>
  PROVE  TcpInv'
<1> DEFINE S == m_connectionsSet
           r == conn[c]
           rm == Functor("removeConnectionInLoop", c)
<1>1. /\ c \in Conns /\ conn \in [Conns -> ConnRecords] /\ r \in ConnRecords /\ r.state \in States
      /\ Stage(Todo, S, r, user[c], c) /\ (~stale => Fresh(Todo, S, r, c))
      /\ SamePeer(sock[c], sock[c]) /\ failed = "no"
      /\ r.destroyed <= r.established /\ r.established <= 1
  BY RunningConn
<1>2. /\ Dropped(Todo, V, rm) /\ QueueState(queue, batch, index') /\ Homes(V, conn)
      /\ V = TodoOf(queue, batch, index') /\ batch' = batch
  BY DEF Running
<1>3. /\ "removeConnectionInLoop" \in Funs /\ "connectDestroyed" \in Funs
      /\ "removeConnectionInLoop" \notin {"connectEstablished", "connectDestroyed"}
  BY FunNames
<1>4. Stage(V, S, r, user[c], c) /\ r.state \in Up
  BY <1>1, <1>2, <1>3, DropStage
<1>5. ~stale => /\ Fresh(V, S, r, c) /\ ~Has(V, rm)
                /\ c \in S /\ r.state = "kDisConnected"
  BY <1>1, <1>2, DropFresh DEF Fresh, Dropped
<1>6. conn' = [conn EXCEPT ![c] = r] /\ S' \in {S, S \ {c}}
  BY <1>1 DEF RemoveConnectionInLoop
<1>7. CASE c \notin S
  <2>1. queue' = queue /\ failed' # "no" /\ stale
    BY <1>5, <1>7 DEF RemoveConnectionInLoop
  <2> QED
    BY <1>1, <1>2, <1>6, <2>1, RunEnds
<1>8. CASE c \in S
  <2>1. queue' = Push(queue, r.loop, "connectDestroyed", c) /\ S' = S \ {c} /\ failed' = "no"
    BY <1>1, <1>8 DEF RemoveConnectionInLoop
  <2>2. r.loop \in Loops /\ r.state # "none"
    BY <1>1, <1>4 DEF ConnRecords, Up
  <2> DEFINE U == TodoOf(queue', batch, index')
  <2>3. /\ QueueState(queue', batch, index') /\ Appended(V, U, Functor("connectDestroyed", c))
        /\ SameBut(V, U, c) /\ NewAt(V, U, r.loop, Functor("connectDestroyed", c))
    BY <1>1, <1>2, <1>3, <2>1, <2>2, PushStep
  <2>4. U = Todo'
    BY <1>2 DEF Todo
  <2> HIDE DEF U
  <2>5. Homes(U, conn')
    <3>1. Homes(U, conn)
      BY <1>1, <1>2, <1>3, <2>2, <2>3, HomesAppend
    <3> QED
      BY <3>1
  <2>6. Stage(U, S', r, user'[c], c)
    BY <1>4, <1>8, <2>1, <2>3, RemovalStage
  <2>7. ~stale => Fresh(U, S', r, c)
    BY <1>4, <1>5, <1>8, <2>1, <2>3, RemovalFresh
  <2> QED
    BY <1>1, <1>6, <2>1, <2>3, <2>4, <2>5, <2>6, <2>7, RunEnds
<1> QED
  BY <1>7, <1>8

LEMMA CallDestroyed ==
  ASSUME TcpInv, Alive, NEW l \in Loops, NEW c, NEW V, Running(l, "connectDestroyed", c, V),
         ConnectDestroyed(c)
  PROVE  TcpInv'
<1> DEFINE S == m_connectionsSet
           r == conn[c]
           r1 == IF r.state = "kConnected" THEN HandleCloseState(r) ELSE r
           s == [RemoveChannel(r1) EXCEPT !.destroyed = @ + 1]
<1>1. /\ c \in Conns /\ conn \in [Conns -> ConnRecords] /\ r \in ConnRecords /\ r.state \in States
      /\ Stage(Todo, S, r, user[c], c) /\ (~stale => Fresh(Todo, S, r, c))
      /\ SamePeer(sock[c], sock[c]) /\ failed = "no" /\ active[l] = {}
  BY RunningConn
<1>2. /\ Dropped(Todo, V, Functor("connectDestroyed", c)) /\ QueueState(queue, batch, index')
      /\ Homes(V, conn) /\ l = r.loop /\ r.state # "none"
      /\ \A z : Holds(V, l, z) => Behind(Todo, z, Functor("connectDestroyed", c))
      /\ V = TodoOf(queue, batch, index') /\ batch' = batch
  BY DEF Running
<1>3. /\ failed' = IF RemoveAsserts(r1) THEN failed ELSE "removeChannel"
      /\ conn' = [conn EXCEPT ![c] = s] /\ UNCHANGED <<sock, queue, m_connectionsSet, user>>
  BY DEF ConnectDestroyed
<1>4. r.state \in Up /\ r.destroyed = 0 /\ r.established = 1 /\ r.epoll = "added" /\ c \notin S
  <2>1. Has(Todo, Functor("connectDestroyed", c)) /\ "connectDestroyed" \in Funs
    BY <1>2, FunNames DEF Dropped
  <2>2. r.state \in Up
    BY <1>1, <2>1 DEF Stage, States, Up
  <2> QED
    BY <1>1, <2>1, <2>2 DEF Stage
<1>5. /\ Kept(r, r1) /\ r1 \in ConnRecords /\ r1.state \in Up
      /\ r.state = "kDisConnected" => r1 = r
  <2>1. CASE r.state = "kConnected"
    BY <1>1, <2>1, CloseRecord DEF Kept, Up
  <2>2. CASE r.state # "kConnected"
    BY <1>1, <1>4, <2>2, KeptItself DEF Quiet
  <2> QED
    BY <2>1, <2>2
<1> HIDE DEF r1
<1>6. /\ s \in ConnRecords /\ s.loop = r1.loop /\ s.state = r1.state /\ s.events = r1.events
      /\ s.established = r1.established /\ s.destroyed = r1.destroyed + 1 /\ s.epoll = "deleted"
  BY <1>5, DestroyedRecord
<1> HIDE DEF s
<1>7. /\ s.loop = r.loop /\ s.state \in Up /\ s.established = r.established
      /\ s.destroyed = r.destroyed + 1
      /\ r.state = "kDisConnected" => s.state = "kDisConnected" /\ s.events = r.events
  BY <1>5, <1>6 DEF Kept
<1>8. ~stale => /\ r.state = "kDisConnected" /\ r.events = {}
                /\ \A f \in Raw : ~Has(V, Functor(f, c))
  <2> SUFFICES ASSUME ~stale
               PROVE  /\ r.state = "kDisConnected" /\ r.events = {}
                      /\ \A f \in Raw : ~Has(V, Functor(f, c))
    OBVIOUS
  <2>1. r.state = "kDisConnected" /\ r.events = {}
    BY <1>1, <1>4 DEF Fresh
  <2>2. ASSUME NEW f \in Raw, Has(V, Functor(f, c))
        PROVE  FALSE
    <3>1. PICK m \in Loops : Holds(V, m, Functor(f, c))
      BY <2>2, HoldsHas
    <3>2. Functor(f, c) \in Functors /\ Functor(f, c).fun = f /\ Functor(f, c).conn = c
      BY <1>1, FunNames, FunctorsDiffer DEF Functor
    <3>3. f # "removeConnectionInLoop"
      BY DEF Raw
    <3>4. m = l
      BY <1>2, <3>1, <3>2, <3>3 DEF Homes, Home
    <3>5. Behind(Todo, Functor(f, c), Functor("connectDestroyed", c))
      BY <1>2, <3>1, <3>4
    <3> QED
      BY <1>1, <3>5 DEF Fresh
  <2> QED
    BY <2>1, <2>2
<1>9. Stage(V, S, s, user[c], c) /\ (~stale => Fresh(V, S, s, c))
  BY <1>1, <1>2, <1>6, <1>7, <1>8, DestroyLife
<1>10. Homes(V, conn')
  <2>1. \A d \in Conns : conn[d].state # "none" =>
          conn'[d].state # "none" /\ conn'[d].loop = conn[d].loop
    BY <1>1, <1>3, <1>7 DEF Up
  <2> QED
    BY <1>2, <2>1, HomesChange
<1>11. ~stale => failed' = "no"
  <2>1. ~stale => RemoveAsserts(r1)
    BY <1>4, <1>5, <1>8 DEF RemoveAsserts
  <2> QED
    BY <1>1, <1>3, <2>1
<1>12. s.destroyed <= s.established /\ s.established <= 1
  BY <1>4, <1>7
<1>13. /\ V = Todo' /\ QueueState(queue', batch, index') /\ SameBut(V, Todo', c)
       /\ user' = user /\ sock' = sock /\ S' = S /\ active[r.loop] = {}
  BY <1>1, <1>2, <1>3, SameButItself DEF Todo
<1>14. Homes(Todo', conn') /\ Stage(Todo', S', s, user'[c], c) /\ (~stale => Fresh(Todo', S', s, c))
  BY <1>9, <1>10, <1>13
<1> QED
  BY <1>1, <1>3, <1>6, <1>7, <1>11, <1>12, <1>13, <1>14, RunEnds

LEMMA CallForceClose ==
  ASSUME TcpInv, Alive, NEW l \in Loops, NEW c, NEW V, Running(l, "forceCloseInLoop", c, V),
         IF CanClose(conn[c]) THEN HandleClose(c, l)
                              ELSE UNCHANGED <<conn, queue, m_connectionsSet, failed>>,
         UNCHANGED <<sock, user>>
  PROVE  TcpInv'
<1> DEFINE S == m_connectionsSet
           r == conn[c]
           U == TodoOf(queue', batch, index')
<1>1. /\ c \in Conns /\ conn \in [Conns -> ConnRecords] /\ r \in ConnRecords /\ r.state \in States
      /\ Stage(Todo, S, r, user[c], c) /\ (~stale => Fresh(Todo, S, r, c))
      /\ SamePeer(sock[c], sock[c]) /\ failed = "no"
      /\ r.destroyed <= r.established /\ r.established <= 1
  BY RunningConn
<1>2. /\ Dropped(Todo, V, Functor("forceCloseInLoop", c)) /\ QueueState(queue, batch, index')
      /\ Homes(V, conn) /\ V = TodoOf(queue, batch, index') /\ batch' = batch
  BY DEF Running
<1>3. /\ "forceCloseInLoop" \in Funs
      /\ "forceCloseInLoop" \notin {"connectEstablished", "connectDestroyed"}
  BY FunNames
<1>4. Stage(V, S, r, user[c], c) /\ r.state \in Up
  BY <1>1, <1>2, <1>3, DropStage
<1>5. ~stale => Fresh(V, S, r, c)
  BY <1>1, <1>2, DropFresh
<1>6. U = Todo'
  BY <1>2 DEF Todo
<1>7. CASE UNCHANGED <<conn, queue, m_connectionsSet, failed>>
  <2>1. conn' = [conn EXCEPT ![c] = r] /\ queue' = queue /\ S' = S /\ failed' = "no"
    BY <1>1, <1>7
  <2>2. V = Todo'
    BY <1>2, <1>6, <2>1
  <2>3. /\ SameBut(V, Todo', c) /\ Homes(Todo', conn') /\ Stage(Todo', S', r, user'[c], c)
        /\ ~stale => Fresh(Todo', S', r, c)
    <3>1. SameBut(V, V, c) /\ Homes(V, conn) /\ Stage(V, S, r, user[c], c)
      BY <1>2, <1>4, SameButItself
    <3>2. Homes(Todo', conn')
      BY <1>7, <2>2, <3>1
    <3> QED
      BY <1>5, <2>1, <2>2, <3>1, <3>2
  <2> QED
    BY <1>1, <1>2, <2>1, <2>3, RunEnds
<1>8. CASE HandleClose(c, l)
  <2>1. /\ QueueState(queue', batch, index')
        /\ conn' = [conn EXCEPT ![c] = conn'[c]] /\ Kept(r, conn'[c])
        /\ S' \subseteq S /\ \A d \in Conns \ {c} : d \in S' <=> d \in S
        /\ ~stale => failed' \in {"no", "handleClose"}
        /\ failed' = "no" =>
             /\ SameBut(V, U, c) /\ Homes(U, conn')
             /\ Stage(U, S', conn'[c], user[c], c)
             /\ ~stale => Fresh(U, S', conn'[c], c)
    <3>1. Types
      BY DEF TcpInv
    <3> QED
      BY <1>1, <1>2, <1>4, <1>5, <1>8, <3>1, HandleCloseStep
  <2>2. /\ conn'[c] \in ConnRecords /\ conn'[c].loop = r.loop
        /\ conn'[c].destroyed = r.destroyed /\ conn'[c].established = r.established
        /\ r.epoll = "added" => conn'[c].epoll = "added"
    BY <2>1 DEF Kept
  <2>3. S' \in {S, S \ {c}}
    <3>1. S \subseteq Conns
      BY DEF TcpInv, Types, TypeOK
    <3> QED
      BY <2>1, <3>1
  <2>4. failed' = "no" =>
          /\ SameBut(V, Todo', c) /\ Homes(Todo', conn')
          /\ Stage(Todo', S', conn'[c], user'[c], c)
          /\ ~stale => Fresh(Todo', S', conn'[c], c)
    BY <1>6, <2>1
  <2>5. conn'[c].destroyed <= conn'[c].established /\ conn'[c].established <= 1
    BY <1>1, <2>2
  <2> HIDE DEF U
  <2> QED
    BY <1>1, <2>1, <2>2, <2>3, <2>4, <2>5, RunEnds
<1> QED
  BY <1>7, <1>8

(* The functors that are bound to a raw pointer. *)
LEMMA RawIsSafe ==
  ASSUME TcpInv, Alive, NEW l \in Loops, NEW f \in Raw, NEW c, NEW V, Running(l, f, c, V), ~stale
  PROVE  conn[c].epoll # "deleted" /\ ~Deleted(c)
<1>1. /\ c \in Conns /\ Stage(Todo, m_connectionsSet, conn[c], user[c], c)
      /\ Fresh(Todo, m_connectionsSet, conn[c], c) /\ conn[c] \in ConnRecords
  BY RunningConn
<1>2. Has(Todo, Functor(f, c))
  BY DEF Running, Dropped
<1>3. conn[c].destroyed # 1
  BY <1>1, <1>2 DEF Fresh
<1>4. conn[c].epoll # "deleted"
  BY <1>1, <1>3, RegisteredIsUp DEF Stage
<1>5. ~Deleted(c)
  BY <1>1, <1>4, DeletedIsDestroyed DEF TcpInv
<1> QED
  BY <1>4, <1>5

LEMMA CallRaw ==
  ASSUME TcpInv, Alive, NEW l \in Loops, NEW f \in Raw, NEW c, NEW V, Running(l, f, c, V),
         NEW s, Quiet(conn[c], s), conn' = [conn EXCEPT ![c] = s],
         NEW k, SamePeer(sock[c], k), sock' = sock \/ sock' = [sock EXCEPT ![c] = k],
         UNCHANGED <<queue, m_connectionsSet, user>>,
         ~stale => failed' \in {"no", "SIGPIPE"}
  PROVE  TcpInv'
<1> DEFINE S == m_connectionsSet
           r == conn[c]
<1>1. /\ c \in Conns /\ conn \in [Conns -> ConnRecords] /\ r \in ConnRecords /\ r.state \in States
      /\ Stage(Todo, S, r, user[c], c) /\ (~stale => Fresh(Todo, S, r, c))
      /\ r.destroyed <= r.established /\ r.established <= 1
  BY RunningConn
<1>2. /\ Dropped(Todo, V, Functor(f, c)) /\ QueueState(queue, batch, index')
      /\ Homes(V, conn) /\ V = TodoOf(queue, batch, index') /\ batch' = batch
  BY DEF Running
<1>3. f \in Funs /\ f \notin {"connectEstablished", "connectDestroyed"}
  BY FunNames DEF Raw
<1>4. Stage(V, S, r, user[c], c) /\ r.state \in Up
  BY <1>1, <1>2, <1>3, DropStage
<1>5. ~stale => Fresh(V, S, r, c)
  BY <1>1, <1>2, DropFresh
<1>6. Stage(V, S, s, user[c], c) /\ (~stale => Fresh(V, S, s, c))
  BY <1>4, <1>5, QuietLife
<1>7. /\ s \in ConnRecords /\ s.loop = r.loop /\ s.state \in Up
      /\ s.destroyed = r.destroyed /\ s.established = r.established
      /\ r.epoll = "added" => s.epoll = "added"
  BY <1>4 DEF Quiet, Kept
<1>8. Homes(V, conn')
  <2> DEFINE cs == conn
             ds == conn'
  <2>1. \A d \in Conns : cs[d].state # "none" => ds[d].state # "none" /\ ds[d].loop = cs[d].loop
    BY <1>1, <1>7 DEF Up
  <2>2. Homes(V, cs)
    BY <1>2
  <2> HIDE DEF cs, ds
  <2>3. Homes(V, ds)
    BY <2>1, <2>2, HomesChange
  <2> QED
    BY <2>3 DEF ds
<1>9. V = Todo' /\ QueueState(queue', batch, index') /\ S' = S /\ user' = user
  BY <1>2 DEF Todo
<1>10. /\ SameBut(V, Todo', c) /\ Homes(Todo', conn') /\ Stage(Todo', S', s, user'[c], c)
       /\ ~stale => Fresh(Todo', S', s, c)
  BY <1>6, <1>8, <1>9, SameButItself
<1>11. s.destroyed <= s.established /\ s.established <= 1
  BY <1>1, <1>7
<1> QED
  BY <1>7, <1>9, <1>10, <1>11, RunEnds

LEMMA FunctorStep ==
  ASSUME TcpInv, Alive, NEW l \in Loops, RunFunctor(l)
  PROVE  TcpInv'
<1> DEFINE x == batch[l][index[l] + 1]
           c == x.conn
           V == TodoOf(queue, batch, index')
<1>1. Running(l, x.fun, c, V) /\ Call(l, x)
  BY RunningFunctor
<1> HIDE DEF x, V
<1>2. /\ c \in Conns /\ conn \in [Conns -> ConnRecords] /\ conn[c] \in ConnRecords
      /\ SamePeer(sock[c], sock[c]) /\ "peer" \in DOMAIN sock[c] /\ failed = "no"
  BY <1>1, RunningConn
<1>3. x.fun \in Funs
  BY <1>1 DEF Running
<1>4. Quiet(conn[c], conn[c]) /\ conn = [conn EXCEPT ![c] = conn[c]]
  BY <1>2, KeptItself
<1>5. CASE /\ x.fun = "connectEstablished"
           /\ conn' = [conn EXCEPT ![c] = Established(@)]
           /\ ConnectionCallBack(c)
           /\ UNCHANGED <<sock, queue, m_connectionsSet, failed>>
  BY <1>1, <1>5, CallEstablished
<1>6. CASE /\ x.fun = "removeConnectionInLoop"
           /\ RemoveConnectionInLoop(c, queue)
           /\ UNCHANGED <<conn, sock, user>>
  BY <1>1, <1>6, CallRemove
<1>7. CASE x.fun = "connectDestroyed" /\ ConnectDestroyed(c)
  BY <1>1, <1>7, CallDestroyed
<1>8. CASE /\ x.fun = "forceCloseInLoop"
           /\ IF CanClose(conn[c]) THEN HandleClose(c, l)
                                   ELSE UNCHANGED <<conn, queue, m_connectionsSet, failed>>
           /\ UNCHANGED <<sock, user>>
  BY <1>1, <1>8, CallForceClose
<1>9. CASE /\ x.fun \notin HoldsPtr /\ Deleted(c) /\ failed' = "lifetime"
           /\ UNCHANGED <<conn, sock, queue, m_connectionsSet, user>>
  <2>1. x.fun \in Raw
    BY <1>3, <1>9 DEF Funs
  <2>2. stale
    BY <1>1, <1>9, <2>1, RawIsSafe
  <2>3. conn' = [conn EXCEPT ![c] = conn[c]] /\ sock' = sock
    BY <1>4, <1>9
  <2> QED
    BY <1>1, <1>2, <1>4, <1>9, <2>1, <2>2, <2>3, CallRaw
<1>10. CASE /\ x.fun = "shutdownInLoop" /\ ~Deleted(c)
            /\ conn' = [conn EXCEPT ![c] = ShutdownInLoop(@)]
            /\ sock' = [sock EXCEPT ![c] = ShutdownWrite(conn[c], @)]
            /\ UNCHANGED <<queue, m_connectionsSet, user, failed>>
  <2>1. x.fun \in Raw
    BY <1>10 DEF Raw
  <2>2. Quiet(conn[c], ShutdownInLoop(conn[c])) /\ conn' = [conn EXCEPT ![c] = ShutdownInLoop(conn[c])]
    BY <1>2, <1>10, ShutdownQuiet
  <2>3. /\ SamePeer(sock[c], ShutdownWrite(conn[c], sock[c]))
        /\ sock' = [sock EXCEPT ![c] = ShutdownWrite(conn[c], sock[c])]
    BY <1>2, <1>10, SocketSteps
  <2> QED
    BY <1>1, <1>2, <1>10, <2>1, <2>2, <2>3, CallRaw
<1>11. CASE /\ x.fun = "sendInLoop" /\ ~Deleted(c)
            /\ \E w \in WriteResults(conn[c], sock[c]) :
                 LET sent == SendInLoop(conn[c], w) IN
                 /\ conn' = [conn EXCEPT ![c] = sent]
                 /\ sock' = [sock EXCEPT ![c] = AfterWrite(@, w)]
                 /\ failed' = IF w = "EPIPE" THEN "SIGPIPE"
                              ELSE IF sent.epoll = "deleted" /\ "W" \in sent.interest
                              THEN "updateChannel" ELSE failed
            /\ UNCHANGED <<queue, m_connectionsSet, user>>
  <2> DEFINE sent(w) == SendInLoop(conn[c], w)
  <2>1. PICK w \in WriteResults(conn[c], sock[c]) :
          /\ conn' = [conn EXCEPT ![c] = sent(w)]
          /\ sock' = [sock EXCEPT ![c] = AfterWrite(@, w)]
          /\ failed' = IF w = "EPIPE" THEN "SIGPIPE"
                       ELSE IF sent(w).epoll = "deleted" /\ "W" \in sent(w).interest
                       THEN "updateChannel" ELSE failed
    BY <1>11
  <2>2. x.fun \in Raw
    BY <1>11 DEF Raw
  <2>3. Quiet(conn[c], sent(w))
    BY <1>2, SendQuiet
  <2>4. /\ SamePeer(sock[c], AfterWrite(sock[c], w))
        /\ sock' = [sock EXCEPT ![c] = AfterWrite(sock[c], w)]
    BY <1>2, <2>1, SocketSteps
  <2> HIDE DEF sent
  <2>5. ~stale => failed' \in {"no", "SIGPIPE"}
    <3>1. ~stale => conn[c].epoll # "deleted"
      BY <1>1, <2>2, RawIsSafe
    <3>2. ~stale => conn[c].epoll = "added"
      <4>1. ASSUME ~stale
            PROVE  conn[c].epoll # "new"
        <5>1. /\ Stage(Todo, m_connectionsSet, conn[c], user[c], c)
              /\ conn[c].state \in States /\ Dropped(Todo, V, Functor(x.fun, c))
          BY <1>1, RunningConn DEF Running
        <5>2. conn[c].state \in Up
          BY <1>3, <2>2, <5>1, DropStage DEF Raw
        <5> QED
          BY <5>1, <5>2, UpChannel
      <4>2. conn[c].epoll \in {"new", "added", "deleted"}
        BY <1>2 DEF ConnRecords
      <4> QED
        BY <3>1, <4>1, <4>2
    <3>3. ~stale => sent(w).epoll = "added"
      BY <2>3, <3>2 DEF Quiet, Kept
    <3> QED
      BY <1>2, <2>1, <3>3
  <2> QED
    BY <1>1, <1>11, <2>1, <2>2, <2>3, <2>4, <2>5, CallRaw
<1> QED
  BY <1>1, <1>5, <1>6, <1>7, <1>8, <1>9, <1>10, <1>11 DEF Call

----------------------------------------------------------------------------
(* The steps that leave the connections alone. *)

LEMMA QuietStep ==
  ASSUME TcpInv,
         UNCHANGED <<m_numThreads, m_next, m_connectionsSet, conn, user, stale, queue, batch,
                     index, phase, failed>>,
         DOMAIN sock' = Conns, \A d \in Conns : "peer" \in DOMAIN sock'[d],
         \A d \in Conns : sock[d].peer = "open" => sock'[d].peer = "open",
         DOMAIN active' = Loops, \A l \in Loops : active'[l] \subseteq active[l]
  PROVE  TcpInv'
<1>1. Types'
  BY DEF TcpInv, Types, TypeOK
<1>2. CalledOnce' /\ OnlyHangupFails'
  BY DEF TcpInv, CalledOnce, OnlyHangupFails
<1>3. ASSUME failed = "no"
      PROVE  AliveInv'
  <2>1. Rounds /\ Accepted /\ Homes(Todo, conn) /\ Lives
    BY <1>3 DEF TcpInv, AliveInv, Alive
  <2>2. Todo' = Todo
    BY DEF Todo
  <2>3. Rounds'
    BY <2>1 DEF Rounds
  <2>4. Accepted'
    BY <2>1 DEF Accepted
  <2>5. Homes(Todo', conn')
    BY <2>1, <2>2
  <2>6. Lives'
    BY <2>1, <2>2 DEF Lives
  <2> QED
    BY <2>3, <2>4, <2>5, <2>6 DEF AliveInv
<1> QED
  BY <1>1, <1>2, <1>3 DEF TcpInv, Alive

LEMMA PeerStep ==
  ASSUME TcpInv, NEW c \in Conns, Peer(c)
  PROVE  TcpInv'
<1>1. /\ UNCHANGED <<m_numThreads, m_next, m_connectionsSet, conn, user, stale, queue, batch,
                     index, phase, failed>>
      /\ active' = active
  BY DEF Peer, server, loopVars
<1>2. DOMAIN sock = Conns /\ (\A d \in Conns : "peer" \in DOMAIN sock[d]) /\ DOMAIN active = Loops
  BY DEF TcpInv, Types
<1>3. /\ DOMAIN sock' = Conns /\ \A d \in Conns : "peer" \in DOMAIN sock'[d]
      /\ \A d \in Conns : sock[d].peer = "open" => sock'[d].peer = "open"
  <2>1. CASE PeerConnects(c)
    BY <1>2, <2>1 DEF PeerConnects
  <2>2. CASE PeerSends(c)
    BY <1>2, <2>2 DEF PeerSends
  <2>3. CASE PeerCloses(c)
    BY <1>2, <2>3 DEF PeerCloses
  <2>4. CASE PeerResets(c)
    BY <1>2, <2>4 DEF PeerResets
  <2> QED
    BY <2>1, <2>2, <2>3, <2>4 DEF Peer
<1> QED
  BY <1>1, <1>2, <1>3, QuietStep

LEMMA ListenStep ==
  ASSUME TcpInv, StartListen
  PROVE  TcpInv'
<1>1. DOMAIN sock = Conns /\ (\A d \in Conns : "peer" \in DOMAIN sock[d]) /\ DOMAIN active = Loops
  BY DEF TcpInv, Types
<1> QED
  BY <1>1, QuietStep DEF StartListen, loopVars

LEMMA StutterStep ==
  ASSUME TcpInv, UNCHANGED vars
  PROVE  TcpInv'
<1>1. DOMAIN sock = Conns /\ (\A d \in Conns : "peer" \in DOMAIN sock[d]) /\ DOMAIN active = Loops
  BY DEF TcpInv, Types
<1> QED
  BY <1>1, QuietStep DEF vars

LEMMA PollStep ==
  ASSUME TcpInv, Alive, NEW l \in Loops, Poll(l)
  PROVE  TcpInv'
<1> DEFINE accepts == l = Base /\ \E c \in Conns : sock[c].peer = "connecting"
           events == {[conn |-> c, revents |-> Revents(c)] : c \in Ready(l)}
<1>1. /\ phase[l] = "poll"
      /\ active' = [active EXCEPT ![l] = events \cup (IF accepts THEN {Acceptor} ELSE {})]
      /\ phase' = [phase EXCEPT ![l] = "dispatch"]
      /\ UNCHANGED <<server, m_connectionsSet, conn, sock, user, stale, queue, batch, index, failed>>
  BY DEF Poll
<1>2. \A e \in events : e.conn \in Conns /\ conn[e.conn].loop = l /\ conn[e.conn].epoll = "added"
  BY DEF Ready
<1> HIDE DEF accepts, events
<1>3. Types /\ AliveInv
  BY DEF TcpInv
<1>4. Types'
  BY <1>1, <1>3 DEF Types, TypeOK, server
<1>5. CalledOnce' /\ OnlyHangupFails'
  BY <1>1 DEF TcpInv, CalledOnce, OnlyHangupFails
<1>6. Rounds'
  <2>1. /\ \A m \in Loops \ {l} : active'[m] = active[m] /\ phase'[m] = phase[m]
        /\ phase'[l] = "dispatch"
        /\ \A e \in active'[l] : e \in events \/ e = Acceptor
    BY <1>1, <1>3 DEF Types
  <2>2. batch'[l] = <<>> /\ index'[l] = 0
    BY <1>1, <1>3 DEF AliveInv, Rounds
  <2>3. ASSUME NEW m \in Loops
        PROVE  /\ phase'[m] # "run" => batch'[m] = <<>> /\ index'[m] = 0
               /\ phase'[m] # "dispatch" => active'[m] = {}
               /\ \A e \in active'[m] : e # Acceptor =>
                    e.conn \in Conns /\ conn'[e.conn].loop = m /\ conn'[e.conn].epoll = "added"
    <3>1. CASE m = l
      BY <1>1, <1>2, <2>1, <2>2, <3>1
    <3>2. CASE m # l
      BY <1>1, <1>3, <2>1, <3>2 DEF AliveInv, Rounds
    <3> QED
      BY <3>1, <3>2
  <2> QED
    BY <2>3 DEF Rounds
<1>7. Todo' = Todo
  BY <1>1 DEF Todo
<1>8. Accepted' /\ Lives'
  BY <1>1, <1>3, <1>7 DEF AliveInv, Accepted, Lives
<1>9. Homes(Todo', conn')
  <2>1. Homes(Todo, conn) /\ conn' = conn
    BY <1>1, <1>3 DEF AliveInv
  <2> QED
    BY <1>7, <2>1
<1> QED
  BY <1>4, <1>5, <1>6, <1>8, <1>9 DEF TcpInv, AliveInv

LEMMA TakeStep ==
  ASSUME TcpInv, Alive, NEW l \in Loops, TakeFunctors(l)
  PROVE  TcpInv'
<1>1. /\ phase[l] = "dispatch" /\ active[l] = {} /\ phase' = [phase EXCEPT ![l] = "run"]
      /\ batch' = [batch EXCEPT ![l] = queue[l]] /\ queue' = [queue EXCEPT ![l] = <<>>]
      /\ UNCHANGED <<server, m_connectionsSet, conn, sock, user, stale, index, active, failed>>
  BY DEF TakeFunctors
<1>2. Types /\ AliveInv
  BY DEF TcpInv
<1>3. batch[l] = <<>> /\ index[l] = 0
  BY <1>1, <1>2 DEF AliveInv, Rounds
<1>4. QueueState(queue, batch, index)
  BY <1>2, QueueTypes
<1>5. QueueState(queue', batch', index') /\ Todo' = Todo
  <2>1. /\ QueueState([queue EXCEPT ![l] = <<>>], [batch EXCEPT ![l] = queue[l]], index)
        /\ TodoOf([queue EXCEPT ![l] = <<>>], [batch EXCEPT ![l] = queue[l]], index)
             = TodoOf(queue, batch, index)
    BY <1>3, <1>4, TakeTodo
  <2> QED
    BY <1>1, <2>1 DEF Todo
<1>6. Types'
  <2>1. \A m \in Loops : index'[m] \in 0 .. Len(batch'[m])
    BY <1>5, LenProperties DEF QueueState
  <2>2. DOMAIN phase' = Loops /\ \A m \in Loops : phase'[m] \in {"poll", "dispatch", "run"}
    BY <1>1, <1>2 DEF Types, TypeOK
  <2>3. TypeOK'
    BY <1>1, <1>2, <2>1, <2>2 DEF Types, TypeOK, server
  <2> QED
    BY <1>1, <1>2, <1>5, <2>2, <2>3 DEF Types, QueueState
<1>7. CalledOnce' /\ OnlyHangupFails'
  BY <1>1 DEF TcpInv, CalledOnce, OnlyHangupFails
<1>8. Rounds'
  <2>1. /\ phase'[l] = "run"
        /\ \A m \in Loops \ {l} : phase'[m] = phase[m] /\ batch'[m] = batch[m]
    BY <1>1, <1>2 DEF Types
  <2> QED
    BY <1>1, <1>2, <2>1 DEF AliveInv, Rounds
<1>9. Accepted' /\ Lives'
  BY <1>1, <1>2, <1>5 DEF AliveInv, Accepted, Lives
<1>10. Homes(Todo', conn')
  <2>1. Homes(Todo, conn) /\ conn' = conn
    BY <1>1, <1>2 DEF AliveInv
  <2> QED
    BY <1>5, <2>1
<1> QED
  BY <1>6, <1>7, <1>8, <1>9, <1>10 DEF TcpInv, AliveInv

(* ~TcpConnection finds the connection closed. *)
LEMMA DtorAssertHolds ==
  ASSUME TcpInv, Alive, ~stale, UNCHANGED <<m_connectionsSet, conn>>
  PROVE  DtorAssert
<1> SUFFICES ASSUME NEW c \in Conns, Deleted(c)'
             PROVE  conn'[c].state = "kDisConnected"
  BY DEF DtorAssert
<1>1. conn[c].state # "none" /\ c \notin m_connectionsSet
  BY DEF Deleted, Referenced
<1>2. /\ conn[c].state \in States /\ Stage(Todo, m_connectionsSet, conn[c], user[c], c)
      /\ Fresh(Todo, m_connectionsSet, conn[c], c)
  BY DEF TcpInv, AliveInv, Types, TypeOK, Lives
<1>3. conn[c].state \in Up
  BY <1>1, <1>2 DEF Stage, States, Up
<1> QED
  BY <1>1, <1>2, <1>3 DEF Fresh

LEMMA DoneStep ==
  ASSUME TcpInv, Alive, NEW l \in Loops, FunctorsDone(l)
  PROVE  TcpInv'
<1>1. /\ phase[l] = "run" /\ index[l] = Len(batch[l]) /\ phase' = [phase EXCEPT ![l] = "poll"]
      /\ batch' = [batch EXCEPT ![l] = <<>>] /\ index' = [index EXCEPT ![l] = 0]
      /\ UNCHANGED <<server, m_connectionsSet, conn, sock, user, stale, queue, active>>
      /\ failed' = IF DtorAssert THEN failed ELSE "dtor"
  BY DEF FunctorsDone
<1>2. Types /\ AliveInv /\ failed = "no"
  BY DEF TcpInv, Alive
<1>3. QueueState(queue, batch, index)
  BY <1>2, QueueTypes
<1>4. QueueState(queue', batch', index') /\ Todo' = Todo
  <2>1. index[l] = Len(batch[l])
    BY <1>1
  <2>2. /\ QueueState(queue, [batch EXCEPT ![l] = <<>>], [index EXCEPT ![l] = 0])
        /\ TodoOf(queue, [batch EXCEPT ![l] = <<>>], [index EXCEPT ![l] = 0])
             = TodoOf(queue, batch, index)
    BY <1>3, <2>1, DoneTodo
  <2> QED
    BY <1>1, <2>2 DEF Todo
<1>5. ~stale => DtorAssert
  BY <1>1, DtorAssertHolds
<1>6. Types'
  <2>1. \A m \in Loops : index'[m] \in 0 .. Len(batch'[m])
    BY <1>4, LenProperties DEF QueueState
  <2>2. DOMAIN phase' = Loops /\ \A m \in Loops : phase'[m] \in {"poll", "dispatch", "run"}
    BY <1>1, <1>2 DEF Types, TypeOK
  <2>3. TypeOK'
    BY <1>1, <1>2, <2>1, <2>2 DEF Types, TypeOK, server
  <2> QED
    BY <1>1, <1>2, <1>4, <2>2, <2>3 DEF Types, QueueState
<1>7. CalledOnce'
  BY <1>1 DEF TcpInv, CalledOnce
<1>8. OnlyHangupFails'
  BY <1>1, <1>2, <1>5 DEF OnlyHangupFails
<1>9. Rounds'
  <2>1. /\ phase'[l] = "poll" /\ batch'[l] = <<>> /\ index'[l] = 0
        /\ \A m \in Loops \ {l} : phase'[m] = phase[m] /\ batch'[m] = batch[m] /\ index'[m] = index[m]
    BY <1>1, <1>2 DEF Types
  <2> QED
    BY <1>1, <1>2, <2>1 DEF AliveInv, Rounds
<1>10. Accepted' /\ Lives'
  BY <1>1, <1>2, <1>4 DEF AliveInv, Accepted, Lives
<1>11. Homes(Todo', conn')
  <2>1. Homes(Todo, conn) /\ conn' = conn
    BY <1>1, <1>2 DEF AliveInv
  <2> QED
    BY <1>4, <2>1
<1> QED
  BY <1>6, <1>7, <1>8, <1>9, <1>10, <1>11 DEF TcpInv, AliveInv

----------------------------------------------------------------------------
(* The application's thread. *)

LEMMA HeldIsUp ==
  ASSUME TcpInv, Alive, NEW c \in Conns, user[c] # "none"
  PROVE  conn[c].state \in Up
<1>1. conn[c].state \in States /\ Stage(Todo, m_connectionsSet, conn[c], user[c], c)
  BY DEF TcpInv, AliveInv, Types, TypeOK, Lives
<1> QED
  BY <1>1 DEF Stage, States, Up

(* It does something with connection c: u is what it does then, s what the *)
(* connection becomes.                                                     *)
LEMMA UserStep ==
  ASSUME TcpInv, Alive, NEW c \in Conns, user[c] # "none",
         NEW s, Kept(conn[c], s), s.state \in Up, conn' = conn \/ conn' = [conn EXCEPT ![c] = s],
         conn' = conn => s = conn[c],
         NEW u \in Users, user' = [user EXCEPT ![c] = u],
         QueueState(queue', batch, index), SameBut(Todo, Todo', c), Homes(Todo', conn),
         Stage(Todo', m_connectionsSet, conn[c], user[c], c),
         ~stale' => ~stale /\ Fresh(Todo', m_connectionsSet, s, c),
         UNCHANGED <<m_numThreads, m_next, m_connectionsSet, sock, batch, index, phase, active>>,
         ~stale' => failed' = "no"
  PROVE  TcpInv'
<1>1. Types /\ AliveInv /\ CalledOnce
  BY DEF TcpInv
<1>2. conn \in [Conns -> ConnRecords] /\ conn[c].state \in Up
  BY <1>1, HeldIsUp DEF Types
<1>3. /\ s \in ConnRecords /\ s.loop = conn[c].loop /\ s.established = conn[c].established
      /\ s.destroyed = conn[c].destroyed /\ s.epoll = conn[c].epoll
  <2>1. conn[c].epoll # "new"
    BY <1>2, UpChannel
  <2> QED
    BY <2>1 DEF Kept
<1>4. conn' = [conn EXCEPT ![c] = s] /\ conn'[c] = s /\ \A d \in Conns \ {c} : conn'[d] = conn[d]
  BY <1>2
<1>5. /\ DOMAIN user' = Conns /\ \A d \in Conns : user'[d] \in Users
      /\ \A d \in Conns \ {c} : user'[d] = user[d]
  BY <1>1 DEF Types, TypeOK, Users
<1>6. Types'
  <2>1. /\ DOMAIN sock' = Conns /\ (\A d \in Conns : "peer" \in DOMAIN sock'[d])
        /\ m_connectionsSet' \subseteq Conns /\ DOMAIN active' = Loops
        /\ QueueState(queue', batch', index')
    BY <1>1 DEF Types, TypeOK
  <2> QED
    BY <1>1, <1>3, <1>4, <1>5, <2>1, TypesStep
<1>7. CalledOnce'
  BY <1>1, <1>3, <1>4, CountsKept
<1>8. OnlyHangupFails'
  BY DEF OnlyHangupFails
<1>9. AliveInv'
  <2>1. Stage(Todo', m_connectionsSet', conn'[c], user'[c], c)
    <3>1. StaysUp(conn[c], s)
      BY <1>2, <1>3 DEF StaysUp
    <3>2. Stage(Todo', m_connectionsSet, s, user'[c], c)
      BY <3>1, UpStage
    <3> QED
      BY <1>4, <3>2
  <2>2. ~stale' => Fresh(Todo', m_connectionsSet', conn'[c], c)
    BY <1>4
  <2>3. Homes(Todo', conn')
    <3> DEFINE cs == conn'
               U == Todo'
    <3>1. \A d \in Conns : conn[d].state # "none" =>
            cs[d].state # "none" /\ cs[d].loop = conn[d].loop
      BY <1>3, <1>4 DEF Up
    <3>2. Homes(U, conn)
      OBVIOUS
    <3> HIDE DEF cs, U
    <3>3. Homes(U, cs)
      BY <3>1, <3>2, HomesChange
    <3> QED
      BY <3>3 DEF cs, U
  <2>4. /\ conn[c].state # "none" /\ conn'[c].loop = conn[c].loop
        /\ conn[c].epoll = "added" => conn'[c].epoll = "added"
        /\ \A l \in Loops : active'[l] \subseteq active[l]
        /\ \A d \in Conns \ {c} : /\ conn'[d] = conn[d] /\ user'[d] = user[d]
                                  /\ d \in m_connectionsSet' <=> d \in m_connectionsSet
    BY <1>2, <1>3, <1>4, <1>5 DEF Up
  <2> QED
    BY <1>1, <2>1, <2>2, <2>3, <2>4, StepOfConn
<1> QED
  BY <1>6, <1>7, <1>8, <1>9 DEF TcpInv

(* What UserStep needs when nothing is queued. *)
LEMMA UserLife ==
  ASSUME TcpInv, Alive, NEW c \in Conns, UNCHANGED <<queue, batch, index, stale>>
  PROVE  /\ QueueState(queue', batch, index) /\ SameBut(Todo, Todo', c) /\ Homes(Todo', conn)
         /\ Stage(Todo', m_connectionsSet, conn[c], user[c], c)
         /\ ~stale' => ~stale /\ Fresh(Todo', m_connectionsSet, conn[c], c)
         /\ Kept(conn[c], conn[c])
<1>1. Todo' = Todo
  BY DEF Todo
<1>2. /\ QueueState(queue, batch, index) /\ Homes(Todo, conn) /\ conn[c] \in ConnRecords
      /\ Stage(Todo, m_connectionsSet, conn[c], user[c], c)
      /\ ~stale => Fresh(Todo, m_connectionsSet, conn[c], c)
  BY QueueTypes DEF TcpInv, AliveInv, Lives, Types
<1>3. Kept(conn[c], conn[c]) /\ SameBut(Todo, Todo, c)
  BY <1>2, KeptItself, SameButItself DEF Quiet
<1> QED
  BY <1>1, <1>2, <1>3

LEMMA UserTestsStep ==
  ASSUME TcpInv, Alive, NEW c \in Conns, UserTests(c)
  PROVE  TcpInv'
<1>1. /\ user[c] = "holds"
      /\ UNCHANGED <<m_numThreads, m_next, m_connectionsSet, conn, sock, stale, queue, batch,
                     index, phase, active, failed>>
  BY DEF UserTests, loopVars
<1>2. PICK op \in UserOps : user' = [user EXCEPT ![c] = op]
  BY DEF UserTests
<1>3. user[c] # "none" /\ op \in Users /\ failed' = "no"
  BY <1>1 DEF Users, Alive
<1>4. /\ QueueState(queue', batch, index) /\ SameBut(Todo, Todo', c) /\ Homes(Todo', conn)
      /\ Stage(Todo', m_connectionsSet, conn[c], user[c], c)
      /\ ~stale' => ~stale /\ Fresh(Todo', m_connectionsSet, conn[c], c)
      /\ Kept(conn[c], conn[c])
  BY <1>1, UserLife
<1>5. conn[c].state \in Up
  BY <1>3, HeldIsUp
<1> QED
  BY <1>1, <1>2, <1>3, <1>4, <1>5, UserStep

LEMMA UserReleasesStep ==
  ASSUME TcpInv, Alive, NEW c \in Conns, UserReleases(c)
  PROVE  TcpInv'
<1>1. /\ user[c] # "none" /\ user' = [user EXCEPT ![c] = "none"]
      /\ UNCHANGED <<m_numThreads, m_next, m_connectionsSet, conn, sock, stale, queue, batch,
                     index, phase, active>>
      /\ failed' = IF DtorAssert THEN failed ELSE "dtor"
  BY DEF UserReleases, server, loopVars
<1>2. "none" \in Users /\ failed = "no"
  BY DEF Users, Alive
<1>3. /\ QueueState(queue', batch, index) /\ SameBut(Todo, Todo', c) /\ Homes(Todo', conn)
      /\ Stage(Todo', m_connectionsSet, conn[c], user[c], c)
      /\ ~stale' => ~stale /\ Fresh(Todo', m_connectionsSet, conn[c], c)
      /\ Kept(conn[c], conn[c])
  BY <1>1, UserLife
<1>4. conn[c].state \in Up
  BY <1>1, HeldIsUp
<1>5. ~stale => DtorAssert
  BY <1>1, DtorAssertHolds
<1>6. ~stale' => failed' = "no"
  BY <1>1, <1>2, <1>5
<1> QED
  BY <1>1, <1>2, <1>3, <1>4, <1>6, UserStep

(* It sets m_state: unless the loop has closed the connection meanwhile,   *)
(* what is queued for the connection keeps its order.                      *)
LEMMA UserSetsStep ==
  ASSUME TcpInv, Alive, NEW c \in Conns, UserSets(c)
  PROVE  TcpInv'
<1> DEFINE r == conn[c]
           S == m_connectionsSet
           s == [r EXCEPT !.state = "kDisConnecting"]
           u == IF user[c] = "shutdown" THEN "shutdownInLoop" ELSE "forceCloseInLoop"
<1>1. /\ user[c] \in {"shutdown", "forceClose"}
      /\ conn' = [conn EXCEPT ![c].state = "kDisConnecting"]
      /\ stale' = (stale \/ ~CanClose(r))
      /\ UNCHANGED <<m_numThreads, m_next, m_connectionsSet, sock, queue, batch, index, phase,
                     active, failed>>
  BY DEF UserSets, server, loopVars
<1>2. /\ Types /\ QueueState(queue, batch, index) /\ Homes(Todo, conn) /\ r \in ConnRecords
      /\ conn \in [Conns -> ConnRecords] /\ DOMAIN user = Conns
      /\ Stage(Todo, S, r, user[c], c) /\ (~stale => Fresh(Todo, S, r, c))
  BY QueueTypes DEF TcpInv, AliveInv, Lives, Types
<1>3. user[c] # "none" /\ r.state \in Up
  BY <1>1, HeldIsUp
<1>4. user' = [user EXCEPT ![c] = u] /\ u \in Users
  BY <1>2 DEF UserSets, Users
<1>5. conn' = [conn EXCEPT ![c] = s] /\ conn'[c] = s
  BY <1>1, <1>2
<1>6. Kept(r, s) /\ s.state \in Up
  BY <1>2, <1>3, DisConnectingRecord DEF Up
<1>7. Todo' = Todo /\ SameBut(Todo, Todo, c)
  BY <1>1, SameButItself DEF Todo
<1>8. ASSUME ~stale'
      PROVE  ~stale /\ Fresh(Todo, S, s, c)
  <2>1. ~stale /\ r.state \in {"kConnected", "kDisConnecting"}
    BY <1>1, <1>8 DEF CanClose
  <2>2. Quiet(r, s)
    BY <1>2, <1>3, <2>1, DisConnectingRecord DEF Up
  <2> QED
    BY <1>2, <1>3, <2>1, <2>2, QuietLife
<1>9. failed' = "no"
  BY <1>1 DEF Alive
<1> HIDE DEF s, u
<1> QED
  BY <1>1, <1>2, <1>3, <1>4, <1>5, <1>6, <1>7, <1>8, <1>9, UserStep

(* It queues the functor: unless the loop has closed the connection        *)
(* meanwhile, connectDestroyed is not queued before it.                    *)
LEMMA UserQueuesStep ==
  ASSUME TcpInv, Alive, NEW c \in Conns, UserQueues(c)
  PROVE  TcpInv'
<1> DEFINE r == conn[c]
           S == m_connectionsSet
           f == IF user[c] = "send" THEN "sendInLoop" ELSE user[c]
<1>1. /\ user[c] \in {"send", "shutdownInLoop", "forceCloseInLoop"}
      /\ queue' = Push(queue, r.loop, f, c)
      /\ user' = [user EXCEPT ![c] = "holds"]
      /\ stale' = (stale \/ ~CanClose(r))
      /\ UNCHANGED <<m_numThreads, m_next, m_connectionsSet, conn, sock, batch, index, phase,
                     active, failed>>
  BY DEF UserQueues, server
<1>2. f \in Raw \cup {"forceCloseInLoop"} /\ user[c] # "none"
  BY <1>1 DEF Raw
<1>3. f \in Funs /\ f \notin {"connectEstablished", "connectDestroyed", "removeConnectionInLoop"}
  BY <1>2, FunNames DEF Raw
<1> HIDE DEF f
<1>4. /\ Types /\ QueueState(queue, batch, index) /\ Homes(Todo, conn) /\ r \in ConnRecords
      /\ Stage(Todo, S, r, user[c], c) /\ (~stale => Fresh(Todo, S, r, c))
  BY QueueTypes DEF TcpInv, AliveInv, Lives, Types
<1>5. r.state \in Up /\ r.state # "none" /\ r.loop \in Loops
  BY <1>2, <1>4, HeldIsUp DEF Up, ConnRecords
<1> DEFINE T == Todo
           U == Todo'
<1>6. /\ QueueState(queue', batch, index) /\ Appended(T, U, Functor(f, c))
      /\ SameBut(T, U, c) /\ NewAt(T, U, r.loop, Functor(f, c))
  <2>1. T = TodoOf(queue, batch, index) /\ U = TodoOf(Push(queue, r.loop, f, c), batch, index)
    BY <1>1 DEF Todo
  <2> HIDE DEF T, U
  <2> QED
    BY <1>1, <1>3, <1>4, <1>5, <2>1, PushStep
<1>7. Homes(U, conn) /\ Stage(U, S, r, user[c], c)
  <2>1. Homes(T, conn) /\ Stage(T, S, r, user[c], c)
    BY <1>4
  <2> HIDE DEF T, U
  <2>2. Homes(U, conn)
    BY <1>3, <1>5, <1>6, <2>1, HomesAppend
  <2>3. Stage(U, S, r, user[c], c)
    BY <1>3, <1>5, <1>6, <2>1, AppendStage
  <2> QED
    BY <2>2, <2>3
<1>8. ASSUME ~stale'
      PROVE  ~stale /\ Fresh(U, S, r, c)
  <2>1. ~stale /\ r.state # "kDisConnected"
    BY <1>1, <1>8 DEF CanClose
  <2>2. Fresh(T, S, r, c) /\ Stage(T, S, r, user[c], c)
    BY <1>4, <2>1
  <2> HIDE DEF T, U
  <2>3. Fresh(U, S, r, c)
    BY <1>2, <1>5, <1>6, <2>1, <2>2, AppendFresh
  <2> QED
    BY <2>1, <2>3
<1>9. "holds" \in Users /\ failed' = "no" /\ Kept(r, r)
  BY <1>1, <1>4, KeptItself DEF Users, Alive, Quiet
<1> QED
  BY <1>1, <1>2, <1>5, <1>6, <1>7, <1>8, <1>9, UserStep

----------------------------------------------------------------------------
(* The Acceptor. *)

LEMMA PoolIndex ==
  ASSUME TypeOK
  PROVE  /\ NextLoop \in 0 .. m_numThreads /\ NextLoop \in Loops
         /\ NextIndex \in 0 .. MaxThreads
         /\ m_numThreads > 0 => NextIndex < m_numThreads
BY TcpServerAssumption DEF TypeOK, NextLoop, NextIndex, Base, Loops

LEMMA AcceptStep ==
  ASSUME TcpInv, Alive, NEW c \in Conns, sock[c].peer = "connecting",
         sock' = [sock EXCEPT ![c].peer = "open"], NewConnetion(c), NEW e,
         active' = [active EXCEPT ![Base] = @ \ {e}],
         UNCHANGED <<m_numThreads, m_listenning, stale, batch, index, phase, failed>>
  PROVE  TcpInv'
<1> DEFINE r == conn[c]
           S == m_connectionsSet
           T == Todo
           U == Todo'
<1>1. Types /\ AliveInv /\ CalledOnce /\ failed = "no"
  BY DEF TcpInv, Alive
<1>2. /\ conn \in [Conns -> ConnRecords] /\ DOMAIN user = Conns /\ DOMAIN active = Loops
      /\ QueueState(queue, batch, index) /\ T = TodoOf(queue, batch, index)
      /\ U = TodoOf(queue', batch, index)
  BY <1>1, QueueTypes DEF Types, Todo
<1>3. r.state = "none"
  BY <1>1 DEF AliveInv, Accepted
<1>4. /\ Stage(T, S, r, user[c], c) /\ (~stale => Fresh(T, S, r, c)) /\ Homes(T, conn)
  BY <1>1 DEF AliveInv, Lives
<1>5. r.epoll = "new" /\ user[c] = "none"
  BY <1>3, <1>4 DEF Stage, NoConn, NewConn
<1>6. /\ NextLoop \in 0 .. m_numThreads /\ NextLoop \in Loops
      /\ NextIndex \in 0 .. MaxThreads
      /\ m_numThreads > 0 => NextIndex < m_numThreads
  BY <1>1, PoolIndex DEF Types
<1>7. S' = S \cup {c} /\ m_next' = NextIndex
  BY DEF NewConnetion
(* What becomes of the connection, of its user and of the queues. *)
<1>8. \E s \in ConnRecords :
        /\ conn' = [conn EXCEPT ![c] = s] /\ s.loop = NextLoop /\ s.state # "none"
        /\ s.destroyed <= s.established /\ s.established <= 1
        /\ DOMAIN user' = Conns /\ \A d \in Conns : user'[d] \in Users
        /\ \A d \in Conns \ {c} : user'[d] = user[d]
        /\ QueueState(queue', batch, index) /\ SameBut(T, U, c)
        /\ \A m \in Loops : \A y : Holds(U, m, y) =>
             Holds(T, m, y) \/ (m = NextLoop /\ y = Functor("connectEstablished", c))
        /\ Stage(U, S', s, user'[c], c) /\ (~stale => Fresh(U, S', s, c))
  <2>1. CASE NextLoop = Base
    <3> DEFINE s == Established(NewConn(Base))
    <3>1. /\ conn' = [conn EXCEPT ![c] = s] /\ ConnectionCallBack(c) /\ queue' = queue
      BY <2>1 DEF NewConnetion
    <3>2. /\ NewConn(Base) \in ConnRecords /\ NewConn(Base).loop = Base
          /\ NewConn(Base).established = 0 /\ NewConn(Base).destroyed = 0
          /\ NewConn(Base).epoll = "new"
      BY BaseIsLoop, NewConnRecord
    <3>3. /\ s \in ConnRecords /\ s.loop = Base /\ s.state = "kConnected"
          /\ s.established = 1 /\ s.destroyed = 0 /\ s.epoll = "added"
      <4> DEFINE n == NewConn(Base)
      <4> HIDE DEF n
      <4>1. n \in ConnRecords /\ n.loop = Base /\ n.established = 0 /\ n.destroyed = 0 /\ n.epoll = "new"
        BY <3>2 DEF n
      <4>2. /\ Established(n) \in ConnRecords /\ Established(n).loop = n.loop
            /\ Established(n).state = "kConnected"
            /\ Established(n).established = n.established + 1
            /\ Established(n).destroyed = n.destroyed
            /\ Established(n).epoll = IF n.epoll = "deleted" THEN n.epoll ELSE "added"
        BY <4>1, EstablishedRecord
      <4>3. s = Established(n)
        BY DEF n
      <4> HIDE DEF s
      <4> QED
        BY <4>1, <4>2, <4>3
    <3> HIDE DEF s
    <3>4. U = T
      BY <1>2, <3>1
    <3>5. Stage(T, S', s, user'[c], c) /\ (~stale => Fresh(T, S', s, c))
      <4> HIDE DEF T
      <4> QED
        BY <1>3, <1>4, <1>7, <3>3, AcceptHere
    <3>6. user' = user \/ user' = [user EXCEPT ![c] = "holds"]
      BY <3>1 DEF ConnectionCallBack
    <3>7. /\ DOMAIN user' = Conns /\ \A d \in Conns : user'[d] \in Users
          /\ \A d \in Conns \ {c} : user'[d] = user[d]
      BY <1>1, <1>2, <3>6 DEF Types, TypeOK, Users
    <3>8. SameBut(T, U, c) /\ QueueState(queue', batch, index)
      BY <1>2, <3>1, <3>4, SameButItself
    <3>9. Stage(U, S', s, user'[c], c) /\ (~stale => Fresh(U, S', s, c))
      BY <3>4, <3>5
    <3>10. \A m \in Loops : \A y : Holds(U, m, y) => Holds(T, m, y)
      BY <3>4
    <3>11. s.loop = NextLoop /\ s.state # "none" /\ s.destroyed <= s.established /\ s.established <= 1
      BY <2>1, <3>3
    <3> HIDE DEF T, U
    <3> QED
      BY <3>1, <3>3, <3>7, <3>8, <3>9, <3>10, <3>11
  <2>2. CASE NextLoop # Base
    <3> DEFINE s == NewConn(NextLoop)
    <3>1. /\ conn' = [conn EXCEPT ![c] = s] /\ user' = user
          /\ queue' = Push(queue, NextLoop, "connectEstablished", c)
      BY <2>2 DEF NewConnetion
    <3>2. /\ s \in ConnRecords /\ s.loop = NextLoop /\ s.state = "kConnecting"
          /\ s.established = 0 /\ s.destroyed = 0 /\ s.epoll = "new"
      BY <1>6, NewConnRecord
    <3> HIDE DEF s
    <3>3. "connectEstablished" \in Funs
      BY FunNames
    <3>4. /\ QueueState(queue', batch, index)
          /\ Appended(T, U, Functor("connectEstablished", c)) /\ SameBut(T, U, c)
          /\ NewAt(T, U, NextLoop, Functor("connectEstablished", c))
      <4> HIDE DEF T, U
      <4> QED
        BY <1>2, <1>6, <3>1, <3>3, PushStep
    <3>5. Stage(U, S', s, user[c], c) /\ (~stale => Fresh(U, S', s, c))
      <4> HIDE DEF T, U
      <4> QED
        BY <1>3, <1>4, <1>7, <3>2, <3>4, AcceptThere
    <3>6. DOMAIN user' = Conns /\ \A d \in Conns : user'[d] \in Users
      BY <1>1, <1>2, <3>1 DEF Types, TypeOK, Users
    <3>7. s.state # "none" /\ s.destroyed <= s.established /\ s.established <= 1
      BY <3>2
    <3>8. \A m \in Loops : \A y : Holds(U, m, y) =>
            Holds(T, m, y) \/ (m = NextLoop /\ y = Functor("connectEstablished", c))
      BY <3>4 DEF NewAt
    <3>9. Stage(U, S', s, user'[c], c)
      BY <3>1, <3>5
    <3> HIDE DEF T, U
    <3> QED
      BY <3>1, <3>2, <3>4, <3>5, <3>6, <3>7, <3>8, <3>9
  <2> QED
    BY <2>1, <2>2
<1>9. PICK s \in ConnRecords :
        /\ conn' = [conn EXCEPT ![c] = s] /\ s.loop = NextLoop /\ s.state # "none"
        /\ s.destroyed <= s.established /\ s.established <= 1
        /\ DOMAIN user' = Conns /\ \A d \in Conns : user'[d] \in Users
        /\ \A d \in Conns \ {c} : user'[d] = user[d]
        /\ QueueState(queue', batch, index) /\ SameBut(T, U, c)
        /\ NewAt(T, U, NextLoop, Functor("connectEstablished", c))
        /\ Stage(U, S', s, user'[c], c) /\ (~stale => Fresh(U, S', s, c))
  <2> HIDE DEF T, U
  <2> QED
    BY <1>8 DEF NewAt
<1>10. /\ conn' \in [Conns -> ConnRecords] /\ conn'[c] = s
       /\ \A d \in Conns \ {c} : conn'[d] = conn[d]
  BY <1>2, <1>9
<1>11. /\ DOMAIN sock' = Conns /\ \A d \in Conns : "peer" \in DOMAIN sock'[d]
       /\ sock'[c].peer = "open"
       /\ \A d \in Conns : sock[d].peer = "open" => sock'[d].peer = "open"
  BY <1>1 DEF Types
<1>12. DOMAIN active' = Loops /\ \A m \in Loops : active'[m] \subseteq active[m]
  BY <1>2
<1>13. Types'
  <2>1. \A d \in Conns : /\ conn'[d].state \in States /\ conn'[d].loop \in 0 .. m_numThreads
                         /\ conn'[d].epoll \in {"new", "added", "deleted"}
    <3>1. \A d \in Conns : conn'[d].state \in States /\ conn'[d].epoll \in {"new", "added", "deleted"}
      BY <1>10 DEF ConnRecords
    <3>2. \A d \in Conns : conn'[d].loop \in 0 .. m_numThreads
      BY <1>1, <1>6, <1>9, <1>10 DEF Types, TypeOK
    <3> QED
      BY <3>1, <3>2
  <2>2. S' \subseteq Conns /\ \A m \in Loops : index[m] \in 0 .. Len(batch[m])
    BY <1>1, <1>7 DEF Types, TypeOK
  <2>3. TypeOK'
    BY <1>1, <1>6, <1>7, <1>9, <2>1, <2>2 DEF Types, TypeOK, Users
  <2> QED
    BY <1>1, <1>9, <1>10, <1>11, <1>12, <2>3 DEF Types, QueueState
<1>14. CalledOnce'
  BY <1>1, <1>9, <1>10 DEF CalledOnce
<1>15. OnlyHangupFails'
  BY <1>1 DEF OnlyHangupFails
<1>16. Accepted'
  BY <1>1, <1>10, <1>11 DEF AliveInv, Accepted
<1>17. Rounds'
  <2>1. \A m \in Loops : \A a \in active[m] : a # Acceptor =>
          a.conn \in Conns /\ a.conn # c /\ conn[a.conn].loop = m /\ conn[a.conn].epoll = "added"
    BY <1>1, <1>5 DEF AliveInv, Rounds
  <2> QED
    BY <1>1, <1>10, <1>12, <2>1 DEF AliveInv, Rounds
<1>18. Homes(U, conn')
  <2> DEFINE cs == conn'
  <2>1. \A d \in Conns : conn[d].state # "none" =>
          cs[d].state # "none" /\ cs[d].loop = conn[d].loop
    BY <1>3, <1>10
  <2>2. cs[c].state # "none" /\ NextLoop = cs[c].loop
    BY <1>9, <1>10
  <2> HIDE DEF cs, T, U
  <2>3. Homes(T, cs)
    BY <1>4, <2>1, HomesChange
  <2>4. "connectEstablished" \in Funs
    BY FunNames
  <2>5. Homes(U, cs)
    BY <1>6, <1>9, <2>2, <2>3, <2>4, HomesAppend
  <2> QED
    BY <2>5 DEF cs
<1>19. Lives'
  <2>1. \A d \in Conns \ {c} : /\ conn'[d] = conn[d] /\ user'[d] = user[d]
                               /\ d \in m_connectionsSet' <=> d \in m_connectionsSet
    BY <1>7, <1>9, <1>10
  <2>2. /\ Lives /\ SameBut(Todo, Todo', c) /\ (~stale' => ~stale)
        /\ Stage(Todo', m_connectionsSet', conn'[c], user'[c], c)
        /\ ~stale' => Fresh(Todo', m_connectionsSet', conn'[c], c)
    BY <1>1, <1>9, <1>10 DEF AliveInv
  <2> QED
    BY <2>1, <2>2, OneLife
<1> QED
  BY <1>13, <1>14, <1>15, <1>16, <1>17, <1>18, <1>19 DEF TcpInv, AliveInv

LEMMA AcceptorStep ==
  ASSUME TcpInv, Alive, AcceptorHandleRead
  PROVE  TcpInv'
<1>1. /\ active' = [active EXCEPT ![Base] = @ \ {Acceptor}]
      /\ UNCHANGED <<m_numThreads, m_listenning, stale, batch, index, phase, failed>>
  BY DEF AcceptorHandleRead
<1>2. PICK c \in {d \in Conns : sock[d].peer = "connecting"} :
        Accepts(c) \/ Refuses(c) \/ LeavesWaiting
  BY DEF AcceptorHandleRead
<1>3. CASE Accepts(c)
  BY <1>1, <1>2, <1>3, AcceptStep DEF Accepts
<1>4. CASE Refuses(c) \/ LeavesWaiting
  <2>1. DOMAIN sock = Conns /\ (\A d \in Conns : "peer" \in DOMAIN sock[d]) /\ DOMAIN active = Loops
    BY DEF TcpInv, Types
  <2>2. /\ sock' = sock \/ sock' = [sock EXCEPT ![c].peer = "refused"]
        /\ UNCHANGED <<m_next, m_connectionsSet, conn, user, queue>>
    BY <1>4 DEF Refuses, LeavesWaiting
  <2>3. /\ DOMAIN sock' = Conns /\ \A d \in Conns : "peer" \in DOMAIN sock'[d]
        /\ \A d \in Conns : sock[d].peer = "open" => sock'[d].peer = "open"
    BY <1>2, <2>1, <2>2
  <2>4. DOMAIN active' = Loops /\ \A m \in Loops : active'[m] \subseteq active[m]
    BY <1>1, <2>1
  <2> QED
    BY <1>1, <2>2, <2>3, <2>4, QuietStep
<1> QED
  BY <1>2, <1>3, <1>4

----------------------------------------------------------------------------
LEMMA TcpInvInit ==
  ASSUME Init
  PROVE  TcpInv
<1>1. NoConn \in ConnRecords /\ NoConn.state = "none" /\ NoConn.loop = Base /\ NoConn.epoll = "new"
      /\ NoConn.established = 0 /\ NoConn.destroyed = 0
  BY BaseIsLoop DEF NoConn, NewConn, ConnRecords, States
<1>2. \A c \in Conns : conn[c] = NoConn /\ user[c] = "none"
  BY DEF Init
<1>3. <<>> \in Seq(Functors) /\ Len(<<>>) = 0
  BY EmptySeq
<1>4. /\ queue \in [Loops -> Seq(Functors)] /\ batch \in [Loops -> Seq(Functors)]
      /\ index \in [Loops -> Nat] /\ \A l \in Loops : index[l] = 0 /\ batch[l] = <<>> /\ queue[l] = <<>>
  BY <1>3 DEF Init
<1>5. Types
  <2>1. \A l \in Loops : index[l] \in 0 .. Len(batch[l])
    BY <1>3, <1>4
  <2>2. TypeOK
    BY <1>1, <1>2, <2>1, TcpServerAssumption DEF Init, TypeOK, States, Base
  <2> QED
    BY <1>1, <1>4, <2>2 DEF Init, Types, NewSock
<1>6. \A l \in Loops : Todo[l] = <<>>
  <2> SUFFICES ASSUME NEW l \in Loops
               PROVE  Todo[l] = <<>>
    OBVIOUS
  <2>1. QueueState(queue, batch, index)
    BY <1>5, QueueTypes
  <2>2. Todo[l] = SubSeq(batch[l], index[l] + 1, Len(batch[l])) \o queue[l]
    BY <2>1, TodoAt DEF Todo
  <2>3. SubSeq(batch[l], index[l] + 1, Len(batch[l])) = <<>>
    BY <1>3, <1>4, RestOfSeq
  <2>4. <<>> \o <<>> = <<>>
    BY <1>3, ConcatEmptySeq
  <2> QED
    BY <1>4, <2>2, <2>3, <2>4
<1>7. \A l \in Loops : 1 .. Len(Todo[l]) = {}
  BY <1>3, <1>6
<1>8. \A x : ~Has(Todo, x) /\ Once(Todo, x) /\ \A y : ~Behind(Todo, y, x)
  BY <1>7 DEF Has, Once, Behind
<1>9. \A l \in Loops : \A x : ~Holds(Todo, l, x)
  BY <1>7 DEF Holds
<1>10. Lives
  <2>1. ASSUME NEW c \in Conns
        PROVE  Stage(Todo, m_connectionsSet, NoConn, "none", c) /\ Fresh(Todo, m_connectionsSet, NoConn, c)
    <3>1. m_connectionsSet = {}
      BY DEF Init
    <3>2. Stage(Todo, m_connectionsSet, NoConn, "none", c)
      BY <1>1, <1>8, <3>1 DEF Stage, Up
    <3>3. Fresh(Todo, m_connectionsSet, NoConn, c)
      BY <1>1, <1>8 DEF Fresh, Up
    <3> QED
      BY <3>2, <3>3
  <2> QED
    BY <1>2, <2>1 DEF Lives
<1>11. Rounds /\ Accepted
  BY <1>1, <1>2, <1>4 DEF Init, Rounds, Accepted
<1>12. Homes(Todo, conn)
  BY <1>9 DEF Homes
<1>13. CalledOnce /\ OnlyHangupFails
  BY <1>1, <1>2 DEF Init, CalledOnce, OnlyHangupFails
<1> QED
  BY <1>5, <1>10, <1>11, <1>12, <1>13 DEF TcpInv, AliveInv

LEMMA TcpInvNext ==
  ASSUME TcpInv, [Next]_vars
  PROVE  TcpInv'
<1>1. CASE UNCHANGED vars
  BY <1>1, StutterStep
<1>2. CASE Next
  <2>1. Alive
    BY <1>2 DEF Next
  <2>2. CASE StartListen
    BY <2>2, ListenStep
  <2>3. ASSUME NEW c \in Conns, Peer(c) \/ User(c)
        PROVE  TcpInv'
    BY <2>1, <2>3, PeerStep, UserTestsStep, UserSetsStep, UserQueuesStep, UserReleasesStep DEF User
  <2>4. ASSUME NEW l \in Loops, Loop(l)
        PROVE  TcpInv'
    BY <2>1, <2>4, PollStep, EventStep, TakeStep, FunctorStep, DoneStep, AcceptorStep DEF Loop
  <2> QED
    BY <1>2, <2>2, <2>3, <2>4 DEF Next
<1> QED
  BY <1>1, <1>2

(* TcpInv holds for every pool and all connections, whatever the peers and *)
(* the application's threads do.                                           *)
THEOREM TcpInvariant == Spec => []TcpInv
<1>1. Init => TcpInv
  BY TcpInvInit
<1>2. TcpInv /\ [Next]_vars => TcpInv'
  BY TcpInvNext
<1> QED
  BY <1>1, <1>2, PTL DEF Spec

(* A deleted connection's channel is in no epoll set and in no list of     *)
(* reported events, whichever loop and whichever thread drops the last     *)
(* TcpConnectionPtr: connectDestroyed has run by then, in the loop of the  *)
(* connection and after the events of that round.                          *)
THEOREM ChannelsDoNotDangle == Spec => []NoDanglingChannel
<1>1. TcpInv => NoDanglingChannel
  <2> SUFFICES ASSUME TcpInv
               PROVE  NoDanglingChannel
    OBVIOUS
  <2>1. Types /\ TypeOK
    BY DEF TcpInv, Types
  <2>2. ASSUME Alive, NEW c \in Conns, Deleted(c)
        PROVE  /\ conn[c].epoll # "added"
               /\ \A l \in Loops : \A e \in active[l] : e.conn # c
    <3>1. Stage(Todo, m_connectionsSet, conn[c], user[c], c)
      BY <2>2 DEF TcpInv, AliveInv, Lives
    <3>2. conn[c].epoll = "deleted"
      BY <2>1, <2>2, <3>1, DeletedIsDestroyed
    <3>3. ASSUME NEW l \in Loops, NEW e \in active[l], e.conn = c
          PROVE  FALSE
      <4>1. CASE e = Acceptor
        BY <3>3, <4>1, TcpServerAssumption DEF Acceptor
      <4>2. CASE e # Acceptor
        BY <2>2, <3>2, <3>3, <4>2 DEF TcpInv, AliveInv, Rounds
      <4> QED
        BY <4>1, <4>2
    <3> QED
      BY <3>2, <3>3
  <2> QED
    BY <2>1, <2>2 DEF NoDanglingChannel
<1> QED
  BY <1>1, TcpInvariant, PTL

(* "should be called only once": connectEstablished and connectDestroyed   *)
(* run at most once for a connection, and in this order, although either   *)
(* loop and the application can set its closing off.                       *)
THEOREM ConnectionCalledOnce == Spec => []CalledOnce
<1>1. TcpInv => CalledOnce
  BY DEF TcpInv
<1> QED
  BY <1>1, TcpInvariant, PTL

(* As long as no loop closes a connection while another thread is between  *)
(* its test of m_state, its assignment and its queueing of a functor, no   *)
(* functor bound to a raw `this` outlives its connection, however many     *)
(* calls the threads make, and no assert of TcpServer, Channel, Epoll or   *)
(* ~TcpConnection fails: only the one of handleClose can.                  *)
THEOREM FailsByHangupOnly == Spec => []OnlyHangupFails
<1>1. TcpInv => OnlyHangupFails
  BY DEF TcpInv
<1> QED
  BY <1>1, TcpInvariant, PTL

----------------------------------------------------------------------------
(* The life of the connections is the one of ConnLife. *)

LivesOn == Connections!LifeNext \/ UNCHANGED Life

(* The stages that may follow one another, but for the last. *)
MayFollow(a, b) ==
  \/ a = b
  \/ a = "absent" /\ b \in {"connecting", "up"}
  \/ a = "connecting" /\ b = "up"
  \/ a = "up" /\ b = "removed"
  \/ a = "removed" /\ b = "destroyed"

LEMMA OneMoves ==
  ASSUME NEW c \in Conns, \A d \in Conns \ {c} : LifeOf(d)' = LifeOf(d),
         MayFollow(LifeOf(c), LifeOf(c)')
  PROVE  LivesOn
<1> DEFINE a == LifeOf(c)
           b == LifeOf(c)'
           F == Life
           G == Life'
<1>1. F = [d \in Conns |-> F[d]] /\ G = [d \in Conns |-> G[d]] /\ F[c] = a /\ G[c] = b
      /\ \A d \in Conns \ {c} : G[d] = F[d]
  BY DEF Life
<1>2. MayFollow(a, b)
  OBVIOUS
<1> HIDE DEF a, b, F, G
<1>3. G = [F EXCEPT ![c] = b]
  BY <1>1
<1>4. CASE a = b
  <2>1. G = F
    BY <1>1, <1>4
  <2> QED
    BY <2>1 DEF LivesOn, F, G
<1>5. ASSUME NEW from, NEW to, a = from, b = to
      PROVE  Connections!Moves(c, from, to)
  BY <1>1, <1>3, <1>5 DEF Connections!Moves, F, G
<1>6. CASE a = "absent" /\ b \in {"connecting", "up"}
  BY <1>5, <1>6 DEF LivesOn, Connections!LifeNext, Connections!Accept
<1>7. CASE a = "connecting" /\ b = "up"
  BY <1>5, <1>7 DEF LivesOn, Connections!LifeNext, Connections!Establish
<1>8. CASE a = "up" /\ b = "removed"
  BY <1>5, <1>8 DEF LivesOn, Connections!LifeNext, Connections!Remove
<1>9. CASE a = "removed" /\ b = "destroyed"
  BY <1>5, <1>9 DEF LivesOn, Connections!LifeNext, Connections!Destroy
<1> QED
  BY <1>2, <1>4, <1>6, <1>7, <1>8, <1>9 DEF MayFollow

(* What the stages mean as long as TcpInv holds. *)
LEMMA LifeStages ==
  ASSUME TcpInv, Alive, NEW c \in Conns
  PROVE  /\ conn[c].state = "none" => LifeOf(c) = "absent"
         /\ conn[c].state = "kConnecting" => c \in m_connectionsSet /\ LifeOf(c) = "connecting"
         /\ conn[c].state \in Up /\ c \in m_connectionsSet =>
              conn[c].destroyed = 0 /\ LifeOf(c) = "up"
         /\ conn[c].state \in Up /\ c \notin m_connectionsSet /\ conn[c].destroyed = 0 =>
              LifeOf(c) = "removed"
         /\ conn[c].state \in Up /\ conn[c].destroyed # 0 =>
              LifeOf(c) = IF Referenced(c) THEN "destroyed" ELSE "deleted"
         /\ conn[c].state \in {"none", "kConnecting"} \cup Up
<1> DEFINE r == conn[c]
           S == m_connectionsSet
<1>1. Types /\ Stage(Todo, S, r, user[c], c) /\ r.state \in States
  BY DEF TcpInv, AliveInv, Lives, Types, TypeOK
<1>2. r.state \in {"none", "kConnecting"} \cup Up
  BY <1>1 DEF States, Up
<1>3. c \in S => Referenced(c)
  BY DEF Referenced
<1>4. Deleted(c) => r.destroyed = 1
  BY <1>1, DeletedIsDestroyed
<1>5. r.state = "kConnecting" => c \in S /\ r.established = 0
  BY <1>1 DEF Stage
<1>6. r.state \in Up => r.established = 1 /\ (c \in S => r.destroyed = 0)
  BY <1>1 DEF Stage
<1>7. "none" \notin Up
  BY DEF Up
<1> QED
  BY <1>2, <1>3, <1>4, <1>5, <1>6, <1>7 DEF LifeOf, Deleted


(* What a step does that is about connection c only. *)
OnlyConn(c) ==
  /\ \A d \in Conns \ {c} : /\ conn'[d] = conn[d] /\ user'[d] = user[d]
                            /\ d \in m_connectionsSet' <=> d \in m_connectionsSet
  /\ queue' = queue \/ \E m \in Loops, f \in Funs : queue' = Push(queue, m, f, c)
  /\ batch' = batch

LEMMA PushHeld ==
  ASSUME NEW q \in Todos, NEW m \in Loops, NEW f \in Funs, NEW c \in Conns,
         NEW k \in Loops, NEW d
  PROVE  HeldBy(Push(q, m, f, c)[k], d) <=>
           HeldBy(q[k], d) \/ (k = m /\ d = c /\ f \in HoldsPtr)
<1> DEFINE s == q[m]
           x == Functor(f, c)
           t == Append(s, x)
<1>1. s \in Seq(Functors) /\ x \in Functors /\ x.fun = f /\ x.conn = c
  BY FunctorsDiffer DEF Functor, Todos
<1>2. Push(q, m, f, c)[k] = IF k = m THEN t ELSE q[k]
  BY DEF Push, Todos
<1> HIDE DEF s, x
<1>3. /\ Len(s) \in Nat /\ Len(t) = Len(s) + 1 /\ t[Len(s) + 1] = x
      /\ \A i \in 1 .. Len(s) : t[i] = s[i]
  BY <1>1, AppendProperties, LenProperties
<1> HIDE DEF t
<1>4. HeldBy(t, d) <=> HeldBy(s, d) \/ (d = c /\ f \in HoldsPtr)
  <2>1. ASSUME HeldBy(t, d)
        PROVE  HeldBy(s, d) \/ (d = c /\ f \in HoldsPtr)
    <3>1. PICK i \in 1 .. Len(t) : t[i].conn = d /\ t[i].fun \in HoldsPtr
      BY <2>1 DEF HeldBy
    <3>2. i \in 1 .. Len(s) \/ i = Len(s) + 1
      BY <1>3, <3>1
    <3>3. CASE i \in 1 .. Len(s)
      BY <1>3, <3>1, <3>3 DEF HeldBy
    <3>4. CASE i = Len(s) + 1
      BY <1>1, <1>3, <3>1, <3>4
    <3> QED
      BY <3>2, <3>3, <3>4
  <2>2. ASSUME HeldBy(s, d)
        PROVE  HeldBy(t, d)
    <3>1. PICK i \in 1 .. Len(s) : s[i].conn = d /\ s[i].fun \in HoldsPtr
      BY <2>2 DEF HeldBy
    <3>2. i \in 1 .. Len(t) /\ t[i] = s[i]
      BY <1>3, <3>1
    <3> QED
      BY <3>1, <3>2 DEF HeldBy
  <2>3. ASSUME d = c, f \in HoldsPtr
        PROVE  HeldBy(t, d)
    <3>1. Len(s) + 1 \in 1 .. Len(t)
      BY <1>3
    <3> QED
      BY <1>1, <1>3, <2>3, <3>1 DEF HeldBy
  <2> QED
    BY <2>1, <2>2, <2>3
<1> QED
  BY <1>2, <1>4 DEF s

(* The other connections live on as before, and what holds c still does.   *)
LEMMA OthersLive ==
  ASSUME Types, NEW c \in Conns, OnlyConn(c)
  PROVE  /\ \A d \in Conns \ {c} : LifeOf(d)' = LifeOf(d)
         /\ \A l \in Loops : HeldBy(queue[l], c) => HeldBy(queue'[l], c)
<1>1. queue \in Todos
  BY DEF Types, Todos
<1> DEFINE p == queue'
<1>2. ASSUME NEW l \in Loops, NEW d
      PROVE  /\ HeldBy(queue[l], d) => HeldBy(p[l], d)
             /\ d # c => (HeldBy(p[l], d) <=> HeldBy(queue[l], d))
  <2>1. CASE p = queue
    BY <2>1
  <2>2. ASSUME NEW m \in Loops, NEW f \in Funs, p = Push(queue, m, f, c)
        PROVE  /\ HeldBy(queue[l], d) => HeldBy(p[l], d)
               /\ d # c => (HeldBy(p[l], d) <=> HeldBy(queue[l], d))
    <3>1. HeldBy(Push(queue, m, f, c)[l], d) <=>
            HeldBy(queue[l], d) \/ (l = m /\ d = c /\ f \in HoldsPtr)
      BY <1>1, PushHeld
    <3> HIDE DEF p
    <3> QED
      BY <2>2, <3>1
  <2> QED
    BY <2>1, <2>2 DEF OnlyConn
<1>3. \A l \in Loops : HeldBy(queue[l], c) => HeldBy(p[l], c)
  BY <1>2
<1>4. ASSUME NEW d \in Conns \ {c}
      PROVE  LifeOf(d)' = LifeOf(d)
  <2>1. /\ conn'[d] = conn[d] /\ user'[d] = user[d] /\ batch' = batch
        /\ d \in m_connectionsSet' <=> d \in m_connectionsSet
    BY DEF OnlyConn
  <2>2. Referenced(d)' <=> Referenced(d)
    BY <1>2, <2>1 DEF Referenced
  <2> QED
    BY <2>1, <2>2 DEF LifeOf, Deleted
<1> QED
  BY <1>3, <1>4

(* A step that neither establishes nor destroys c. *)
LEMMA KeptLives ==
  ASSUME TcpInv, Alive, NEW c \in Conns, OnlyConn(c),
         conn[c].state # "none", conn'[c].state # "none",
         conn'[c].established = conn[c].established, conn'[c].destroyed = conn[c].destroyed,
         c \in m_connectionsSet' => c \in m_connectionsSet,
         conn[c].state = "kConnecting" => c \in m_connectionsSet',
         Referenced(c)' <=> Referenced(c)
  PROVE  LivesOn
<1> DEFINE r == conn[c]
           S == m_connectionsSet
<1>1. Types /\ \A d \in Conns \ {c} : LifeOf(d)' = LifeOf(d)
  BY OthersLive DEF TcpInv
<1>2. CASE c \in S' <=> c \in S
  <2>1. LifeOf(c)' = LifeOf(c)
    BY <1>2 DEF LifeOf, Deleted
  <2> QED
    BY <1>1, <2>1, OneMoves DEF MayFollow
<1>3. CASE c \in S /\ c \notin S'
  <2>1. r.state \in Up /\ r.destroyed = 0 /\ LifeOf(c) = "up"
    BY <1>3, LifeStages
  <2>2. r.established = 1
    BY <2>1 DEF TcpInv, AliveInv, Lives, Stage
  <2>3. Referenced(c)
    BY <1>3 DEF Referenced
  <2>4. LifeOf(c)' = "removed"
    BY <1>3, <2>1, <2>2, <2>3 DEF LifeOf, Deleted
  <2> QED
    BY <1>1, <2>1, <2>4, OneMoves DEF MayFollow
<1> QED
  BY <1>2, <1>3

(* handleClose forgets no connection that somebody holds, and counts as    *)
(* neither connectEstablished nor connectDestroyed.                        *)
LEMMA CloseLives ==
  ASSUME TcpInv, Alive, NEW c \in Conns, NEW l \in Loops, conn[c].state \in Up,
         HandleClose(c, l), Referenced(c), UNCHANGED <<user, batch>>
  PROVE  LivesOn
<1> DEFINE r == conn[c]
           S == m_connectionsSet
<1>1. /\ Types /\ conn \in [Conns -> ConnRecords] /\ r \in ConnRecords /\ S \subseteq Conns
      /\ queue \in Todos /\ r.loop \in Loops
  BY DEF TcpInv, Types, TypeOK, ConnRecords, Todos
<1>2. {"connectDestroyed", "removeConnectionInLoop"} \subseteq HoldsPtr \cap Funs
  BY DEF HoldsPtr, Funs
<1>3. r.state # "none" /\ r.state # "kConnecting"
  BY DEF Up
<1>4. CASE UNCHANGED <<conn, queue, m_connectionsSet>>
  <2>1. OnlyConn(c)
    BY <1>4 DEF OnlyConn
  <2>2. Referenced(c)' <=> Referenced(c)
    BY <1>4 DEF Referenced
  <2> QED
    BY <1>3, <1>4, <2>1, <2>2, KeptLives
<1>5. ASSUME NEW m \in Loops, NEW f \in HoldsPtr \cap Funs, queue' = Push(queue, m, f, c)
      PROVE  HeldBy(queue'[m], c)
  BY <1>1, <1>5, PushHeld
<1>6. CASE ~ UNCHANGED <<conn, queue, m_connectionsSet>>
  <2>1. /\ conn' = [conn EXCEPT ![c] = HandleCloseState(@)]
        /\ IF l = Base THEN RemoveConnectionInLoop(c, queue)
                       ELSE /\ queue' = Push(queue, Base, "removeConnectionInLoop", c)
                            /\ m_connectionsSet' = m_connectionsSet
    BY <1>6 DEF HandleClose
  <2>2. /\ conn'[c] = HandleCloseState(r) /\ \A d \in Conns \ {c} : conn'[d] = conn[d]
    BY <1>1, <2>1
  <2>3. /\ conn'[c].state # "none" /\ conn'[c].established = r.established
        /\ conn'[c].destroyed = r.destroyed
    BY <1>1, <2>2, CloseRecord DEF Kept
  <2>4. /\ S' \subseteq S /\ \A d \in Conns \ {c} : d \in S' <=> d \in S
        /\ \/ queue' = queue /\ S' = S
           \/ \E m \in Loops, f \in HoldsPtr \cap Funs : queue' = Push(queue, m, f, c)
    BY <1>1, <1>2, <2>1, BaseIsLoop DEF RemoveConnectionInLoop
  <2>5. OnlyConn(c)
    BY <2>2, <2>4 DEF OnlyConn
  <2>6. Referenced(c)'
    BY <1>5, <2>4 DEF Referenced
  <2> QED
    BY <1>3, <2>3, <2>4, <2>5, <2>6, KeptLives
<1> QED
  BY <1>4, <1>6

(* m_messageCallBack neither establishes nor destroys. *)
LEMMA MessageQuiet ==
  ASSUME NEW c \in Conns, NEW l \in Loops, conn \in [Conns -> ConnRecords], MessageCallBack(c, l)
  PROVE  /\ Quiet(conn[c], conn'[c]) /\ \A d \in Conns \ {c} : conn'[d] = conn[d]
         /\ queue' = queue \/ queue' = Push(queue, l, "forceCloseInLoop", c)
<1> DEFINE r == conn[c]
           s == [sock[c] EXCEPT !.data = FALSE]
           down == [r EXCEPT !.state = "kDisConnecting"]
<1>1. r \in ConnRecords /\ Quiet(r, r)
  BY KeptItself
<1>2. ASSUME NEW t, conn' = [conn EXCEPT ![c] = t], Quiet(r, t)
      PROVE  Quiet(r, conn'[c]) /\ \A d \in Conns \ {c} : conn'[d] = conn[d]
  BY <1>2
<1>3. CASE conn' = conn /\ UNCHANGED <<queue, failed>>
  BY <1>1, <1>3
<1>4. CASE /\ r.state = "kConnected"
           /\ \E w \in WriteResults(r, s) :
                \/ conn' = [conn EXCEPT ![c] = SendInLoop(r, w)]
                \/ conn' = [conn EXCEPT ![c] =
                      ShutdownInLoop([SendInLoop(r, w) EXCEPT !.state = "kDisConnecting"])]
           /\ UNCHANGED queue
  <2> DEFINE sent(w) == SendInLoop(r, w)
             closing(w) == [sent(w) EXCEPT !.state = "kDisConnecting"]
  <2>1. PICK w : \/ conn' = [conn EXCEPT ![c] = sent(w)]
                 \/ conn' = [conn EXCEPT ![c] = ShutdownInLoop(closing(w))]
    BY <1>4
  <2>2. Quiet(r, sent(w)) /\ sent(w).state = "kConnected" /\ sent(w) \in ConnRecords
    BY <1>1, <1>4, SendQuiet DEF Quiet, Kept
  <2> HIDE DEF sent
  <2>3. Quiet(sent(w), closing(w)) /\ closing(w) \in ConnRecords
    BY <2>2, DisConnectingRecord
  <2> HIDE DEF closing
  <2>4. Quiet(r, ShutdownInLoop(closing(w)))
    BY <2>2, <2>3, ShutdownQuiet, QuietTrans
  <2> QED
    BY <1>2, <1>4, <2>1, <2>2, <2>4
<1>5. CASE /\ r.state = "kConnected"
           /\ conn' = [conn EXCEPT ![c] = ShutdownInLoop(down)]
           /\ UNCHANGED queue
  <2>1. Quiet(r, down) /\ down \in ConnRecords
    BY <1>1, <1>5, DisConnectingRecord
  <2> HIDE DEF down
  <2>2. Quiet(r, ShutdownInLoop(down))
    BY <2>1, ShutdownQuiet, QuietTrans
  <2> QED
    BY <1>2, <1>5, <2>2
<1>6. CASE /\ CanClose(r)
           /\ conn' = [conn EXCEPT ![c] = down]
           /\ queue' = Push(queue, l, "forceCloseInLoop", c)
  <2>1. Quiet(r, down)
    BY <1>1, <1>6, DisConnectingRecord DEF CanClose
  <2> HIDE DEF down
  <2> QED
    BY <1>2, <1>6, <2>1
<1> QED
  BY <1>3, <1>4, <1>5, <1>6 DEF MessageCallBack

LEMMA EventLives ==
  ASSUME TcpInv, Alive, NEW l \in Loops, HandleEvent(l)
  PROVE  LivesOn
<1>1. PICK e \in active[l] \ {Acceptor} :
        \/ HandleRead(e.conn, l)
        \/ HandleClose(e.conn, l)
        \/ UNCHANGED <<conn, sock, queue, m_connectionsSet, failed>>
  BY DEF HandleEvent
<1>2. UNCHANGED <<user, batch>>
  BY DEF HandleEvent
<1> DEFINE c == e.conn
<1>3. c \in Conns /\ conn[c].epoll = "added"
  BY DEF TcpInv, AliveInv, Rounds
<1> HIDE DEF c
<1>4. /\ Types /\ conn \in [Conns -> ConnRecords] /\ conn[c] \in ConnRecords
      /\ queue \in Todos
      /\ Stage(Todo, m_connectionsSet, conn[c], user[c], c)
  BY <1>3 DEF TcpInv, AliveInv, Lives, Types, Todos
<1>5. conn[c].state \in Up
  BY <1>3, <1>4, RegisteredIsUp
<1>6. Referenced(c)
  <2>1. conn[c].state # "none"
    BY <1>5 DEF Up
  <2>2. ~Deleted(c)
    BY <1>3, <1>4, DeletedIsDestroyed
  <2> QED
    BY <2>1, <2>2 DEF Deleted
<1>7. CASE UNCHANGED <<conn, queue, m_connectionsSet>>
  BY <1>2, <1>7 DEF LivesOn, Life, LifeOf, Deleted, Referenced
<1>8. CASE HandleClose(c, l)
  BY <1>2, <1>3, <1>5, <1>6, <1>8, CloseLives
<1>9. CASE MessageCallBack(c, l) /\ UNCHANGED m_connectionsSet
  <2>1. /\ Quiet(conn[c], conn'[c]) /\ \A d \in Conns \ {c} : conn'[d] = conn[d]
        /\ queue' = queue \/ queue' = Push(queue, l, "forceCloseInLoop", c)
    BY <1>3, <1>4, <1>9, MessageQuiet
  <2>2. /\ conn'[c].established = conn[c].established /\ conn'[c].destroyed = conn[c].destroyed
        /\ conn'[c].state \in Up
    BY <1>5, <2>1 DEF Quiet, Kept
  <2>3. conn[c].state # "none" /\ conn'[c].state # "none"
    BY <1>5, <2>2 DEF Up
  <2>4. OnlyConn(c)
    BY <1>2, <1>9, <2>1, FunNames DEF OnlyConn
  <2>5. \A m \in Loops : HeldBy(queue[m], c) => HeldBy(queue'[m], c)
    BY <1>3, <1>4, <2>4, OthersLive
  <2>6. Referenced(c)'
    BY <1>2, <1>6, <1>9, <2>5 DEF Referenced
  <2>7. conn[c].state # "kConnecting"
    BY <1>5 DEF Up
  <2> QED
    BY <1>3, <1>6, <1>9, <2>2, <2>3, <2>4, <2>6, <2>7, KeptLives
<1>10. CASE HandleRead(c, l)
  BY <1>7, <1>8, <1>9, <1>10 DEF HandleRead
<1> QED
  BY <1>1, <1>7, <1>8, <1>10 DEF c

(* Pointers to connections are dropped and none is added: what is deleted  *)
(* by it has been destroyed.                                               *)
LEMMA LetGo ==
  ASSUME TcpInv, Alive, UNCHANGED <<conn, m_connectionsSet>>,
         QueueState(queue', batch', index'), Todo' = Todo,
         \A c \in Conns : Referenced(c)' => Referenced(c)
  PROVE  LivesOn
<1> DEFINE D == {c \in Conns : LifeOf(c) # LifeOf(c)'}
           F == Life
           G == Life'
<1>1. ASSUME NEW c \in Conns, LifeOf(c) # LifeOf(c)'
      PROVE  LifeOf(c) = "destroyed" /\ LifeOf(c)' = "deleted"
  <2>1. conn[c].state # "none" /\ Referenced(c) /\ ~Referenced(c)'
    BY <1>1 DEF LifeOf, Deleted
  <2>2. c \notin m_connectionsSet
    BY <2>1 DEF Referenced
  <2>3. conn[c].state \in Up
    BY <2>1, <2>2, LifeStages
  <2>4. ~Has(Todo, Functor("connectDestroyed", c))
    <3>1. "connectDestroyed" \in HoldsPtr
      BY DEF HoldsPtr
    <3>2. ~ (\E l \in Loops : HeldBy(queue'[l], c) \/ HeldBy(batch'[l], c))
      BY <2>1 DEF Referenced
    <3>3. Todo' = TodoOf(queue', batch', index')
      BY DEF Todo
    <3> QED
      BY <3>1, <3>2, <3>3, TodoHeld
  <2>5. conn[c].destroyed = 1
    BY <2>2, <2>3, <2>4 DEF TcpInv, AliveInv, Lives, Stage
  <2>6. LifeOf(c) = "destroyed"
    BY <2>1, <2>3, <2>5, LifeStages
  <2>7. LifeOf(c)' = "deleted"
    BY <2>1 DEF LifeOf, Deleted
  <2> QED
    BY <2>6, <2>7
<1>2. /\ F = [c \in Conns |-> F[c]] /\ G = [c \in Conns |-> G[c]]
      /\ \A c \in Conns : F[c] = LifeOf(c) /\ G[c] = LifeOf(c)'
  BY DEF Life
<1>3. D \in SUBSET Conns /\ (\A c \in D : F[c] = "destroyed")
      /\ \A c \in Conns : G[c] = IF c \in D THEN "deleted" ELSE F[c]
  BY <1>1, <1>2
<1> HIDE DEF D, F, G
<1>4. G = [c \in Conns |-> IF c \in D THEN "deleted" ELSE F[c]]
  BY <1>2, <1>3
<1>5. Connections!Delete(D)
  BY <1>3, <1>4 DEF Connections!Delete, F, G
<1> QED
  BY <1>3, <1>5 DEF LivesOn, Connections!LifeNext

LEMMA TakeLives ==
  ASSUME TcpInv, Alive, NEW l \in Loops, TakeFunctors(l)
  PROVE  LivesOn
<1>1. /\ phase[l] = "dispatch"
      /\ batch' = [batch EXCEPT ![l] = queue[l]] /\ queue' = [queue EXCEPT ![l] = <<>>]
      /\ UNCHANGED <<m_connectionsSet, conn, user, index>>
  BY DEF TakeFunctors
<1>2. /\ Types /\ QueueState(queue, batch, index) /\ batch[l] = <<>> /\ index[l] = 0
  BY <1>1, QueueTypes DEF TcpInv, AliveInv, Rounds
<1>3. QueueState(queue', batch', index') /\ Todo' = Todo
  <2>1. /\ QueueState([queue EXCEPT ![l] = <<>>], [batch EXCEPT ![l] = queue[l]], index)
        /\ TodoOf([queue EXCEPT ![l] = <<>>], [batch EXCEPT ![l] = queue[l]], index)
             = TodoOf(queue, batch, index)
    BY <1>2, TakeTodo
  <2> QED
    BY <1>1, <2>1 DEF Todo
<1>4. ASSUME NEW c \in Conns, Referenced(c)'
      PROVE  Referenced(c)
  <2>1. /\ queue'[l] = <<>> /\ batch'[l] = queue[l]
        /\ \A m \in Loops \ {l} : queue'[m] = queue[m] /\ batch'[m] = batch[m]
    BY <1>1, <1>2 DEF QueueState
  <2>2. ~HeldBy(<<>>, c)
    BY DEF HeldBy
  <2> QED
    BY <1>1, <1>4, <2>1, <2>2 DEF Referenced
<1> QED
  BY <1>1, <1>3, <1>4, LetGo

LEMMA DoneLives ==
  ASSUME TcpInv, Alive, NEW l \in Loops, FunctorsDone(l)
  PROVE  LivesOn
<1>1. /\ index[l] = Len(batch[l])
      /\ batch' = [batch EXCEPT ![l] = <<>>] /\ index' = [index EXCEPT ![l] = 0]
      /\ UNCHANGED <<m_connectionsSet, conn, user, queue>>
  BY DEF FunctorsDone
<1>2. Types /\ QueueState(queue, batch, index)
  BY QueueTypes DEF TcpInv
<1>3. QueueState(queue', batch', index') /\ Todo' = Todo
  <2>1. index[l] = Len(batch[l])
    BY <1>1
  <2>2. /\ QueueState(queue, [batch EXCEPT ![l] = <<>>], [index EXCEPT ![l] = 0])
        /\ TodoOf(queue, [batch EXCEPT ![l] = <<>>], [index EXCEPT ![l] = 0])
             = TodoOf(queue, batch, index)
    BY <1>2, <2>1, DoneTodo
  <2> QED
    BY <1>1, <2>2 DEF Todo
<1>4. ASSUME NEW c \in Conns, Referenced(c)'
      PROVE  Referenced(c)
  <2>1. batch'[l] = <<>> /\ \A m \in Loops \ {l} : batch'[m] = batch[m]
    BY <1>1, <1>2 DEF QueueState
  <2>2. ~HeldBy(<<>>, c)
    BY DEF HeldBy
  <2> QED
    BY <1>1, <1>4, <2>1, <2>2 DEF Referenced
<1> QED
  BY <1>1, <1>3, <1>4, LetGo

(* The application's thread. *)
LEMMA UserLives ==
  ASSUME TcpInv, Alive, NEW c \in Conns, User(c)
  PROVE  LivesOn
<1>1. Types /\ DOMAIN user = Conns /\ QueueState(queue, batch, index)
  BY QueueTypes DEF TcpInv, Types
<1>2. CASE UserTests(c) \/ UserReleases(c)
  <2>1. /\ user[c] # "none" /\ (\A d \in Conns \ {c} : user'[d] = user[d])
        /\ UNCHANGED <<m_connectionsSet, conn, queue, batch, index>>
    BY <1>1, <1>2 DEF UserTests, UserReleases, loopVars
  <2>2. QueueState(queue', batch', index') /\ Todo' = Todo
    BY <1>1, <2>1 DEF Todo
  <2>3. \A d \in Conns : Referenced(d)' => Referenced(d)
    BY <2>1 DEF Referenced
  <2> QED
    BY <2>1, <2>2, <2>3, LetGo
<1>3. CASE UserSets(c) \/ UserQueues(c)
  <2> DEFINE f == IF user[c] = "send" THEN "sendInLoop" ELSE user[c]
             r == conn[c]
  <2>1. /\ user[c] # "none" /\ user'[c] # "none" /\ \A d \in Conns \ {c} : user'[d] = user[d]
        /\ conn' = conn \/ conn' = [conn EXCEPT ![c].state = "kDisConnecting"]
        /\ UNCHANGED <<m_connectionsSet, batch>>
    BY <1>1, <1>3 DEF UserSets, UserQueues, loopVars
  <2>2. conn \in [Conns -> ConnRecords] /\ r \in ConnRecords /\ r.loop \in Loops
    BY <1>1 DEF Types, ConnRecords
  <2>3. queue' = queue \/ \E m \in Loops, g \in Funs : queue' = Push(queue, m, g, c)
    <3>1. CASE UserSets(c)
      BY <3>1 DEF UserSets, loopVars
    <3>2. CASE UserQueues(c)
      <4>1. queue' = Push(queue, r.loop, f, c) /\ f \in Funs
        BY <3>2, FunNames DEF UserQueues
      <4> HIDE DEF f
      <4> QED
        BY <2>2, <4>1
    <3> QED
      BY <1>3, <3>1, <3>2
  <2>4. r.state # "none" /\ r.state # "kConnecting"
    BY <2>1, HeldIsUp DEF Up
  <2>5. /\ conn'[c].established = r.established /\ conn'[c].destroyed = r.destroyed
        /\ conn'[c].state # "none" /\ \A d \in Conns \ {c} : conn'[d] = conn[d]
    <3>1. CASE conn' = conn
      BY <2>4, <3>1
    <3>2. CASE conn' = [conn EXCEPT ![c].state = "kDisConnecting"]
      BY <2>2, <3>2 DEF ConnRecords
    <3> QED
      BY <2>1, <3>1, <3>2
  <2>6. OnlyConn(c)
    BY <1>1, <2>1, <2>3, <2>5 DEF OnlyConn
  <2>7. Referenced(c) /\ Referenced(c)'
    BY <2>1 DEF Referenced
  <2> QED
    BY <2>1, <2>4, <2>5, <2>6, <2>7, KeptLives
<1> QED
  BY <1>2, <1>3 DEF User

(* accept(): the connection is new. *)
LEMMA AcceptLives ==
  ASSUME TcpInv, Alive, AcceptorHandleRead
  PROVE  LivesOn
<1>1. PICK c \in Conns :
        /\ sock[c].peer = "connecting"
        /\ NewConnetion(c) \/ UNCHANGED <<m_next, m_connectionsSet, conn, user, queue>>
  BY DEF AcceptorHandleRead, Accepts, Refuses, LeavesWaiting
<1>2. UNCHANGED batch
  BY DEF AcceptorHandleRead
<1>3. CASE UNCHANGED <<m_next, m_connectionsSet, conn, user, queue>>
  BY <1>2, <1>3 DEF LivesOn, Life, LifeOf, Deleted, Referenced
<1>4. CASE NewConnetion(c)
  <2>1. Types /\ conn \in [Conns -> ConnRecords] /\ DOMAIN user = Conns /\ NextLoop \in Loops
    BY PoolIndex DEF TcpInv, Types
  <2>2. conn[c].state = "none"
    BY <1>1 DEF TcpInv, AliveInv, Accepted
  <2>3. LifeOf(c) = "absent"
    BY <2>2, LifeStages
  <2>4. m_connectionsSet' = m_connectionsSet \cup {c}
    BY <1>4 DEF NewConnetion
  <2>5. NewConn(NextLoop) \in ConnRecords /\ NewConn(NextLoop).state = "kConnecting"
        /\ NewConn(NextLoop).established = 0 /\ NewConn(NextLoop).destroyed = 0
    BY <2>1, NewConnRecord
  <2>6. /\ conn'[c].state # "none" /\ conn'[c].destroyed = 0
        /\ \A d \in Conns \ {c} : conn'[d] = conn[d] /\ user'[d] = user[d]
        /\ queue' = queue \/ \E m \in Loops, f \in Funs : queue' = Push(queue, m, f, c)
    <3>1. CASE NextLoop = Base
      <4> DEFINE s == Established(NewConn(NextLoop))
      <4>1. /\ conn' = [conn EXCEPT ![c] = s] /\ ConnectionCallBack(c) /\ queue' = queue
        BY <1>4, <3>1 DEF NewConnetion
      <4>2. s.state = "kConnected" /\ s.destroyed = 0
        BY <2>5, EstablishedRecord
      <4> HIDE DEF s
      <4>3. \A d \in Conns \ {c} : user'[d] = user[d]
        BY <2>1, <4>1 DEF ConnectionCallBack
      <4> QED
        BY <2>1, <4>1, <4>2, <4>3
    <3>2. CASE NextLoop # Base
      <4>1. /\ conn' = [conn EXCEPT ![c] = NewConn(NextLoop)] /\ user' = user
            /\ queue' = Push(queue, NextLoop, "connectEstablished", c)
        BY <1>4, <3>2 DEF NewConnetion
      <4> HIDE DEF NextLoop
      <4> QED
        BY <2>1, <2>5, <4>1, FunNames
    <3> QED
      BY <3>1, <3>2
  <2>7. OnlyConn(c)
    BY <1>2, <2>4, <2>6 DEF OnlyConn
  <2>8. LifeOf(c)' \in {"connecting", "up"}
    <3>1. Referenced(c)' /\ c \in m_connectionsSet'
      BY <2>4 DEF Referenced
    <3> QED
      BY <2>6, <3>1 DEF LifeOf, Deleted
  <2> QED
    BY <2>1, <2>3, <2>7, <2>8, OthersLive, OneMoves DEF MayFollow
<1> QED
  BY <1>1, <1>3, <1>4

(* A functor is run: the stages that it marks. *)
LEMMA CallLives ==
  ASSUME TcpInv, Alive, NEW l \in Loops, NEW f, NEW c, NEW V, Running(l, f, c, V),
         Call(l, Functor(f, c)), f \in HoldsPtr => HeldBy(batch[l], c)
  PROVE  LivesOn
<1> DEFINE r == conn[c]
           S == m_connectionsSet
<1>1. batch' = batch
  BY DEF Running
<1>2. Functor(f, c).fun = f /\ Functor(f, c).conn = c
  BY DEF Functor
<1>3. /\ c \in Conns /\ conn \in [Conns -> ConnRecords] /\ r \in ConnRecords
      /\ Stage(Todo, S, r, user[c], c)
  BY <1>1, RunningConn
<1>4. Has(Todo, Functor(f, c)) /\ r.state # "none" /\ f \in Funs
  BY <1>1 DEF Running, Dropped
<1>5. f \in HoldsPtr => Referenced(c) /\ Referenced(c)'
  BY <1>1 DEF Referenced
<1>6. Types /\ DOMAIN user = Conns /\ S \subseteq Conns /\ queue \in Todos
  BY DEF TcpInv, Types, TypeOK, Todos
<1>7. {"connectEstablished", "removeConnectionInLoop", "connectDestroyed", "forceCloseInLoop"}
        \subseteq HoldsPtr \cap Funs
  BY DEF HoldsPtr, Funs
<1>8. CASE UNCHANGED <<conn, queue, m_connectionsSet, user>>
  BY <1>1, <1>8 DEF LivesOn, Life, LifeOf, Deleted, Referenced
<1>9. CASE /\ f = "connectEstablished"
           /\ conn' = [conn EXCEPT ![c] = Established(@)]
           /\ ConnectionCallBack(c)
           /\ UNCHANGED <<queue, m_connectionsSet>>
  <2>1. r.state = "kConnecting"
    BY <1>3, <1>4, <1>9, LifeStages DEF Stage
  <2>2. r.established = 0 /\ r.destroyed = 0 /\ c \in S
    BY <1>3, <2>1 DEF Stage
  <2>3. LifeOf(c) = "connecting"
    BY <1>3, <2>1, LifeStages
  <2>4. conn'[c] = Established(r) /\ \A d \in Conns \ {c} : conn'[d] = conn[d]
    BY <1>3, <1>9
  <2>5. conn'[c].state = "kConnected" /\ conn'[c].established = 1 /\ conn'[c].destroyed = 0
    BY <1>3, <2>2, <2>4, EstablishedRecord
  <2>6. \A d \in Conns \ {c} : user'[d] = user[d]
    BY <1>6, <1>9 DEF ConnectionCallBack
  <2>7. OnlyConn(c)
    BY <1>1, <1>9, <2>4, <2>6 DEF OnlyConn
  <2>8. c \in S' /\ Referenced(c)'
    BY <1>9, <2>2 DEF Referenced
  <2>9. LifeOf(c)' = "up"
    BY <2>5, <2>8 DEF LifeOf, Deleted
  <2> QED
    BY <1>3, <1>6, <2>3, <2>7, <2>9, OthersLive, OneMoves DEF MayFollow
<1>10. CASE /\ f = "removeConnectionInLoop"
            /\ RemoveConnectionInLoop(c, queue)
            /\ UNCHANGED <<conn, user>>
  <2>1. /\ S' = S \ {c}
        /\ queue' = queue \/ \E m \in Loops, g \in Funs : queue' = Push(queue, m, g, c)
    <3>1. r.loop \in Loops
      BY <1>3 DEF ConnRecords
    <3> QED
      BY <1>7, <1>10, <3>1 DEF RemoveConnectionInLoop
  <2>2. OnlyConn(c)
    BY <1>1, <1>10, <2>1 DEF OnlyConn
  <2>3. r.state # "kConnecting"
    BY <1>3, <1>4, <1>7, <1>10 DEF Stage
  <2>4. Referenced(c) /\ Referenced(c)'
    BY <1>5, <1>7, <1>10
  <2> QED
    BY <1>3, <1>4, <1>10, <2>1, <2>2, <2>3, <2>4, KeptLives
<1>11. CASE f = "connectDestroyed" /\ ConnectDestroyed(c)
  <2> DEFINE t == IF r.state = "kConnected" THEN HandleCloseState(r) ELSE r
             u == [RemoveChannel(t) EXCEPT !.destroyed = @ + 1]
  <2>1. r.state \in Up
    BY <1>3, <1>4, <1>7, <1>11, LifeStages DEF Stage
  <2>2. r.destroyed = 0 /\ r.established = 1 /\ c \notin S
    BY <1>3, <1>4, <1>11, <2>1 DEF Stage
  <2>3. LifeOf(c) = "removed"
    BY <1>3, <2>1, <2>2, LifeStages
  <2>4. conn' = [conn EXCEPT ![c] = u] /\ UNCHANGED <<queue, m_connectionsSet, user>>
    BY <1>11 DEF ConnectDestroyed
  <2>5. t \in ConnRecords /\ t.state # "none" /\ t.destroyed = 0 /\ t.established = 1
    BY <1>3, <1>4, <2>2, CloseRecord DEF Kept
  <2> HIDE DEF t
  <2>6. u.state # "none" /\ u.destroyed = 1 /\ u.established = 1
    <3>1. u.state = t.state /\ u.destroyed = t.destroyed + 1 /\ u.established = t.established
      BY <2>5, DestroyedRecord
    <3> HIDE DEF u
    <3> QED
      BY <2>5, <3>1
  <2> HIDE DEF u
  <2>7. conn'[c] = u /\ \A d \in Conns \ {c} : conn'[d] = conn[d]
    BY <1>3, <2>4
  <2>8. OnlyConn(c)
    BY <1>1, <2>4, <2>7 DEF OnlyConn
  <2>9. Referenced(c)'
    BY <1>5, <1>7, <1>11
  <2>10. LifeOf(c)' = "destroyed"
    BY <2>6, <2>7, <2>9 DEF LifeOf, Deleted
  <2> QED
    BY <1>3, <1>6, <2>3, <2>8, <2>10, OthersLive, OneMoves DEF MayFollow
<1>12. CASE f = "forceCloseInLoop" /\ CanClose(r) /\ HandleClose(c, l) /\ UNCHANGED user
  <2>1. r.state \in Up
    BY <1>12 DEF CanClose, Up
  <2>2. Referenced(c)
    BY <1>5, <1>7, <1>12
  <2> QED
    BY <1>1, <1>3, <1>12, <2>1, <2>2, CloseLives
<1>13. ASSUME NEW s, Quiet(r, s), s.state = r.state, conn' = [conn EXCEPT ![c] = s],
              UNCHANGED <<queue, m_connectionsSet, user>>
       PROVE  LivesOn
  <2>1. /\ conn'[c] = s /\ \A d \in Conns \ {c} : conn'[d] = conn[d]
        /\ s.established = r.established /\ s.destroyed = r.destroyed
    BY <1>3, <1>13 DEF Quiet, Kept
  <2>2. OnlyConn(c)
    BY <1>1, <1>13, <2>1 DEF OnlyConn
  <2>3. Referenced(c)' <=> Referenced(c)
    BY <1>1, <1>13 DEF Referenced
  <2>4. r.state = "kConnecting" => c \in S
    BY <1>3 DEF Stage
  <2> QED
    BY <1>3, <1>4, <1>13, <2>1, <2>2, <2>3, <2>4, KeptLives
<1>14. CASE /\ f = "shutdownInLoop" /\ conn' = [conn EXCEPT ![c] = ShutdownInLoop(@)]
            /\ UNCHANGED <<queue, m_connectionsSet, user>>
  <2>1. Quiet(r, ShutdownInLoop(r)) /\ ShutdownInLoop(r).state = r.state
    BY <1>3, IsWritingQuiet DEF ShutdownInLoop
  <2> QED
    BY <1>13, <1>14, <2>1
<1>15. CASE /\ f = "sendInLoop"
            /\ \E w \in WriteResults(r, sock[c]) : conn' = [conn EXCEPT ![c] = SendInLoop(r, w)]
            /\ UNCHANGED <<queue, m_connectionsSet, user>>
  <2>1. PICK w : conn' = [conn EXCEPT ![c] = SendInLoop(r, w)]
    BY <1>15
  <2>2. Quiet(r, SendInLoop(r, w)) /\ SendInLoop(r, w).state = r.state
    BY <1>3, SendQuiet
  <2> QED
    BY <1>13, <1>15, <2>1, <2>2
<1> QED
  BY <1>2, <1>8, <1>9, <1>10, <1>11, <1>12, <1>14, <1>15 DEF Call

LEMMA FunctorLives ==
  ASSUME TcpInv, Alive, NEW l \in Loops, RunFunctor(l)
  PROVE  LivesOn
<1> DEFINE x == batch[l][index[l] + 1]
<1>1. Running(l, x.fun, x.conn, TodoOf(queue, batch, index')) /\ Call(l, x)
  BY RunningFunctor
<1>2. index[l] + 1 \in 1 .. Len(batch[l]) /\ x \in Functors
  <2>1. /\ batch[l] \in Seq(Functors) /\ index[l] \in Nat /\ Len(batch[l]) \in Nat
        /\ index[l] < Len(batch[l])
    BY LenProperties DEF RunFunctor, TcpInv, Types
  <2>2. index[l] + 1 \in 1 .. Len(batch[l])
    BY <2>1
  <2> QED
    BY <2>1, <2>2, ElementOfSeq
<1>3. PICK f \in Funs, c \in Conns : x = Functor(f, c) /\ x.fun = f /\ x.conn = c
  BY <1>2, FunctorsDiffer
<1>4. f \in HoldsPtr => HeldBy(batch[l], c)
  BY <1>2, <1>3 DEF HeldBy
<1> HIDE DEF x
<1> QED
  BY <1>1, <1>3, <1>4, CallLives

LEMMA LifeStep ==
  ASSUME TcpInv, [Next]_vars
  PROVE  LivesOn
<1>1. CASE UNCHANGED <<conn, user, m_connectionsSet, queue, batch>>
  BY <1>1 DEF LivesOn, Life, LifeOf, Deleted, Referenced
<1>2. CASE UNCHANGED vars
  BY <1>1, <1>2 DEF vars
<1>3. CASE Next
  <2>1. Alive
    BY <1>3 DEF Next
  <2>2. CASE StartListen
    BY <1>1, <2>2 DEF StartListen, loopVars
  <2>3. ASSUME NEW c \in Conns, Peer(c) \/ User(c)
        PROVE  LivesOn
    BY <1>1, <2>1, <2>3, UserLives DEF Peer, loopVars
  <2>4. ASSUME NEW l \in Loops, Loop(l)
        PROVE  LivesOn
    <3>1. CASE Poll(l)
      BY <1>1, <3>1 DEF Poll
    <3> QED
      BY <2>1, <2>4, <3>1, EventLives, TakeLives, FunctorLives, DoneLives, AcceptLives DEF Loop
  <2> QED
    BY <1>3, <2>2, <2>3, <2>4 DEF Next
<1> QED
  BY <1>2, <1>3

(* Every connection goes through the stages of ConnLife, in their order    *)
(* and each once, for any number of connections, loops and threads of the  *)
(* application, the step at which an assert fails included.  In particular *)
(* removeConnectionInLoop comes before connectDestroyed and that before    *)
(* the TcpConnection is deleted, and a deleted one is never referred to    *)
(* again, neither by a functor nor by m_connectionsSet.                    *)
THEOREM ServerImplementsConnLife == Spec => ImplementsConnLife
<1>1. Init => Connections!LifeInit
  <2> SUFFICES ASSUME Init
               PROVE  Connections!LifeInit
    OBVIOUS
  <2>1. \A c \in Conns : conn[c].state = "none"
    BY DEF Init, NoConn, NewConn
  <2>2. Life = [c \in Conns |-> "absent"]
    BY <2>1 DEF Life, LifeOf
  <2> QED
    BY <2>2 DEF Connections!LifeInit
<1>2. TcpInv /\ [Next]_vars => [Connections!LifeNext]_Life
  BY LifeStep DEF LivesOn
<1> QED
  BY <1>1, <1>2, TcpInvariant, PTL DEF Spec, ImplementsConnLife, Connections!LifeSpec

=============================================================================
