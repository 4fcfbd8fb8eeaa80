------------------------------ MODULE TcpServer ------------------------------
(***************************************************************************)
(* A TcpServer, its Acceptor, its EventLoopThreadPool and its              *)
(* TcpConnections (src/Tcp, src/Reactor/Acceptor.cpp, Channel.{h,cpp},     *)
(* src/Socket/Epoll.cpp): how a connection is accepted, handed to a loop,  *)
(* closed, removed and destroyed by two loops that run concurrently, while *)
(* the peer and another thread of the application act on it.               *)
(*                                                                         *)
(* A loop is what FunctorQueue promises, with the rounds of EventLoop: it  *)
(* polls, handles every reported event, then runs the functors that were   *)
(* queued when it swapped.  Loop 0 is the base loop, the others those of   *)
(* the pool.  A handler is one step: it runs in one thread, and what other *)
(* threads share with it are m_state and the queues: the test of m_state,  *)
(* its assignment and the queueing of the functor in send, shutdown and    *)
(* forceClose are steps of their own when another thread calls them.       *)
(*                                                                         *)
(* The asserts are compiled in: failed names the one that ended the        *)
(* process, or "lifetime" when a functor bound to a raw `this` ran after   *)
(* the connection was deleted, or "SIGPIPE", which the library never       *)
(* ignores.                                                                *)
(***************************************************************************)
EXTENDS Naturals, Sequences

CONSTANTS
  Conns,       \* the connections that peers open, one each
  MaxThreads,  \* bound: threads of the pool
  Senders,     \* bound: connections whose peer sends a message, and one each
  CanFill,     \* the kernel's send buffer can fill up
  Shared,      \* connections the application hands to a thread of its own
  UserOps,     \* what it calls on them from there
  MaxCalls,    \* bound: calls of it on one connection
  MaxFailures  \* bound: failures of accept() that leave the peer in the backlog

ASSUME TcpServerAssumption ==
  /\ "acceptor" \notin Conns  \* the name of the Acceptor's channel
  /\ MaxThreads \in Nat
  /\ Senders \subseteq Conns
  /\ CanFill \in BOOLEAN
  /\ Shared \subseteq Conns
  /\ UserOps \subseteq {"send", "shutdown", "forceClose"}
  /\ MaxCalls \in Nat
  /\ MaxFailures \in Nat

Base == 0
Loops == 0 .. MaxThreads

VARIABLES
  m_numThreads,      \* threads of the pool
  m_next,            \* the pool's round-robin index
  m_listenning,
  spent,             \* how much of the bounds MaxCalls and MaxFailures is used up
  m_connectionsSet,
  conn,              \* the TcpConnections and their channels
  sock,              \* the kernel's side of their sockets
  user,              \* what the application's thread does with a connection
  stale,             \* history: it went on although the connection had been closed
  queue,             \* per loop: m_pendingFunctors
  batch,             \* per loop: the functors being run; deleted together
  index,             \* per loop: how many of them have been run
  phase,             \* per loop: "poll", "dispatch" or "run"
  active,            \* per loop: channels reported and not yet handled
  failed             \* "no", or what ended the process

server  == <<m_numThreads, m_next, m_listenning, spent>>
loopVars == <<queue, batch, index, phase, active>>
vars == <<m_numThreads, m_next, m_listenning, spent, m_connectionsSet, conn, sock, user, stale,
          queue, batch, index, phase, active, failed>>

----------------------------------------------------------------------------
(* A connection: m_state; the channel's m_events; the events registered    *)
(* with epoll; the channel's place in epoll ("new" is index < 0); whether  *)
(* m_outputBuffer holds bytes; how often connectEstablished and            *)
(* connectDestroyed have been called.                                      *)
NewConn(l) ==
  [loop |-> l, state |-> "kConnecting", events |-> {}, interest |-> {}, epoll |-> "new",
   out |-> FALSE, established |-> 0, destroyed |-> 0]

NoConn == [NewConn(Base) EXCEPT !.state = "none"]

(* A socket: the peer ("absent", "connecting", "open", "refused"), data to  *)
(* be read, whether the peer has still a message to send, FIN received,     *)
(* write side shut, pending error.                                          *)
NewSock(c) ==
  [peer |-> "absent", data |-> FALSE, toSend |-> c \in Senders, fin |-> FALSE, shut |-> FALSE,
   err |-> FALSE]

(* What a queued functor is: a member function bound to a connection. *)
Functor(f, c) == [fun |-> f, conn |-> c]

(* Mutant: connectDestroyed is bound to a raw pointer too. *)
HoldsPtrUntilRemoved == {"connectEstablished", "removeConnectionInLoop", "forceCloseInLoop"}

(* These are bound to a TcpConnectionPtr, the others to a raw `this`. *)
HoldsPtr == {"connectEstablished", "removeConnectionInLoop", "connectDestroyed",
             "forceCloseInLoop"}

HeldBy(fs, c) == \E i \in 1 .. Len(fs) : fs[i].conn = c /\ fs[i].fun \in HoldsPtr

Referenced(c) ==
  \/ c \in m_connectionsSet
  \/ user[c] # "none"
  \/ \E l \in Loops : HeldBy(queue[l], c) \/ HeldBy(batch[l], c)

(* The TcpConnection has been deleted. *)
Deleted(c) == conn[c].state # "none" /\ ~Referenced(c)

Alive == failed = "no"

(* ~TcpConnection asserts its state; which connections a step deletes is   *)
(* seen by comparing it with the state before.                             *)
DtorAssert ==
  \A c \in Conns : Deleted(c)' /\ ~Deleted(c) => conn'[c].state = "kDisConnected"

Push(q, l, f, c) == [q EXCEPT ![l] = Append(@, Functor(f, c))]

----------------------------------------------------------------------------
(* Channel *)

(* Channel::update, then Epoll::updateChannel: ADD, or MOD.  A channel that *)
(* was removed keeps its index, so that the MOD fails its assert.           *)
Update(r) == [r EXCEPT !.interest = r.events, !.epoll = IF @ = "deleted" THEN @ ELSE "added"]

(* isWriting() is m_events &= kWriteEvent: the test drops the read event   *)
(* from m_events, though not from epoll.                                   *)
IsWriting(r) == "W" \in r.events
AfterIsWriting(r) == [r EXCEPT !.events = @ \cap {"W"}]

EnableReading(r) == Update([r EXCEPT !.events = @ \cup {"R"}])
EnableWriting(r) == Update([r EXCEPT !.events = @ \cup {"W"}])
DisableAll(r) == Update([r EXCEPT !.events = {}])

(* Channel::remove asserts that no event is enabled, and                   *)
(* Epoll::removeChannel that the channel is there.                         *)
RemoveAsserts(r) == r.events = {} /\ r.epoll = "added"
RemoveChannel(r) == [r EXCEPT !.interest = {}, !.epoll = "deleted"]

(* What epoll reports for a registered socket; HUP and ERR need no interest. *)
Revents(c) ==
  LET s == sock[c]  i == conn[c].interest IN
    (IF "R" \in i /\ (s.data \/ s.fin) THEN {"IN"} ELSE {}) \cup
    (IF "W" \in i THEN {"OUT"} ELSE {}) \cup
    (IF s.fin /\ s.shut THEN {"HUP"} ELSE {}) \cup
    (IF s.err THEN {"ERR"} ELSE {})

Ready(l) == {c \in Conns : conn[c].loop = l /\ conn[c].epoll = "added" /\ Revents(c) # {}}

----------------------------------------------------------------------------
(* TcpConnection, as functions of the connection and its socket.           *)

(* The results of the write() of sendInLoop: none is made when the         *)
(* connection is down or output is waiting; otherwise everything is        *)
(* written, or only a part (EAGAIN is none of it), or it fails with        *)
(* ECONNRESET, or with EPIPE, which comes with the signal.                 *)
WriteResults(r, s) ==
  IF r.state = "kDisConnected" \/ IsWriting(r) \/ r.out THEN {"none"}
  ELSE IF s.err THEN {"ECONNRESET"}
  ELSE IF s.shut THEN {"EPIPE"}
  ELSE {"all"} \cup (IF CanFill THEN {"part"} ELSE {})

(* sendInLoop, w being the result of its write. *)
SendInLoop(r, w) ==
  LET r1 == AfterIsWriting(r)
      r2 == [r1 EXCEPT !.out = TRUE]
  IN IF r.state = "kDisConnected" THEN r
     ELSE IF w \notin {"none", "part"} THEN r1
     ELSE IF IsWriting(r2) THEN r2 ELSE EnableWriting(r2)

AfterWrite(s, w) == [s EXCEPT !.err = @ /\ w # "ECONNRESET"]

ShutdownInLoop(r) == AfterIsWriting(r)
ShutdownWrite(r, s) == IF IsWriting(r) THEN s ELSE [s EXCEPT !.shut = TRUE]

CanClose(r) == r.state \in {"kConnected", "kDisConnecting"}

HandleCloseState(r) == DisableAll([r EXCEPT !.state = "kDisConnected"])

----------------------------------------------------------------------------
Init ==
  /\ m_numThreads \in 0 .. MaxThreads
  /\ m_next = 0
  /\ m_listenning = FALSE
  /\ spent = [calls |-> [c \in Conns |-> 0], failures |-> 0]
  /\ m_connectionsSet = {}
  /\ conn = [c \in Conns |-> NoConn]
  /\ sock = [c \in Conns |-> NewSock(c)]
  /\ user = [c \in Conns |-> "none"]
  /\ stale = FALSE
  /\ queue = [l \in Loops |-> <<>>]
  /\ batch = [l \in Loops |-> <<>>]
  /\ index = [l \in Loops |-> 0]
  /\ phase = [l \in Loops |-> "poll"]
  /\ active = [l \in Loops |-> {}]
  /\ failed = "no"


----------------------------------------------------------------------------
(* The peers *)

PeerConnects(c) ==
  /\ m_listenning
  /\ sock[c].peer = "absent"
  /\ sock' = [sock EXCEPT ![c].peer = "connecting"]

PeerSends(c) ==
  /\ sock[c].peer \in {"connecting", "open"}
  /\ sock[c].toSend
  /\ ~sock[c].fin
  /\ sock' = [sock EXCEPT ![c].toSend = FALSE, ![c].data = TRUE]

PeerCloses(c) ==
  /\ sock[c].peer \in {"connecting", "open"}
  /\ ~sock[c].fin
  /\ sock' = [sock EXCEPT ![c].fin = TRUE]

(* A RST: both directions are over, and the error is pending. *)
PeerResets(c) ==
  /\ sock[c].peer = "open"
  /\ ~(sock[c].fin /\ sock[c].shut)
  /\ sock' = [sock EXCEPT ![c].fin = TRUE, ![c].shut = TRUE, ![c].err = TRUE]

Peer(c) ==
  /\ PeerConnects(c) \/ PeerSends(c) \/ PeerCloses(c) \/ PeerResets(c)
  /\ UNCHANGED <<server, m_connectionsSet, conn, user, stale, loopVars, failed>>

----------------------------------------------------------------------------
(* Accepting *)

(* The pool is started, then Acceptor::listen runs in the base loop.       *)
StartListen ==
  /\ ~m_listenning
  /\ m_listenning' = TRUE
  /\ UNCHANGED <<m_numThreads, m_next, spent, m_connectionsSet, conn, sock, user, stale,
                 loopVars, failed>>

(* EventLoopThreadPool::getNextLoop: the loop, and the next m_next. *)
NextLoop == IF m_numThreads = 0 THEN Base ELSE m_next + 1

NextIndex ==
  IF m_numThreads = 0 THEN m_next ELSE IF m_next + 1 >= m_numThreads THEN 0 ELSE m_next + 1

Established(r) ==
  EnableReading([r EXCEPT !.state = "kConnected", !.established = @ + 1])

(* m_connectionCallBack may pass the connection on to another thread.      *)
ConnectionCallBack(c) ==
  user' \in {user} \cup (IF c \in Shared THEN {[user EXCEPT ![c] = "holds"]} ELSE {})

(* TcpServer::newConnetion; connectEstablished runs at once in the base    *)
(* loop, and is queued for any other.                                      *)
NewConnetion(c) ==
  /\ m_next' = NextIndex
  /\ m_connectionsSet' = m_connectionsSet \cup {c}
  /\ IF NextLoop = Base
       THEN /\ conn' = [conn EXCEPT ![c] = Established(NewConn(Base))]
            /\ ConnectionCallBack(c)
            /\ UNCHANGED queue
       ELSE /\ conn' = [conn EXCEPT ![c] = NewConn(NextLoop)]
            /\ queue' = Push(queue, NextLoop, "connectEstablished", c)
            /\ UNCHANGED user

Acceptor == [conn |-> "acceptor", revents |-> {"IN"}]

(* Mutant: there is no descriptor in reserve, so that EMFILE leaves the    *)
(* connection in the backlog for as long as it lasts.                      *)
AcceptorWithoutReserve ==
  /\ phase[Base] = "dispatch"
  /\ Acceptor \in active[Base]
  /\ active' = [active EXCEPT ![Base] = @ \ {Acceptor}]
  /\ \E c \in {d \in Conns : sock[d].peer = "connecting"} :
       \/ /\ sock' = [sock EXCEPT ![c].peer = "open"]
          /\ NewConnetion(c)
       \/ UNCHANGED <<sock, m_next, m_connectionsSet, conn, user, queue>>
  /\ UNCHANGED <<m_numThreads, m_listenning, spent, stale, batch, index, phase, failed>>

(* accept() gives a connection. *)
Accepts(c) ==
  /\ sock' = [sock EXCEPT ![c].peer = "open"]
  /\ NewConnetion(c)
  /\ UNCHANGED spent

(* It fails with EMFILE, and the descriptor kept in reserve is used to     *)
(* accept the connection and close it.                                     *)
Refuses(c) ==
  /\ sock' = [sock EXCEPT ![c].peer = "refused"]
  /\ UNCHANGED <<m_next, spent, m_connectionsSet, conn, user, queue>>

(* It fails and the peer stays in the backlog: nothing is done for another *)
(* errno than EMFILE; and for EMFILE the second accept() fails too when    *)
(* another thread has opened a file with the descriptor just released, or  *)
(* when the reserve was lost in this way before.  m_idleFd is no variable  *)
(* here: as other threads open and close files between any two of these    *)
(* calls, the second accept() can succeed or fail whatever it holds.       *)
LeavesWaiting ==
  /\ spent.failures < MaxFailures
  /\ spent' = [spent EXCEPT !.failures = @ + 1]
  /\ UNCHANGED <<m_next, m_connectionsSet, conn, sock, user, queue>>

(* Acceptor::handleRead *)
AcceptorHandleRead ==
  /\ phase[Base] = "dispatch"
  /\ Acceptor \in active[Base]
  /\ active' = [active EXCEPT ![Base] = @ \ {Acceptor}]
  /\ \E c \in {d \in Conns : sock[d].peer = "connecting"} :
       Accepts(c) \/ Refuses(c) \/ LeavesWaiting
  /\ UNCHANGED <<m_numThreads, m_listenning, stale, batch, index, phase, failed>>

----------------------------------------------------------------------------
(* Closing *)

(* Mutant: the connection stays in m_connectionsSet. *)
RemoveKeepsEntry(c, q) ==
  /\ queue' = Push(q, conn[c].loop, "connectDestroyed", c)
  /\ UNCHANGED <<m_connectionsSet, failed>>

(* TcpServer::removeConnectionInLoop, in the base loop. *)
RemoveConnectionInLoop(c, q) ==
  /\ m_connectionsSet' = m_connectionsSet \ {c}
  /\ IF c \in m_connectionsSet
       THEN queue' = Push(q, conn[c].loop, "connectDestroyed", c) /\ UNCHANGED failed
       ELSE failed' = "removeConnection" /\ queue' = q

(* Mutant: a close callback that leaves the connection in m_connectionsSet *)
(* and destroys the connection itself.                                     *)
HandleCloseDestroys(c, l) ==
  IF ~CanClose(conn[c])
    THEN failed' = "handleClose" /\ UNCHANGED <<conn, queue, m_connectionsSet>>
    ELSE /\ conn' = [conn EXCEPT ![c] = HandleCloseState(@)]
         /\ queue' = Push(Push(queue, conn[c].loop, "connectDestroyed", c),
                          Base, "removeConnectionInLoop", c)
         /\ UNCHANGED <<m_connectionsSet, failed>>

(* TcpConnection::handleClose, run by loop l, with removeConnection: the   *)
(* base loop removes it at once, another loop queues that for it.          *)
HandleClose(c, l) ==
  IF ~CanClose(conn[c])
    THEN failed' = "handleClose" /\ UNCHANGED <<conn, queue, m_connectionsSet>>
    ELSE IF conn[c].epoll = "deleted"
    THEN failed' = "updateChannel" /\ UNCHANGED <<conn, queue, m_connectionsSet>>
    ELSE /\ conn' = [conn EXCEPT ![c] = HandleCloseState(@)]
         /\ IF l = Base
              THEN RemoveConnectionInLoop(c, queue)
              ELSE /\ queue' = Push(queue, Base, "removeConnectionInLoop", c)
                   /\ UNCHANGED <<m_connectionsSet, failed>>

(* m_messageCallBack, in the connection's loop: the application answers,   *)
(* shuts down, does both, closes by force, or waits for more.              *)
MessageCallBack(c, l) ==
  LET r == conn[c]
      s == [sock[c] EXCEPT !.data = FALSE]
      connected == r.state = "kConnected"
      down == [r EXCEPT !.state = "kDisConnecting"]
  IN \/ /\ conn' = conn /\ sock' = [sock EXCEPT ![c] = s]
        /\ UNCHANGED <<queue, failed>>
     \/ /\ connected
        /\ \E w \in WriteResults(r, s) :
             LET sent == SendInLoop(r, w)
                 closing == [sent EXCEPT !.state = "kDisConnecting"]
                 s1 == AfterWrite(s, w)
             IN /\ failed' = IF w = "EPIPE" THEN "SIGPIPE" ELSE failed
                /\ \/ conn' = [conn EXCEPT ![c] = sent] /\ sock' = [sock EXCEPT ![c] = s1]
                   \/ /\ conn' = [conn EXCEPT ![c] = ShutdownInLoop(closing)]
                      /\ sock' = [sock EXCEPT ![c] = ShutdownWrite(closing, s1)]
        /\ UNCHANGED queue
     \/ /\ connected
        /\ conn' = [conn EXCEPT ![c] = ShutdownInLoop(down)]
        /\ sock' = [sock EXCEPT ![c] = ShutdownWrite(down, s)]
        /\ UNCHANGED <<queue, failed>>
     \/ /\ CanClose(r)
        /\ conn' = [conn EXCEPT ![c] = down]
        /\ sock' = [sock EXCEPT ![c] = s]
        /\ queue' = Push(queue, l, "forceCloseInLoop", c)
        /\ UNCHANGED failed

(* TcpConnection::handleRead, by what readFd returns: a message, an error, *)
(* which is only logged, or 0.                                             *)
HandleRead(c, l) ==
  \/ /\ sock[c].data
     /\ MessageCallBack(c, l)
     /\ UNCHANGED m_connectionsSet
  \/ /\ ~sock[c].data /\ sock[c].err
     /\ sock' = [sock EXCEPT ![c].err = FALSE]
     /\ UNCHANGED <<conn, queue, m_connectionsSet, failed>>
  \/ /\ ~sock[c].data /\ ~sock[c].err
     /\ HandleClose(c, l)
     /\ UNCHANGED sock

(* Channel::handleEvent.  A connection sets no write callback and no error *)
(* callback: OUT and ERR alone do nothing.                                 *)
HandleEvent(l) ==
  /\ phase[l] = "dispatch"
  /\ \E e \in active[l] \ {Acceptor} :
       /\ active' = [active EXCEPT ![l] = @ \ {e}]
       /\ \/ "IN" \in e.revents /\ HandleRead(e.conn, l)
          \/ /\ "IN" \notin e.revents /\ "HUP" \in e.revents
             /\ HandleClose(e.conn, l)
             /\ UNCHANGED sock
          \/ /\ {"IN", "HUP"} \cap e.revents = {}
             /\ UNCHANGED <<conn, sock, queue, m_connectionsSet, failed>>
  /\ UNCHANGED <<server, user, stale, batch, index, phase>>


----------------------------------------------------------------------------
(* The functors *)

(* Mutant: connectDestroyed leaves the channel registered. *)
ConnectDestroyedKeepsChannel(c) ==
  /\ conn' = [conn EXCEPT ![c].destroyed = @ + 1]
  /\ UNCHANGED <<sock, queue, m_connectionsSet, user, failed>>

ConnectDestroyed(c) ==
  LET r == IF conn[c].state = "kConnected" THEN HandleCloseState(conn[c]) ELSE conn[c]
  IN /\ failed' = IF RemoveAsserts(r) THEN failed ELSE "removeChannel"
     /\ conn' = [conn EXCEPT ![c] = [RemoveChannel(r) EXCEPT !.destroyed = @ + 1]]
     /\ UNCHANGED <<sock, queue, m_connectionsSet, user>>

(* A functor of the loop is called. *)
Call(l, f) ==
  LET c == f.conn IN
  \/ /\ f.fun = "connectEstablished"
     /\ conn' = [conn EXCEPT ![c] = Established(@)]
     /\ ConnectionCallBack(c)
     /\ UNCHANGED <<sock, queue, m_connectionsSet, failed>>
  \/ /\ f.fun = "removeConnectionInLoop"
     /\ RemoveConnectionInLoop(c, queue)
     /\ UNCHANGED <<conn, sock, user>>
  \/ /\ f.fun = "connectDestroyed"
     /\ ConnectDestroyed(c)
  \/ /\ f.fun = "forceCloseInLoop"
     /\ IF CanClose(conn[c]) THEN HandleClose(c, l)
                             ELSE UNCHANGED <<conn, queue, m_connectionsSet, failed>>
     /\ UNCHANGED <<sock, user>>
  \/ /\ f.fun \notin HoldsPtr
     /\ Deleted(c)
     /\ failed' = "lifetime"
     /\ UNCHANGED <<conn, sock, queue, m_connectionsSet, user>>
  \/ /\ f.fun = "shutdownInLoop"
     /\ ~Deleted(c)
     /\ conn' = [conn EXCEPT ![c] = ShutdownInLoop(@)]
     /\ sock' = [sock EXCEPT ![c] = ShutdownWrite(conn[c], @)]
     /\ UNCHANGED <<queue, m_connectionsSet, user, failed>>
  \/ /\ f.fun = "sendInLoop"
     /\ ~Deleted(c)
     /\ \E w \in WriteResults(conn[c], sock[c]) :
          LET sent == SendInLoop(conn[c], w) IN
          /\ conn' = [conn EXCEPT ![c] = sent]
          /\ sock' = [sock EXCEPT ![c] = AfterWrite(@, w)]
          /\ failed' = IF w = "EPIPE" THEN "SIGPIPE"
                       ELSE IF sent.epoll = "deleted" /\ "W" \in sent.interest
                       THEN "updateChannel" ELSE failed
     /\ UNCHANGED <<queue, m_connectionsSet, user>>

(* The rounds of a loop: epoll_wait returns; when the events have been     *)
(* handled, the pending functors are taken; they are called; the vector    *)
(* that holds them is destroyed.                                           *)
Poll(l) ==
  LET accepts == l = Base /\ \E c \in Conns : sock[c].peer = "connecting"
      events == {[conn |-> c, revents |-> Revents(c)] : c \in Ready(l)}
  IN /\ phase[l] = "poll"
     /\ accepts \/ events # {} \/ queue[l] # <<>>
     /\ active' = [active EXCEPT ![l] = events \cup (IF accepts THEN {Acceptor} ELSE {})]
     /\ phase' = [phase EXCEPT ![l] = "dispatch"]
     /\ UNCHANGED <<server, m_connectionsSet, conn, sock, user, stale, queue, batch, index,
                    failed>>

TakeFunctors(l) ==
  /\ phase[l] = "dispatch"
  /\ active[l] = {}
  /\ phase' = [phase EXCEPT ![l] = "run"]
  /\ batch' = [batch EXCEPT ![l] = queue[l]]
  /\ queue' = [queue EXCEPT ![l] = <<>>]
  /\ UNCHANGED <<server, m_connectionsSet, conn, sock, user, stale, index, active, failed>>

RunFunctor(l) ==
  /\ phase[l] = "run"
  /\ index[l] < Len(batch[l])
  /\ index' = [index EXCEPT ![l] = @ + 1]
  /\ Call(l, batch[l][index[l] + 1])
  /\ UNCHANGED <<server, stale, batch, phase, active>>

FunctorsDone(l) ==
  /\ phase[l] = "run"
  /\ index[l] = Len(batch[l])
  /\ batch' = [batch EXCEPT ![l] = <<>>]
  /\ index' = [index EXCEPT ![l] = 0]
  /\ phase' = [phase EXCEPT ![l] = "poll"]
  /\ UNCHANGED <<server, m_connectionsSet, conn, sock, user, stale, queue, active>>
  /\ failed' = IF DtorAssert THEN failed ELSE "dtor"

Loop(l) ==
  \/ Poll(l) \/ HandleEvent(l) \/ TakeFunctors(l) \/ RunFunctor(l) \/ FunctorsDone(l)
  \/ l = Base /\ AcceptorHandleRead

----------------------------------------------------------------------------
(* Another thread of the application, which was given the connection by    *)
(* the connection callback, makes calls on it and lets it go.              *)

(* The test of m_state at the top of send, shutdown and forceClose. *)
StateTest(op, r) ==
  IF op = "forceClose" THEN CanClose(r) ELSE r.state = "kConnected"

UserTests(c) ==
  /\ user[c] = "holds"
  /\ spent.calls[c] < MaxCalls
  /\ spent' = [spent EXCEPT !.calls[c] = @ + 1]
  /\ \E op \in UserOps : StateTest(op, conn[c]) /\ user' = [user EXCEPT ![c] = op]
  /\ UNCHANGED <<m_numThreads, m_next, m_listenning, m_connectionsSet, conn, sock, stale,
                 loopVars, failed>>

(* What shutdown and forceClose do next, and what they have to queue then. *)
UserSets(c) ==
  /\ user[c] \in {"shutdown", "forceClose"}
  /\ conn' = [conn EXCEPT ![c].state = "kDisConnecting"]
  /\ user' = [user EXCEPT ![c] = IF @ = "shutdown" THEN "shutdownInLoop"
                                                   ELSE "forceCloseInLoop"]
  /\ stale' = (stale \/ ~CanClose(conn[c]))
  /\ UNCHANGED <<server, m_connectionsSet, sock, loopVars, failed>>

(* The functor is queued, and the call is over. *)
UserQueues(c) ==
  /\ user[c] \in {"send", "shutdownInLoop", "forceCloseInLoop"}
  /\ queue' = Push(queue, conn[c].loop, IF user[c] = "send" THEN "sendInLoop" ELSE user[c], c)
  /\ user' = [user EXCEPT ![c] = "holds"]
  /\ stale' = (stale \/ ~CanClose(conn[c]))
  /\ UNCHANGED <<server, m_connectionsSet, conn, sock, batch, index, phase, active, failed>>

UserReleases(c) ==
  /\ user[c] = "holds"
  /\ user' = [user EXCEPT ![c] = "none"]
  /\ UNCHANGED <<server, m_connectionsSet, conn, sock, stale, loopVars>>
  /\ failed' = IF DtorAssert THEN failed ELSE "dtor"

User(c) == UserTests(c) \/ UserSets(c) \/ UserQueues(c) \/ UserReleases(c)

----------------------------------------------------------------------------
Next ==
  /\ Alive
  /\ \/ StartListen
     \/ \E c \in Conns : Peer(c) \/ User(c)
     \/ \E l \in Loops : Loop(l)

(* The loops' threads and the application's are scheduled; peers do what   *)
(* they like.                                                              *)
Fairness ==
  /\ \A l \in Loops : WF_vars(Alive /\ Loop(l))
  /\ \A c \in Conns : WF_vars(Alive /\ User(c))

Spec == Init /\ [][Next]_vars /\ Fairness

----------------------------------------------------------------------------
States == {"none", "kConnecting", "kConnected", "kDisConnecting", "kDisConnected"}

(* Types of the server, and the index of the pool is one of its loops.     *)
TypeOK ==
  /\ m_numThreads \in 0 .. MaxThreads
  /\ m_next \in 0 .. MaxThreads
  /\ m_numThreads > 0 => m_next < m_numThreads
  /\ m_connectionsSet \subseteq Conns
  /\ \A c \in Conns :
       /\ conn[c].state \in States
       /\ conn[c].loop \in 0 .. m_numThreads
       /\ conn[c].epoll \in {"new", "added", "deleted"}
       /\ user[c] \in {"none", "holds", "shutdownInLoop", "forceCloseInLoop"} \cup UserOps
  /\ \A l \in Loops : index[l] \in 0 .. Len(batch[l]) /\ phase[l] \in {"poll", "dispatch", "run"}

(* The lifetime of a connection: no loop holds a pointer to the channel of *)
(* a deleted connection, neither in its epoll set nor among the events it  *)
(* has still to handle, whichever threads drop their pointers when. (With  *)
(* it the types, which say that getNextLoop's index is one of its loops.)  *)
NoDanglingChannel ==
  /\ TypeOK
  /\ Alive => \A c \in Conns : Deleted(c) =>
    /\ conn[c].epoll # "added"
    /\ \A l \in Loops : \A e \in active[l] : e.conn # c

(* "should be called only once": connectEstablished and connectDestroyed   *)
(* are each called at most once for a connection, in this order, although  *)
(* two loops and the application can all set its closing off.              *)
CalledOnce ==
  \A c \in Conns :
    conn[c].destroyed <= conn[c].established /\ conn[c].established <= 1

(* Unless the loop closes the connection between another thread's test of  *)
(* m_state, its assignment and its queueing of the functor, no deleted     *)
(* connection is used by a functor bound to a raw `this`, and the only     *)
(* assert that can fail is the one of handleClose.                         *)
OnlyHangupFails == ~stale => failed \in {"no", "SIGPIPE", "handleClose"}

(* The stage of ConnLife that connection c has reached. *)
LifeOf(c) ==
  IF conn[c].state = "none" THEN "absent"
  ELSE IF Deleted(c) THEN "deleted"
  ELSE IF conn[c].established = 0 THEN "connecting"
  ELSE IF conn[c].destroyed # 0 THEN "destroyed"
  ELSE IF c \in m_connectionsSet THEN "up" ELSE "removed"

Life == [c \in Conns |-> LifeOf(c)]

Connections == INSTANCE ConnLife WITH life <- Life

(* The life of every connection is the one of ConnLife, whatever the loops *)
(* and the application do, and up to an assert that fails: a connection is *)
(* destroyed after the server has removed it and before the last pointer   *)
(* to it goes; and when that is gone nothing refers to it again.           *)
ImplementsConnLife == Connections!LifeSpec

(* A connection that its peer has closed is deleted, and its descriptor    *)
(* closed, unless it has output waiting.                                   *)
ClosedIsDeleted ==
  \A c \in Conns :
    sock[c].fin /\ sock[c].peer = "open" ~> Deleted(c) \/ ~Alive \/ conn[c].out

(* No peer waits for ever: it is accepted, or, when the descriptors are    *)
(* used up, accepted and closed, as often as that happens; provided that   *)
(* accept() fails finitely often in a way that leaves it in the backlog.   *)
BacklogServed == \A c \in Conns : sock[c].peer = "connecting" ~> sock[c].peer # "connecting" \/ ~Alive

(* assert(m_state == kConnected || m_state == kDisConnecting) holds        *)
(* whenever handleClose is called.                                         *)
HandleCloseAssertHolds == failed # "handleClose"

(* What is in m_outputBuffer is sent, as long as the peer is there.        *)
OutputIsSent ==
  \A c \in Conns : conn[c].out ~> ~conn[c].out \/ sock[c].fin \/ ~Alive

=============================================================================
