------------------------------ MODULE HttpServer ------------------------------
(***************************************************************************)
(* One connection of the HTTP server: src/Http/HttpServer.cpp,             *)
(* HttpContext.{h,cpp}, HttpRequest.h, on the input buffer of a            *)
(* TcpConnection (src/common/Buffer.h).                                    *)
(*                                                                         *)
(* TCP delivers the client's bytes in chunks that respect no boundary.  A  *)
(* line is two items, "half" and the item that ends it with CRLF and says  *)
(* what line it is; a chunk is any number of items.  onMessage runs in one *)
(* thread, a step for each line that parseRequest takes.                   *)
(***************************************************************************)
EXTENDS Naturals, Sequences, SequencesExt

CONSTANT MaxLines  \* bound: lines the client sends

(* What the parser tells apart.  A request line: a good one of HTTP/1.1 or *)
(* 1.0; one whose method is unknown; one with a known method that is wrong *)
(* further on.  A header: Connection with one of its two values, or any    *)
(* other.  A line without a colon, the empty one as a rule.                *)
RequestLines == {"HTTP/1.1", "HTTP/1.0", "badMethod", "badVersion"}
Headers == {"Connection: close", "Connection: Keep-Alive"}
Lines == RequestLines \cup Headers \cup {"empty"}

VARIABLES
  sent,        \* history: the lines the client has sent
  sending,     \* it has sent the first half of another
  inflight,    \* items on their way
  buf,         \* m_inputBuffer
  state_,      \* HttpContext::state_
  request_,    \* its request: method, version, Connection header
  m_state,     \* of the TcpConnection
  pc,          \* where onMessage is
  answers,     \* history: the responses sent, "400" or whether it closes
  pipelined    \* history: the client did not wait for a response

server == <<buf, state_, request_, m_state, pc, answers>>
httpVars == <<sent, sending, inflight, buf, state_, request_, m_state, pc, answers, pipelined>>

NewRequest == [method |-> "kInvalid", version |-> "kUnknown", connection |-> ""]

(* onConnection sets a new HttpContext. *)
HttpInit ==
  /\ sent = <<>> /\ sending = FALSE /\ inflight = <<>>
  /\ buf = <<>>
  /\ state_ = "kExpectRequestLine"
  /\ request_ = NewRequest
  /\ m_state = "kConnected"
  /\ pc = "idle"
  /\ answers = <<>>
  /\ pipelined = FALSE

----------------------------------------------------------------------------
(* What a parser that is given whole lines makes of them; bad when it has  *)
(* met a request line it cannot accept, and gone no further.               *)
HasColon(line) == line \in Headers

Closes(version, connection) ==
  connection = "Connection: close"
    \/ (version = "HTTP/1.0" /\ connection # "Connection: Keep-Alive")

TakeLine(p, line) ==
  IF p.bad THEN p
  ELSE IF p.version = "kUnknown"
    THEN IF line \in {"HTTP/1.1", "HTTP/1.0"} THEN [p EXCEPT !.version = line]
         ELSE [p EXCEPT !.bad = TRUE, !.answers = Append(@, "400")]
  ELSE IF HasColon(line) THEN [p EXCEPT !.connection = line]
  ELSE [version |-> "kUnknown", connection |-> "", bad |-> FALSE,
        answers |-> Append(p.answers, IF Closes(p.version, p.connection) THEN "close" ELSE "keep")]

NewParser == [version |-> "kUnknown", connection |-> "", bad |-> FALSE, answers |-> <<>>]

Expected(lines) ==
  LET after[n \in 0 .. Len(lines)] ==
        IF n = 0 THEN NewParser ELSE TakeLine(after[n - 1], lines[n])
  IN  after[Len(lines)].answers

----------------------------------------------------------------------------
(* The client sends half a line, then the rest of it. *)
Send ==
  /\ Len(sent) < MaxLines
  /\ IF sending
       THEN \E line \in Lines :
              /\ inflight' = Append(inflight, line)
              /\ sent' = Append(sent, line)
              /\ UNCHANGED pipelined
       ELSE /\ inflight' = Append(inflight, "half")
            /\ pipelined' = (pipelined \/ Len(Expected(sent)) > Len(answers))
            /\ UNCHANGED sent
  /\ sending' = ~sending
  /\ UNCHANGED server

----------------------------------------------------------------------------
(* handleRead: readFd appends what has arrived, and onMessage is called.   *)
OnMessage ==
  /\ pc = "idle"
  /\ \E n \in 1 .. Len(inflight) :
       /\ buf' = buf \o SubSeq(inflight, 1, n)
       /\ inflight' = SubSeq(inflight, n + 1, Len(inflight))
  /\ pc' = "parse"
  /\ UNCHANGED <<sent, sending, state_, request_, m_state, answers, pipelined>>

(* Mutant: a CRLF at the very end is overlooked. *)
FindCRLFBeforeEnd == IF \E i \in 1 .. Len(buf) - 1 : buf[i] # "half"
                     THEN CHOOSE i \in 1 .. Len(buf) :
                            buf[i] # "half" /\ \A j \in 1 .. i - 1 : buf[j] = "half"
                     ELSE 0

(* findCRLF: the index of the item that ends the first line, 0 for NULL. *)
FindCRLF == IF \E i \in 1 .. Len(buf) : buf[i] # "half"
            THEN CHOOSE i \in 1 .. Len(buf) :
                   buf[i] # "half" /\ \A j \in 1 .. i - 1 : buf[j] = "half"
            ELSE 0

(* Mutant: retrieveAll. *)
AfterAll == <<>>

(* retrieveUntil(crlf + 2). *)
AfterLine == SubSeq(buf, FindCRLF + 1, Len(buf))

(* send: only when connected. *)
SendAnswer(a) == answers' = IF m_state = "kConnected" THEN Append(answers, a) ELSE answers

(* parseRequest finds no whole line. *)
ParseMore ==
  /\ pc = "parse"
  /\ FindCRLF = 0
  /\ pc' = "idle"
  /\ UNCHANGED <<sent, sending, inflight, buf, state_, request_, m_state, answers, pipelined>>

(* processRequestLine calls setMethod on a line that has a space; it       *)
(* asserts that the request has no method yet.                             *)
SetMethodAssertFails(line) == line # "empty" /\ request_.method # "kInvalid"

(* processRequestLine fails, the line stays in the buffer, and onMessage   *)
(* answers 400 and shuts the connection down.                              *)
BadRequestLine ==
  /\ pc = "parse"
  /\ state_ = "kExpectRequestLine"
  /\ FindCRLF > 0
  /\ LET line == buf[FindCRLF] IN
       /\ line \notin {"HTTP/1.1", "HTTP/1.0"}
       /\ IF SetMethodAssertFails(line)
            THEN pc' = "aborted" /\ UNCHANGED <<request_, m_state, answers>>
            ELSE /\ request_' = IF line = "badVersion" THEN [request_ EXCEPT !.method = "set"]
                                ELSE request_
                 /\ SendAnswer("400")
                 /\ m_state' = "kDisConnecting"
                 /\ pc' = "idle"
  /\ UNCHANGED <<sent, sending, inflight, buf, state_, pipelined>>

RequestLine ==
  /\ pc = "parse"
  /\ state_ = "kExpectRequestLine"
  /\ FindCRLF > 0
  /\ buf[FindCRLF] \in {"HTTP/1.1", "HTTP/1.0"}
  /\ IF SetMethodAssertFails(buf[FindCRLF])
       THEN pc' = "aborted" /\ UNCHANGED <<buf, state_, request_>>
       ELSE /\ request_' = [request_ EXCEPT !.method = "set", !.version = buf[FindCRLF]]
            /\ buf' = AfterLine
            /\ state_' = "kExpectHeaders"
            /\ UNCHANGED pc
  /\ UNCHANGED <<sent, sending, inflight, m_state, answers, pipelined>>

Header ==
  /\ pc = "parse"
  /\ state_ = "kExpectHeaders"
  /\ FindCRLF > 0
  /\ HasColon(buf[FindCRLF])
  /\ request_' = [request_ EXCEPT !.connection = buf[FindCRLF]]
  /\ buf' = AfterLine
  /\ UNCHANGED <<sent, sending, inflight, state_, m_state, pc, answers, pipelined>>

(* A line without a colon ends the headers. *)
EndOfHeaders ==
  /\ pc = "parse"
  /\ state_ = "kExpectHeaders"
  /\ FindCRLF > 0
  /\ ~HasColon(buf[FindCRLF])
  /\ buf' = AfterLine
  /\ pc' = "gotAll"
  /\ state_' = "kGotAll"
  /\ UNCHANGED <<sent, sending, inflight, request_, m_state, answers, pipelined>>

(* gotAll: onRequest, whose callback has the last word on closing, and     *)
(* reset.                                                                  *)
OnRequest ==
  /\ pc = "gotAll"
  /\ SendAnswer(IF Closes(request_.version, request_.connection) THEN "close" ELSE "keep")
  /\ m_state' \in {m_state, "kDisConnecting"}
  /\ state_' = "kExpectRequestLine"
  /\ request_' = NewRequest
  /\ pc' = "idle"
  /\ UNCHANGED <<sent, sending, inflight, buf, pipelined>>

Server ==
  OnMessage \/ ParseMore \/ BadRequestLine \/ RequestLine \/ Header \/ EndOfHeaders \/ OnRequest

HttpNext == pc # "aborted" /\ (Send \/ Server)

HttpSafety == HttpInit /\ [][HttpNext]_httpVars

(* What the client has sent arrives, and the loop's thread runs. *)
HttpSpec == HttpSafety /\ WF_httpVars(pc # "aborted" /\ Server)

----------------------------------------------------------------------------
(* Types; and a parser that is asked for more stands where parseRequest    *)
(* has a branch for it: in the others it would never leave its loop.       *)
HttpTypeOK ==
  /\ sent \in Seq(Lines) /\ sending \in BOOLEAN
  /\ inflight \in Seq(Lines \cup {"half"})
  /\ buf \in Seq(Lines \cup {"half"})
  /\ state_ \in {"kExpectRequestLine", "kExpectHeaders", "kGotAll"}
  /\ request_ \in [method : {"kInvalid", "set"}, version : RequestLines \cup {"kUnknown"},
                   connection : Headers \cup {""}]
  /\ m_state \in {"kConnected", "kDisConnecting"}
  /\ pc \in {"idle", "parse", "gotAll", "aborted"}
  /\ answers \in Seq({"400", "close", "keep"})
  /\ pc = "parse" => state_ \in {"kExpectRequestLine", "kExpectHeaders"}

(* However TCP cuts the stream, the server answers what a parser would     *)
(* answer that is given whole lines: no request is answered twice, skipped *)
(* or mixed with the headers of another. (With it the types, which say     *)
(* that parseRequest is never asked for more in a state it has no branch   *)
(* for, where it would not leave its loop.)                                *)
AnswersMatch == HttpTypeOK /\ IsPrefix(answers, Expected(sent))

(* A request that is complete is answered, unless the client goes on       *)
(* without waiting for the response, or the connection is shut down.       *)
AnsweredInTurn ==
  Len(Expected(sent)) > Len(answers) ~>
    \/ Len(answers) >= Len(Expected(sent))
    \/ pipelined
    \/ m_state = "kDisConnecting"

(* Pipelining: every complete request is answered.                         *)
PipelinedAnswered ==
  \A n \in 1 .. MaxLines :
    Len(Expected(sent)) >= n ~>
      Len(answers) >= n \/ m_state = "kDisConnecting" \/ pc = "aborted"

=============================================================================
