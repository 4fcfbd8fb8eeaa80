----------------------------- MODULE RedisConnect -----------------------------
(***************************************************************************)
(* src/Redis/RedisConnect.h: the connections that the pool lends, and the  *)
(* request and response protocol that their users run over them.           *)
(*                                                                         *)
(* A connection is a stream.  The server answers commands in order, and    *)
(* what it has answered and nobody has read waits on the wire, also after  *)
(* the user who asked has given up.  A reply is a sequence of tokens:      *)
(*   "+"    a status, an integer, or an array of none                      *)
(*   "-"    an error                                                       *)
(*   "$"    a bulk string, "$-1" one that is not there (nil)               *)
(*   "*n"   an array: n replies follow                                     *)
(* The strings themselves, which go to res, are left out.                  *)
(*                                                                         *)
(* parse() starts again from the first byte after every recv; here it goes *)
(* on token by token, which comes to the same: a recv may bring one token, *)
(* several, or a part of one.  Connections share nothing but the pool: one *)
(* of them, Watched, has its stream modelled and stands for each, while of *)
(* the others only the error code is, which their users may set.           *)
(***************************************************************************)
EXTENDS ResPool

CONSTANTS
  Watched,    \* the connection whose stream is modelled
  MaxStale    \* bound: tokens on its wire when a command is sent

ASSUME WatchedAssumption == Watched \in Nat \ {0} /\ MaxStale \in Nat

VARIABLES
  wire,     \* tokens of the stream, on their way or arrived, not yet read
  cut,      \* a part of the first of them has been read
  dead,     \* the stream is closed, by the server or by close()
  at,       \* where parse() is: at the "reply", in an "array", "astray"; or no command: "none"
  need,     \* its cnt: elements that the array still lacks
  behind,   \* there was something on the wire when the command was sent
  ignored,  \* the last command of the user lost its reply
  wentOn,   \* history: a command was sent nevertheless
  strayed,  \* history: parse() took something else for the elements of an array
  misread   \* history: a command was given a reply not its own

stream == <<wire, cut, dead>>
command == <<at, need, behind>>
redisVars == <<wire, cut, dead, at, need, behind, ignored, wentOn, strayed, misread>>
allVars == <<vars, redisVars>>
poolVars == <<vec, config, created, pc, idx, held, stray>>

RedisInit ==
  /\ Init
  /\ wire = <<>>
  /\ cut = FALSE /\ dead = FALSE
  /\ at = "none" /\ need = 0 /\ behind = FALSE
  /\ ignored = FALSE /\ wentOn = FALSE /\ strayed = FALSE /\ misread = FALSE

----------------------------------------------------------------------------
(* cnt of an array's line. *)
Count == [c \in {"*1", "*2"} |-> IF c = "*1" THEN 1 ELSE 2]

(* execute() takes any command.  One token answers set, get, incr, and any *)
(* that fails; arrays of strings answer keys and lrange, with a nil among  *)
(* them mget; of statuses, exec; and of arrays, exec, slowlog or xrange.   *)
Replies ==
  {<<"+">>, <<"-">>, <<"$">>, <<"$-1">>,
   <<"*2", "$", "$">>, <<"*2", "$", "$-1">>, <<"*2", "$-1", "$">>, <<"*2", "+", "+">>,
   <<"*2", "$", "*1", "$">>, <<"*2", "*1", "$", "*1", "$">>}

(* What parse() makes of a token after those before it: the code that it   *)
(* returns, or where it goes on.  An array in an array takes the place of  *)
(* the outer one, whose cnt is forgotten.  A nil makes the loop step back  *)
(* by one byte, which does no harm if it was the last element, and a line  *)
(* is taken for the length of a string: from there parse() is astray.      *)
Parse(tok) ==
  CASE at = "astray" -> [at |-> "astray", need |-> need]
    [] at # "astray" /\ tok \in DOMAIN Count -> [at |-> "array", need |-> Count[tok]]
    [] at = "reply" /\ tok \in {"-", "$-1"} -> [at |-> "FAIL", need |-> 0]
    [] at = "reply" /\ tok \in {"+", "$"} -> [at |-> "OK", need |-> 0]
    [] at = "array" /\ tok \in {"$", "$-1"} /\ need = 1 -> [at |-> "OK", need |-> 0]
    [] at = "array" /\ tok = "$" /\ need # 1 -> [at |-> "array", need |-> need - 1]
    [] OTHER -> [at |-> "astray", need |-> need]

(* The token is not what the array goes on with. *)
Strays(tok) == at = "array" /\ (Parse(tok).at = "astray" \/ (tok \in DOMAIN Count /\ need > 1))

(* The reply has not been seen: the connection is out of step. *)
Lost(code) == code \notin {"OK", "FAIL"}

(* Mutant: a timeout is no error. *)
SetCodeUnlessTimeout(r, code) ==
  failed' = IF code \in {"OK", "TIMEOUT"} THEN failed \ {r} ELSE failed \cup {r}

(* getResult: redis->code = doWork(), whatever it was before.  FAIL is any *)
(* negative code that answers, NOTFOUND too; OK any other.                 *)
SetCode(r, code) == failed' = IF code = "OK" THEN failed \ {r} ELSE failed \cup {r}

(* The watched connection is in the hands of t, and idle. *)
Has(t) == pc[t] = "using" /\ held[t] = Watched
Idle(t) == Has(t) /\ at = "none"

(* The command ends.  An answer is its own if nothing was on the wire      *)
(* before it; if not, get and its like may even read vec[0] of an empty    *)
(* vec.                                                                    *)
NoCommand == at' = "none" /\ need' = 0 /\ behind' = FALSE

Ends(code) ==
  /\ NoCommand
  /\ SetCode(Watched, code)
  /\ ignored' = Lost(code)
  /\ misread' = (misread \/ (~Lost(code) /\ behind))

(* n tokens, and perhaps a part of the next, are read and forgotten.       *)
Drops(n) ==
  /\ wire' = SubSeq(wire, n + 1, Len(wire))
  /\ cut' \in {FALSE, n < Len(wire)}

(* execute() writes the command, and its reply is on its way. *)
Send(t) ==
  /\ Idle(t)
  /\ ~dead
  /\ Len(wire) <= MaxStale
  /\ \E reply \in Replies : wire' = wire \o reply
  /\ at' = "reply"
  /\ behind' = (wire # <<>>)
  /\ wentOn' = (wentOn \/ ignored)
  /\ UNCHANGED <<poolVars, failed, cut, dead, need, ignored, strayed, misread>>

(* A token is read and parse() asks for more. *)
Read(t) ==
  /\ Has(t)
  /\ at # "none" /\ wire # <<>> /\ ~cut
  /\ Parse(Head(wire)).at \in {"array", "astray"}
  /\ wire' = Tail(wire)
  /\ at' = Parse(Head(wire)).at
  /\ need' = Parse(Head(wire)).need
  /\ strayed' = (strayed \/ Strays(Head(wire)))
  /\ UNCHANGED <<poolVars, failed, cut, dead, behind, ignored, wentOn, misread>>

(* It does not: the command ends, and what the same recv has brought       *)
(* besides is forgotten.                                                   *)
Answered(t) ==
  /\ Has(t)
  /\ at # "none" /\ wire # <<>> /\ ~cut
  /\ Parse(Head(wire)).at \in {"OK", "FAIL"}
  /\ Ends(Parse(Head(wire)).at)
  /\ \E n \in 1 .. Len(wire) : Drops(n)
  /\ UNCHANGED <<poolVars, dead, wentOn, strayed>>

(* The rest of a token, of which an earlier command has read the beginning *)
(* and nobody knows the bytes, is no reply at all or looks like one.       *)
ReadsRest(t) ==
  /\ Has(t)
  /\ at # "none" /\ cut
  /\ \E code \in {"DATAERR", "OK", "FAIL"} : Ends(code)
  /\ \E n \in 1 .. Len(wire) : Drops(n)
  /\ UNCHANGED <<poolVars, dead, wentOn, strayed>>

(* Nothing has come in time (TIMEOUT), or the buffer is full (PARAMERR).   *)
TimesOut(t) ==
  /\ Has(t)
  /\ at # "none"
  /\ Ends("TIMEOUT")
  /\ cut' \in {cut, wire # <<>>}
  /\ UNCHANGED <<poolVars, wire, dead, wentOn, strayed>>

(* parse() says that the array is complete.  Astray it may find it so      *)
(* anywhere; and between two elements parseNode() looks behind the         *)
(* terminating zero, where an earlier reply may have left a negative       *)
(* number, and counts an element.                                          *)
Guesses(t) ==
  /\ Has(t)
  /\ \/ at = "array" /\ Drops(0) /\ ~cut'
     \/ at = "astray" /\ \E n \in 0 .. Len(wire) : Drops(n)
  /\ Ends("OK")
  /\ strayed' = TRUE
  /\ UNCHANGED <<poolVars, dead, wentOn>>

(* A new stream, or, closed, the end of one. *)
NewStream(closed) == wire' = <<>> /\ cut' = FALSE /\ dead' = closed

(* execute() ends with NETERR or NETCLOSE: send fails, and the server      *)
(* makes nothing of half a command, or the connection is closed meanwhile. *)
ExecuteFails(t) ==
  /\ Has(t)
  /\ NewStream(TRUE)
  /\ Ends("NETERR")
  /\ UNCHANGED <<poolVars, wentOn, strayed>>

(* close(): from now on getErrorCode() is FAIL. *)
Close(t) ==
  /\ Idle(t)
  /\ NewStream(TRUE)
  /\ failed' = failed \cup {Watched}
  /\ UNCHANGED <<poolVars, command, ignored, wentOn, strayed, misread>>

(* reconnect() has a new stream.  code stays as it was, unless there is a  *)
(* password and auth() sets it. *)
Reconnect(t) ==
  /\ Idle(t)
  /\ NewStream(FALSE)
  /\ failed' \in {failed, failed \ {Watched}, failed \cup {Watched}}
  /\ ignored' = FALSE
  /\ UNCHANGED <<poolVars, command, wentOn, strayed, misread>>

(* auth() loses its reply, or a part of it. *)
ReconnectLoses(t) ==
  /\ Idle(t)
  /\ wire' = <<"+">> /\ cut' \in BOOLEAN /\ dead' = FALSE
  /\ failed' = failed \cup {Watched}
  /\ ignored' = TRUE
  /\ UNCHANGED <<poolVars, command, wentOn, strayed, misread>>

(* connect() fails: the socket stays closed. *)
ReconnectFails(t) ==
  /\ Idle(t)
  /\ NewStream(TRUE)
  /\ failed' = failed \cup {Watched}
  /\ ignored' = FALSE
  /\ UNCHANGED <<poolVars, command, wentOn, strayed, misread>>

(* The next user starts afresh. *)
LetGo(t) ==
  /\ Has(t) => at = "none"
  /\ Release(t)
  /\ ignored' = (ignored /\ held[t] # Watched)
  /\ UNCHANGED <<stream, command, wentOn, strayed, misread>>

(* execute(), to its end. *)
Execute(t) ==
  Send(t) \/ Read(t) \/ Answered(t) \/ ReadsRest(t) \/ TimesOut(t) \/ Guesses(t) \/ ExecuteFails(t)

User(t) ==
  \/ Execute(t) \/ Close(t)
  \/ Reconnect(t) \/ ReconnectLoses(t) \/ ReconnectFails(t)
  \/ LetGo(t)

RedisNext ==
  /\ ~stray
  /\ \/ \E t \in Threads : User(t)
     \/ /\ \/ \E t \in Threads : Get(t) \/ (Use(t) /\ held[t] # Watched)
           \/ Age
           \/ Configure
        /\ UNCHANGED redisVars

RedisSpec == RedisInit /\ [][RedisNext]_allVars

----------------------------------------------------------------------------
(***************************************************************************)
(* A command that is answered has its own answer, unless a user of the     *)
(* connection went on using it after a command of his had lost its reply,  *)
(* or parse() has met an array with something else than strings in it (the *)
(* last may be nil or an array again) or looked behind its end.  A late    *)
(* reply does reach a connection, but grasp's look at the error code takes *)
(* it out of the pool before anybody else is lent it.                      *)
(***************************************************************************)
OwnAnswer == misread => wentOn \/ strayed

=============================================================================
