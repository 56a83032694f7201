------------------------------ MODULE TcpClient ------------------------------
(***************************************************************************)
(* The TCP client of proj1: the loop of run_tcp (tcp.c) that waits in      *)
(* select for a line of the user or for the server, locks the input while  *)
(* a REPLY is outstanding, and leaves with BYE; and its user.              *)
(***************************************************************************)
EXTENDS TcpStream

CONSTANTS Lines,         \* the kinds of lines the user of a run types
          MaxLines,      \* how many
          Pasting,       \* several lines may come at once
          Interruptible  \* the user may press C-c

LineKinds == {"auth", "join", "msg", "bye", "byewords", "badbye", "local", "blank", "empty"}

ASSUME TcpClientAssumption ==
  /\ Lines \subseteq LineKinds /\ MaxLines \in Nat \ {0}
  /\ {Pasting, Interruptible} \subseteq BOOLEAN

VARIABLES
  pc, ready,         \* where in the loop; the socket is in the set select returned
  connection,        \* FALSE once C-c was pressed
  TCPpresent_state,
  gotReply,          \* FALSE: the input is locked
  waiting, buffered, \* lines select sees; lines that fgets has read ahead
  eof, typed,        \* the end of the input; how many lines there were
  asked              \* history: how many requests (AUTH, JOIN) were sent

inputVars  == <<waiting, buffered, eof, typed>>
clientVars == <<pc, ready, connection, TCPpresent_state, gotReply, inputVars, asked>>

Over == pc \in {"done", "dead"}

\* The n-th request carries n; other messages carry 0.
ToServer == [op : {"AUTH", "JOIN", "MSG", "BYE", "ERR", "UNKNOWN"}, n : Nat]
Message(op) == [op |-> op, n |-> 0]

ClientTypeOK ==
  /\ pc \in {"check", "select", "stdin", "socket", "done", "dead"}
  /\ ready \in BOOLEAN /\ connection \in BOOLEAN /\ gotReply \in BOOLEAN /\ eof \in BOOLEAN
  /\ TCPpresent_state \in {"START", "AUTH", "AUTH_failed", "OPEN", "END"}
  /\ waiting \in 0 .. MaxLines /\ typed \in 0 .. MaxLines
  /\ buffered \in 0 .. MaxLines - 1
  /\ asked \in 0 .. MaxLines
  /\ toServer \in Seq(ToServer)

ClientInit ==
  /\ pc = "check" /\ ready = FALSE /\ connection = TRUE
  /\ TCPpresent_state = "START" /\ gotReply = TRUE
  /\ waiting = 0 /\ buffered = 0 /\ eof = FALSE /\ typed = 0 /\ asked = 0

-----------------------------------------------------------------------------
(* The loop.                                                               *)

Out(s) == toServer' = toServer \o s
Closes == closed' = closed \cup {"client"}

Check ==
  /\ pc = "check" /\ TCPpresent_state # "END" /\ connection
  /\ pc' = "select"
  /\ UNCHANGED <<ready, connection, TCPpresent_state, gotReply, inputVars, asked, streamVars>>

\* The loop's condition fails: the socket is closed, without BYE.
Leave ==
  /\ pc = "check" /\ (TCPpresent_state = "END" \/ ~connection)
  /\ pc' = "done" /\ Closes
  /\ UNCHANGED <<ready, connection, TCPpresent_state, gotReply, inputVars, asked,
                 toServer, toClient, merged>>

\* select sees what the terminal has, not what fgets has read ahead; what the
\* server has sent may still be on its way.
Select(sock) ==
  /\ pc = "select"
  /\ sock => toClient # << >> \/ "server" \in closed
  /\ sock \/ waiting > 0 \/ eof
  /\ ready' = sock
  /\ pc' = IF (waiting > 0 \/ eof) /\ gotReply THEN "stdin" ELSE IF sock THEN "socket" ELSE "check"
  /\ UNCHANGED <<connection, TCPpresent_state, gotReply, inputVars, asked, streamVars>>

\* C-c sets a flag.
close_tcp ==
  /\ Interruptible /\ connection /\ ~Over
  /\ connection' = FALSE
  /\ UNCHANGED <<pc, ready, TCPpresent_state, gotReply, inputVars, asked, streamVars>>

\* C-c in select: the call is interrupted, BYE is sent, the loop left.
Interrupted ==
  /\ Interruptible /\ pc = "select"
  /\ connection' = FALSE
  /\ pc' = "done" /\ Closes /\ Out(<<Message("BYE")>>)
  /\ UNCHANGED <<ready, TCPpresent_state, gotReply, inputVars, asked, toClient, merged>>

-----------------------------------------------------------------------------
(* A line of the user.                                                     *)

\* Variant: the line that is returned stays in the buffer.
Fetch_keeps_line ==
  \/ buffered > 0 /\ UNCHANGED <<buffered, waiting>>
  \/ buffered = 0 /\ waiting > 0 /\ waiting' = 0 /\ buffered' = waiting

\* fgets returns a line it has read ahead, or reads: a terminal hands over one
\* line, a pipe all that are there.
Fetch ==
  \/ buffered > 0 /\ buffered' = buffered - 1 /\ UNCHANGED waiting
  \/ buffered = 0 /\ waiting > 0 /\ waiting' = waiting - 1 /\ UNCHANGED buffered
  \/ buffered = 0 /\ waiting > 0 /\ waiting' = 0 /\ buffered' = waiting - 1

Reads(kind) ==
  /\ pc = "stdin" /\ kind \in Lines /\ Fetch
  /\ pc' = IF ready THEN "socket" ELSE "check"
  /\ UNCHANGED <<ready, connection, eof, typed, toClient, closed, merged>>

Asks(op) ==
  /\ asked' = asked + 1 /\ gotReply' = FALSE
  /\ Out(<<[op |-> op, n |-> asked + 1]>>)

\* Variant: the state is not looked at.
ReadAuth_always ==
  /\ Reads("auth")
  /\ TCPpresent_state' = "AUTH"
  /\ Asks("AUTH")

ReadAuth ==
  /\ Reads("auth") /\ TCPpresent_state \in {"START", "AUTH_failed"}
  /\ TCPpresent_state' = "AUTH"
  /\ Asks("AUTH")

ReadJoin ==
  /\ Reads("join") /\ TCPpresent_state = "OPEN"
  /\ Asks("JOIN") /\ UNCHANGED TCPpresent_state

\* A chat message, or a command that check_commandTCP should not know but does
\* (it compares a char that no 0 follows).
ReadMsg ==
  /\ Reads("msg") /\ TCPpresent_state = "OPEN"
  /\ Out(<<Message("MSG")>>) /\ UNCHANGED <<TCPpresent_state, gotReply, asked>>

\* BYE alone; followed by words, which the server does not know; followed by a
\* word that is refused, so that nothing is sent.
ReadBye(kind, out) ==
  /\ Reads(kind) /\ TCPpresent_state # "START"
  /\ \/ kind = "bye" /\ out = <<Message("BYE")>>
     \/ kind = "byewords" /\ out = <<Message("UNKNOWN")>>
     \/ kind = "badbye" /\ out = << >>
  /\ TCPpresent_state' = "END"
  /\ Out(out) /\ UNCHANGED <<gotReply, asked>>

ReadRefused(kind) ==
  /\ Reads(kind)
  /\ \/ kind = "auth" /\ TCPpresent_state \notin {"START", "AUTH_failed"}
     \/ kind \in {"join", "msg"} /\ TCPpresent_state # "OPEN"
     \/ kind \in {"bye", "byewords", "badbye"} /\ TCPpresent_state = "START"
  /\ UNCHANGED <<TCPpresent_state, gotReply, asked, toServer>>

\* /help, /rename, wrong parameters.
ReadLocal ==
  /\ Reads("local")
  /\ UNCHANGED <<TCPpresent_state, gotReply, asked, toServer>>

\* The end of the input or an empty line: the loop is left, without BYE.  A line
\* of nothing but spaces is a null pointer to parse_commandTCP.
ReadEnd ==
  /\ pc = "stdin"
  /\ \/ eof /\ waiting = 0 /\ buffered = 0 /\ pc' = "done" /\ UNCHANGED <<waiting, buffered>>
     \/ "empty" \in Lines /\ Fetch /\ pc' = "done"
     \/ "blank" \in Lines /\ Fetch /\ pc' = "dead"
  /\ Closes
  /\ UNCHANGED <<ready, connection, TCPpresent_state, gotReply, eof, typed, asked,
                 toServer, toClient, merged>>

-----------------------------------------------------------------------------
(* What the server sent.  Only the first of several messages is looked at; *)
(* BYE is known only when nothing follows it.                              *)

Receives(n) ==
  /\ pc = "socket" /\ n \in Batches(toClient)
  /\ toClient' = Rest(toClient, n) /\ Noted(n)
  /\ pc' = "check" /\ ready' = FALSE
  /\ UNCHANGED <<connection, inputVars, asked, closed>>

GotReply(n) ==
  /\ Receives(n) /\ Head(toClient).op = "REPLY"
  /\ gotReply' = TRUE
  /\ TCPpresent_state' = IF TCPpresent_state # "AUTH" THEN TCPpresent_state
                         ELSE IF Head(toClient).ok THEN "OPEN" ELSE "AUTH_failed"
  /\ UNCHANGED toServer

\* Variant: any message unlocks the input.
GotMsg_unlocks(n) ==
  /\ Receives(n) /\ Head(toClient).op = "MSG"
  /\ gotReply' = TRUE
  /\ UNCHANGED <<TCPpresent_state, toServer>>

GotMsg(n) ==
  /\ Receives(n) /\ Head(toClient).op = "MSG"
  /\ UNCHANGED <<TCPpresent_state, gotReply, toServer>>

GotErr(n) ==
  /\ Receives(n) /\ Head(toClient).op = "ERR"
  /\ TCPpresent_state' = "END" /\ Out(<<Message("BYE")>>)
  /\ UNCHANGED gotReply

GotBye(n) ==
  /\ Receives(n) /\ Head(toClient).op = "BYE" /\ Alone(n)
  /\ TCPpresent_state' = "END"
  /\ UNCHANGED <<gotReply, toServer>>

GotUnknown(n) ==
  /\ Receives(n) /\ Head(toClient).op = "BYE" /\ ~Alone(n)
  /\ TCPpresent_state' = "END" /\ Out(<<Message("ERR"), Message("BYE")>>)
  /\ UNCHANGED gotReply

\* recv fails on a connection that was reset; on one that was closed it returns
\* 0 and strtok a null pointer that is used; a send to it raises SIGPIPE.
Broken ==
  /\ \/ pc = "socket" /\ toClient = << >> /\ pc' \in {"done", "dead"}
     \/ pc \in {"stdin", "socket"} /\ pc' = "dead"
  /\ "server" \in closed
  /\ Closes
  /\ UNCHANGED <<ready, connection, TCPpresent_state, gotReply, inputVars, asked,
                 toServer, toClient, merged>>

-----------------------------------------------------------------------------
(* The user.                                                               *)

Type(k) ==
  /\ ~Over /\ ~eof /\ typed + k <= MaxLines
  /\ typed' = typed + k /\ waiting' = waiting + k
  /\ UNCHANGED <<pc, ready, connection, TCPpresent_state, gotReply, buffered, eof, asked,
                 streamVars>>

EndInput ==
  /\ ~Over /\ ~eof /\ "empty" \in Lines
  /\ eof' = TRUE
  /\ UNCHANGED <<pc, ready, connection, TCPpresent_state, gotReply, waiting, buffered,
                 typed, asked, streamVars>>

ReadLine ==
  \/ ReadAuth \/ ReadJoin \/ ReadMsg \/ ReadLocal \/ ReadEnd
  \/ \E kind \in Lines : \/ ReadRefused(kind)
                         \/ \E out \in {<< >>, <<Message("BYE")>>, <<Message("UNKNOWN")>>} :
                              ReadBye(kind, out)

ReadSocket ==
  \E n \in 1 .. Len(toClient) :
    GotReply(n) \/ GotMsg(n) \/ GotErr(n) \/ GotBye(n) \/ GotUnknown(n)

Loop == \/ Check \/ Leave \/ (\E sock \in BOOLEAN : Select(sock))
        \/ ReadLine \/ ReadSocket \/ Broken

User == \/ close_tcp \/ Interrupted \/ EndInput
        \/ \E k \in 1 .. IF Pasting THEN 2 ELSE 1 : Type(k)
=============================================================================
