------------------------------ MODULE UdpClient ------------------------------
(***************************************************************************)
(* The UDP client of proj1: the loop of run_udp (udp.c) that waits in      *)
(* select for a line of the user or a datagram, keeps the user's messages  *)
(* stop-and-wait, resends them, and leaves with BYE; with the user, the    *)
(* network and a server that keeps to IPK24-CHAT around it.                *)
(*                                                                         *)
(* One turn of the loop is select, then the line, then the datagram, then  *)
(* the retransmission timer.  C-c may come before every one of these.      *)
(***************************************************************************)
EXTENDS Integers

CONSTANTS Retry,          \* params->retry
          Byte, Word,       \* how many values a char and a uint16_t have (256, 65536)
          Lines,            \* the kinds of lines the user of a run types
          MaxLines,         \* how many of them
          Says,             \* what the server of a run says unasked
          MaxSaid,          \* how many times
          Lossy,            \* datagrams may be lost
          Duplicating,      \* datagrams may arrive again
          Ordered,          \* the server sends when its last datagram has arrived
          Slow,             \* the retransmission timer may expire
          Resends,          \* the server resends a REPLY until it is confirmed
          Interruptible     \* the user may press C-c

LineKinds  == {"auth", "join", "msg", "bye", "badbye", "local"}
ServerSays == {"MSG", "ERR", "BYE", "INVALID"}

ASSUME ClientAssumption ==
  /\ Retry \in Nat
  /\ Byte \in Nat /\ Word \in Nat /\ 2 <= Byte /\ Byte < Word
  /\ Lines \subseteq LineKinds /\ MaxLines \in Nat
  /\ Says \subseteq ServerSays /\ MaxSaid \in Nat
  /\ Lossy \in BOOLEAN /\ Duplicating \in BOOLEAN /\ Ordered \in BOOLEAN
  /\ Slow \in BOOLEAN /\ Resends \in BOOLEAN /\ Interruptible \in BOOLEAN

\* Message ids.  The client writes the low byte of a uint16_t and leaves the
\* high byte 0; it reads the low byte back as a signed char.
Ids     == 0 .. Word - 1
WireIds == 0 .. Byte - 1
Wire(id)    == id % Byte
Signed(b)   == IF 2 * b >= Byte THEN Word - Byte + b ELSE b

\* Datagrams.  "of" is the message a datagram of the client stands for: the
\* value of messageID it was set up with, -1 if it is none of the user's.
Sent == [op : {"AUTH", "JOIN", "MSG", "BYE", "ERR", "CONFIRM"}, id : Nat, of : Ids \cup {-1}]
Come == [op : {"CONFIRM", "REPLY"} \cup ServerSays, id : Nat, ref : WireIds, ok : BOOLEAN]

\* The BYE of setup_message is cut before its id.  A CONFIRM has the low byte of the
\* server's id alone.
UserMsg(op, id) == [op |-> op, id |-> IF op = "BYE" THEN 0 ELSE Wire(id), of |-> id]
send_bye(id)    == [op |-> "BYE", id |-> Wire(id), of |-> -1]
send_error(id)  == [op |-> "ERR", id |-> Wire(id), of |-> -1]
send_confirm(m) == [op |-> "CONFIRM", id |-> Wire(m.id), of |-> -1]
Confirm(id)     == [op |-> "CONFIRM", id |-> id, ref |-> 0, ok |-> FALSE]

VARIABLES
  pc,                \* where in the loop the client is
  ready,             \* the socket is in the set select returned
  connection,        \* FALSE once C-c was pressed
  present_state,
  messageID,
  setup_msg,         \* the last message set up: its opcode and id
  sent_opcode,       \* type of the last message sent; before that, whatever the stack held
  messageConfirmed, needReply,
  retryCounter,
  expired,           \* the timeout of the last message is over
  conf,              \* conf->replyID, the id of the last CONFIRM; uninitialised at first
  named,             \* auth->display_name is set
  replied,           \* history: a REPLY to the last message set up was accepted
  stdin, typed,      \* the user's input, and how many lines there were
  toServer, toClient, \* datagrams on their way
  received,          \* the user's messages the server has
  owed, seen,        \* its requests the server has to answer; their ids
  pending,           \* the REPLYs not confirmed yet
  accepted,          \* the server has accepted an AUTH
  nextID, said       \* the server's message ids, and what it said unasked

loopVars   == <<pc, ready, connection>>
sendVars   == <<messageID, setup_msg, sent_opcode, expired, replied>>
lockVars   == <<messageConfirmed, needReply, conf>>
userVars   == <<stdin, typed>>
serverVars == <<received, owed, seen, pending, accepted, nextID, said>>
vars == <<loopVars, present_state, sendVars, lockVars, retryCounter, named,
          userVars, toServer, toClient, serverVars>>

States == {"START", "AUTH", "AUTH_failed", "OPEN", "ERROR", "END"}

TypeOK ==
  /\ pc \in {"check", "select", "stdin", "socket", "timer", "done", "dead"}
  /\ ready \in BOOLEAN /\ connection \in BOOLEAN
  /\ present_state \in States
  /\ messageID \in Ids
  /\ setup_msg \in [op : {"NONE", "AUTH", "JOIN", "MSG", "BYE"}, messageID : Ids]
  /\ sent_opcode \in {"NONE", "AUTH", "JOIN", "MSG", "BYE"}
  /\ messageConfirmed \in BOOLEAN /\ needReply \in BOOLEAN
  /\ retryCounter \in 0 .. Retry
  /\ expired \in BOOLEAN /\ named \in BOOLEAN /\ replied \in BOOLEAN
  /\ conf \in Ids
  /\ stdin \in {"empty", "line", "eof"} /\ typed \in 0 .. MaxLines
  /\ toServer \subseteq Sent /\ toClient \subseteq Come
  /\ received \subseteq Ids
  /\ owed \subseteq [op : {"AUTH", "JOIN"}, id : WireIds] /\ seen \subseteq WireIds
  /\ pending \subseteq Come
  /\ accepted \in BOOLEAN
  /\ nextID \in Nat /\ said \in 0 .. MaxSaid

Init ==
  /\ pc = "check" /\ ready = FALSE /\ connection = TRUE
  /\ present_state = "START"
  /\ messageID = 0 /\ setup_msg = [op |-> "NONE", messageID |-> 0]
  /\ sent_opcode \in {"NONE", "AUTH", "JOIN"}
  /\ messageConfirmed = TRUE /\ needReply = FALSE
  /\ retryCounter = 0 /\ expired = FALSE
  /\ conf \in Ids
  /\ named = FALSE /\ replied = FALSE
  /\ stdin = "empty" /\ typed = 0
  /\ toServer = {} /\ toClient = {}
  /\ received = {} /\ owed = {} /\ seen = {} /\ pending = {}
  /\ accepted = FALSE /\ nextID = 0 /\ said = 0

-----------------------------------------------------------------------------
(* The network: a datagram may be lost when it is sent and may stay on its *)
(* way when it is received.  They overtake each other.                     *)

Emit(S) == \E lost \in IF Lossy THEN SUBSET S ELSE {{}} : toServer' = toServer \cup (S \ lost)
Deliver(S) == \E lost \in IF Lossy THEN SUBSET S ELSE {{}} : toClient' = toClient \cup (S \ lost)
Taken(way, m) == {way \ {m}} \cup IF Duplicating THEN {way} ELSE {}

-----------------------------------------------------------------------------
(* The loop.                                                               *)

Unlocked == messageConfirmed /\ ~needReply

\* The loop's condition holds.
Check ==
  /\ pc = "check" /\ present_state # "END" /\ connection
  /\ pc' = "select"
  /\ UNCHANGED <<ready, connection, present_state, sendVars, lockVars, retryCounter,
                 named, userVars, toServer, toClient, serverVars>>

\* The loop is over: after C-c with a BYE.
Close ==
  /\ pc = "check" /\ (present_state = "END" \/ ~connection)
  /\ IF connection THEN UNCHANGED <<messageID, toServer>>
     ELSE messageID' = (messageID + 1) % Word /\ Emit({send_bye(messageID')})
  /\ pc' = "done"
  /\ UNCHANGED <<ready, connection, present_state, setup_msg, sent_opcode, expired, replied,
                 lockVars, retryCounter, named, userVars, toClient, serverVars>>

\* select has no timeout: it returns when there is input or a datagram has come.
Select(sock) ==
  /\ pc = "select"
  /\ sock => toClient # {}
  /\ sock \/ stdin # "empty"
  /\ ready' = sock
  /\ pc' = IF stdin # "empty" /\ Unlocked THEN "stdin"
           ELSE IF sock THEN "socket" ELSE "timer"
  /\ UNCHANGED <<connection, present_state, sendVars, lockVars, retryCounter, named,
                 userVars, toServer, toClient, serverVars>>

\* C-c.  In select, the call is interrupted and the loop ends; just before it,
\* or anywhere else, only the flag is set.
close_udp ==
  /\ Interruptible /\ connection /\ pc \notin {"done", "dead"}
  /\ connection' = FALSE
  /\ \/ UNCHANGED <<pc, present_state>>
     \/ pc = "select" /\ pc' = "check" /\ present_state' = "END"
  /\ UNCHANGED <<ready, sendVars, lockVars, retryCounter, named, userVars,
                 toServer, toClient, serverVars>>

-----------------------------------------------------------------------------
(* A line of the user.                                                     *)

Reads(kind) ==
  /\ pc = "stdin" /\ stdin = "line" /\ kind \in Lines
  /\ stdin' = "empty"
  /\ pc' = IF ready THEN "socket" ELSE "timer"
  /\ UNCHANGED <<ready, connection, typed, retryCounter, toClient, serverVars>>

\* setup_message and sender.  The lock is set, the timer started.
SetUp(op) ==
  /\ setup_msg' = [op |-> op, messageID |-> messageID]
  /\ messageID' = (messageID + 1) % Word
  /\ sent_opcode' = op
  /\ messageConfirmed' = FALSE
  /\ expired' = FALSE
  /\ replied' = FALSE
  /\ Emit({UserMsg(op, messageID)})
  /\ UNCHANGED <<needReply, conf>>

\* The line is not sent.
NotSent == sent_opcode' = "MSG"
           /\ UNCHANGED <<messageID, setup_msg, expired, replied, lockVars, toServer>>

ReadAuth ==
  /\ Reads("auth") /\ present_state \in {"START", "AUTH_failed"}
  /\ present_state' = "AUTH" /\ named' = TRUE
  /\ SetUp("AUTH")

ReadJoin ==
  /\ Reads("join") /\ present_state = "OPEN"
  /\ SetUp("JOIN")
  /\ UNCHANGED <<present_state, named>>

ReadMsg ==
  /\ Reads("msg") /\ present_state = "OPEN"
  /\ SetUp("MSG")
  /\ UNCHANGED <<present_state, named>>

ReadBye ==
  /\ Reads("bye") /\ present_state # "START"
  /\ present_state' = "END"
  /\ SetUp("BYE")
  /\ UNCHANGED named

\* BYE followed by a word with a character that is not allowed.
ReadBadBye ==
  /\ Reads("badbye") /\ present_state # "START"
  /\ present_state' = "END"
  /\ NotSent /\ UNCHANGED named

\* A command in the wrong state.
ReadRefused(kind) ==
  /\ Reads(kind)
  /\ \/ kind = "auth" /\ present_state \notin {"START", "AUTH_failed"}
     \/ kind \in {"join", "msg"} /\ present_state # "OPEN"
     \/ kind \in {"bye", "badbye"} /\ present_state = "START"
  /\ NotSent /\ UNCHANGED <<present_state, named>>

\* /help, /rename, an unknown command, wrong parameters (which may have set the
\* display name before they were refused).
ReadLocal ==
  /\ Reads("local")
  /\ named' \in {named, TRUE}
  /\ NotSent /\ UNCHANGED present_state

\* A line that starts with a space.
ReadBlank ==
  /\ Reads("local")
  /\ UNCHANGED <<present_state, named, sendVars, lockVars, toServer>>

\* The end of the input, or an empty line.
ReadEof ==
  /\ pc = "stdin"
  /\ \/ stdin = "eof" /\ UNCHANGED stdin
     \/ stdin = "line" /\ stdin' = "empty" /\ "local" \in Lines
  /\ present_state' = "ERROR"
  /\ pc' = IF ready THEN "socket" ELSE "timer"
  /\ UNCHANGED <<ready, connection, sendVars, lockVars, retryCounter, named, typed,
                 toServer, toClient, serverVars>>

-----------------------------------------------------------------------------
(* A datagram.                                                             *)

\* Variant: AUTH is forgotten.
MustWait_for_join == sent_opcode = "JOIN"
\* Every datagram that comes while the last message sent is AUTH or JOIN makes
\* the client wait for a REPLY.
MustWait == sent_opcode \in {"AUTH", "JOIN"}

\* A datagram m was received.  Once the retransmissions are used up, any one
\* ends the program; in state ERROR, BYE is sent and the program ends.
Receives(m) ==
  /\ pc = "socket" /\ m \in toClient /\ toClient' \in Taken(toClient, m)
  /\ pc' = "timer" /\ ready' = FALSE
  /\ UNCHANGED <<connection, setup_msg, sent_opcode, expired, retryCounter, named,
                 userVars, serverVars>>

Ends(st, out) ==
  LET worn == retryCounter = Retry
  IN  /\ present_state' = IF worn \/ st = "ERROR" THEN "END" ELSE st
      /\ Emit(out \cup IF ~worn /\ st = "ERROR" THEN {send_bye(messageID')} ELSE {})

\* Variant: any CONFIRM is taken for that of the last message.
GotConfirm_of_anything(m) ==
  /\ Receives(m) /\ m.op = "CONFIRM"
  /\ conf' = Signed(m.id)
  /\ messageConfirmed' = TRUE
  /\ needReply' = (needReply \/ MustWait)
  /\ UNCHANGED <<messageID, replied>>
  /\ Ends(present_state, {})

GotConfirm(m) ==
  /\ Receives(m) /\ m.op = "CONFIRM"
  /\ conf' = Signed(m.id)
  /\ messageConfirmed' = (messageConfirmed \/ conf' = setup_msg.messageID)
  /\ needReply' = (needReply \/ MustWait)
  /\ UNCHANGED <<messageID, replied>>
  /\ Ends(present_state, {})

\* Variant: the result of a REPLY is not looked at.
GotReply_opens(m) ==
  /\ Receives(m) /\ m.op = "REPLY" /\ Signed(m.ref) = conf
  /\ needReply' = FALSE
  /\ replied' = (replied \/ m.ref = Wire(setup_msg.messageID))
  /\ UNCHANGED <<messageID, messageConfirmed, conf>>
  /\ Ends("OPEN", {send_confirm(m)})

\* Variant: the lock is not taken back.
GotReply_keeps_lock(m) ==
  /\ Receives(m) /\ m.op = "REPLY" /\ Signed(m.ref) = conf
  /\ needReply' = (needReply \/ MustWait)
  /\ replied' = (replied \/ m.ref = Wire(setup_msg.messageID))
  /\ UNCHANGED <<messageID, messageConfirmed, conf>>
  /\ Ends(IF m.ok THEN "OPEN"
          ELSE IF present_state = "AUTH" THEN "AUTH_failed" ELSE present_state,
          {send_confirm(m)})

\* A REPLY to the message last confirmed.
GotReply(m) ==
  /\ Receives(m) /\ m.op = "REPLY" /\ Signed(m.ref) = conf
  /\ needReply' = FALSE
  /\ replied' = (replied \/ m.ref = Wire(setup_msg.messageID))
  /\ UNCHANGED <<messageID, messageConfirmed, conf>>
  /\ Ends(IF m.ok THEN "OPEN"
          ELSE IF present_state = "AUTH" THEN "AUTH_failed" ELSE present_state,
          {send_confirm(m)})

\* Any other REPLY is dropped without a CONFIRM.
DropReply(m) ==
  /\ Receives(m) /\ m.op = "REPLY" /\ Signed(m.ref) # conf
  /\ needReply' = (needReply \/ MustWait)
  /\ UNCHANGED <<messageID, replied, messageConfirmed, conf>>
  /\ Ends(present_state, {})

GotMsg(m) ==
  /\ Receives(m) /\ m.op = "MSG"
  /\ needReply' = (needReply \/ MustWait)
  /\ UNCHANGED <<messageID, replied, messageConfirmed, conf>>
  /\ Ends(present_state, {send_confirm(m)})

GotErr(m) ==
  /\ Receives(m) /\ m.op = "ERR"
  /\ needReply' = (needReply \/ MustWait)
  /\ UNCHANGED <<messageID, replied, messageConfirmed, conf>>
  /\ Ends("ERROR", {send_confirm(m)})

\* The BYE of the server is not confirmed.
GotBye(m) ==
  /\ Receives(m) /\ m.op = "BYE"
  /\ needReply' = (needReply \/ MustWait)
  /\ UNCHANGED <<messageID, replied, messageConfirmed, conf>>
  /\ Ends("END", {})

GotInvalid(m) ==
  /\ Receives(m) /\ m.op = "INVALID"
  /\ needReply' = (needReply \/ MustWait)
  /\ messageID' = (messageID + 1) % Word
  /\ UNCHANGED <<replied, messageConfirmed, conf>>
  /\ Ends("ERROR", {send_error(messageID)})

\* send_error reads a display name that was never set.
Dies(m) ==
  /\ pc = "socket" /\ m \in toClient /\ m.op = "INVALID" /\ ~named
  /\ pc' = "dead"
  /\ UNCHANGED <<ready, connection, present_state, sendVars, lockVars, retryCounter,
                 named, userVars, toServer, toClient, serverVars>>

-----------------------------------------------------------------------------
(* The timer.  Its start is not moved by a retransmission.                 *)

\* Variant: one retransmission too many.
CanResend_once_more == ~messageConfirmed /\ retryCounter <= Retry
CanResend == ~messageConfirmed /\ retryCounter < Retry

\* Variant: a retransmission is set up anew.
Resend_set_up_again ==
  /\ pc = "timer" /\ CanResend /\ (expired \/ Slow)
  /\ expired' = TRUE
  /\ retryCounter' = retryCounter + 1
  /\ setup_msg' = [setup_msg EXCEPT !.messageID = messageID]
  /\ messageID' = (messageID + 1) % Word
  /\ Emit({UserMsg(setup_msg.op, messageID)})
  /\ pc' = "check"
  /\ UNCHANGED <<ready, connection, present_state, sent_opcode, replied,
                 lockVars, named, userVars, toClient, serverVars>>

\* The datagram without its last byte, the 0 that ends its text: whoever reads it
\* into a cleared buffer reads the same.
Resend ==
  /\ pc = "timer" /\ CanResend /\ (expired \/ Slow)
  /\ expired' = TRUE
  /\ retryCounter' = retryCounter + 1
  /\ Emit({UserMsg(setup_msg.op, setup_msg.messageID)})
  /\ pc' = "check"
  /\ UNCHANGED <<ready, connection, present_state, messageID, setup_msg, sent_opcode, replied,
                 lockVars, named, userVars, toClient, serverVars>>

NoResend ==
  /\ pc = "timer" /\ ~(CanResend /\ expired)
  /\ pc' = "check"
  /\ UNCHANGED <<ready, connection, present_state, sendVars, lockVars, retryCounter, named,
                 userVars, toServer, toClient, serverVars>>

-----------------------------------------------------------------------------
(* The user, and the server at the other end.                              *)

Type ==
  /\ pc \notin {"done", "dead"} /\ stdin = "empty" /\ typed < MaxLines
  /\ stdin' = "line" /\ typed' = typed + 1
  /\ UNCHANGED <<loopVars, present_state, sendVars, lockVars, retryCounter, named,
                 toServer, toClient, serverVars>>

EndInput ==
  /\ pc \notin {"done", "dead"} /\ stdin = "empty" /\ "local" \in Lines
  /\ stdin' = "eof"
  /\ UNCHANGED <<loopVars, present_state, sendVars, lockVars, retryCounter, named, typed,
                 toServer, toClient, serverVars>>

MaySend == ~Ordered \/ toClient = {}
ServerStep == UNCHANGED <<loopVars, present_state, sendVars, lockVars, retryCounter, named,
                          userVars>>

\* A message of the client is confirmed, each time it comes; a request is
\* noted once.
ServerGets(m) ==
  /\ m \in toServer /\ m.op # "CONFIRM" /\ MaySend
  /\ toServer' \in Taken(toServer, m)
  /\ Deliver({Confirm(m.id)})
  /\ received' = received \cup ({m.of} \ {-1})
  /\ LET request == m.op \in {"AUTH", "JOIN"} /\ m.id \notin seen
     IN  /\ seen' = IF request THEN seen \cup {m.id} ELSE seen
         /\ owed' = IF request THEN owed \cup {[op |-> m.op, id |-> m.id]} ELSE owed
  /\ ServerStep /\ UNCHANGED <<pending, accepted, nextID, said>>

\* A CONFIRM that comes again would change nothing; nor does one with the low byte
\* of a longer id.
ServerConfirmed(m) ==
  /\ m \in toServer /\ m.op = "CONFIRM"
  /\ toServer' = toServer \ {m}
  /\ pending' = {r \in pending : r.id # m.id}
  /\ ServerStep /\ UNCHANGED <<toClient, received, owed, seen, accepted, nextID, said>>

ServerReplies(r, ok) ==
  /\ r \in owed /\ MaySend
  /\ LET m == [op |-> "REPLY", id |-> nextID, ref |-> r.id, ok |-> ok]
     IN  Deliver({m}) /\ pending' = pending \cup {m}
  /\ owed' = owed \ {r}
  /\ accepted' = (accepted \/ (ok /\ r.op = "AUTH"))
  /\ nextID' = nextID + 1
  /\ ServerStep /\ UNCHANGED <<toServer, received, seen, said>>

ServerResends(m) ==
  /\ Resends /\ MaySend /\ m \in pending
  /\ Deliver({m})
  /\ ServerStep /\ UNCHANGED <<toServer, serverVars>>

ServerSpeaks(op) ==
  /\ op \in Says /\ said < MaxSaid /\ received # {} /\ MaySend
  /\ Deliver({[op |-> op, id |-> nextID, ref |-> 0, ok |-> FALSE]})
  /\ nextID' = nextID + 1 /\ said' = said + 1
  /\ ServerStep /\ UNCHANGED <<toServer, received, owed, seen, pending, accepted>>

\* The program has ended, or waits in select for ever.
Quiet == pc \in {"select", "done", "dead"} /\ UNCHANGED vars

ReadLine ==
  \/ ReadAuth \/ ReadJoin \/ ReadMsg \/ ReadBye \/ ReadBadBye
  \/ \E kind \in Lines : ReadRefused(kind)
  \/ ReadLocal \/ ReadBlank \/ ReadEof

ReadDatagram ==
  \E m \in toClient :
    \/ GotConfirm(m) \/ GotReply(m) \/ DropReply(m) \/ GotMsg(m) \/ GotErr(m)
    \/ GotBye(m) \/ GotInvalid(m) \/ Dies(m)

Server ==
  \/ \E m \in toServer : ServerGets(m) \/ ServerConfirmed(m)
  \/ \E r \in owed, ok \in BOOLEAN : ServerReplies(r, ok)
  \/ \E m \in pending : ServerResends(m)
  \/ \E op \in Says : ServerSpeaks(op)

Next ==
  \/ Check \/ Close \/ (\E sock \in BOOLEAN : Select(sock))
  \/ ReadLine \/ ReadDatagram \/ Resend \/ NoResend
  \/ close_udp \/ Type \/ EndInput
  \/ Server
  \/ Quiet

Spec == Init /\ [][Next]_vars
=============================================================================
