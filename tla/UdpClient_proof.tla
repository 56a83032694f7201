--------------------------- MODULE UdpClient_proof ---------------------------
(***************************************************************************)
(* The UDP client: TypeOK, ConfirmedMeansDelivered, OpenMeansAccepted and  *)
(* InOrder hold for any number of lines and retransmissions, over a        *)
(* network that loses, repeats and reorders as it likes; ReplyIsForRequest *)
(* where no REPLY comes twice.                                             *)
(***************************************************************************)
EXTENDS UdpClientProperties, FiniteSetTheorems, TLAPS

-----------------------------------------------------------------------------
(* The inductive invariant, in three layers.                               *)

\* The client still reads datagrams, and may send messages of the user.
Attends == pc \notin {"done", "dead"} /\ (present_state = "END" => pc \notin {"timer", "check"})

\* The ids are counted without a gap; the server has all messages but the last,
\* and that one too when it is confirmed.  An id from half a byte on is never
\* confirmed (it is read back as another), so that the ids do not come round.
Counted ==
  LET last == setup_msg.messageID
  IN  /\ IF setup_msg.op = "NONE"
         THEN last = 0 /\ messageConfirmed /\ received = {}
         ELSE /\ received \subseteq 0 .. last /\ \A id \in 0 .. last - 1 : id \in received
              /\ 2 * (last - 1) < Byte
              /\ messageConfirmed => last \in received /\ 2 * last < Byte
      /\ Attends => messageID = IF setup_msg.op = "NONE" THEN 0 ELSE last + 1

\* Lines are read only when nothing is outstanding.
ReadsUnlocked == pc = "stdin" => Unlocked

\* A datagram to the server that is neither a CONFIRM nor a message of the user
\* is the ERR or the BYE the client ends with.
ToServerInv ==
  \A m \in toServer :
    IF m.op = "CONFIRM" THEN m.of = -1
    ELSE /\ m.id \in WireIds
         /\ IF m.of = -1 THEN ~Attends /\ m.op \in {"ERR", "BYE"}
            ELSE /\ setup_msg.op # "NONE" /\ m.of <= setup_msg.messageID
                 /\ m.id = IF m.op = "BYE" THEN 0 ELSE m.of

\* What is confirmed has arrived, the 0 of a BYE included; only a REPLY is resent.
ConfirmsInv ==
  /\ \A c \in toClient : c.op = "CONFIRM" => c.id \in WireIds /\ (Attends => c.id \in received)
  /\ \A m \in pending : m.op = "REPLY"

SendInv == TypeOK /\ Counted /\ ReadsUnlocked /\ ToServerInv /\ ConfirmsInv

\* Only who was accepted is in state OPEN, sends JOIN, and is told "OK".
AcceptedInv ==
  /\ present_state = "OPEN" \/ setup_msg.op = "JOIN" => accepted
  /\ \A m \in toServer : m.op = "JOIN" => accepted
  /\ \A r \in owed : r.op = "JOIN" => accepted
  /\ \A m \in toClient \cup pending : m.op = "REPLY" /\ m.ok => accepted

Request == {"AUTH", "JOIN"}
Owed(id)  == \E r \in owed : r.id = id
Comes(id) == \E m \in toClient : m.op = "REPLY" /\ m.ref = id

\* The datagrams of one message of the user are alike, and a request the server
\* has is one it has seen.
RequestsInv ==
  /\ \A m \in toServer : m.of # -1 /\ m.of = setup_msg.messageID => m.op = setup_msg.op
  /\ \A m, n \in toServer : m.of = n.of /\ m.of # -1 => m.op = n.op
  /\ \A m \in toServer : m.op \in Request /\ m.of \in received => m.id \in seen
  /\ setup_msg.op \in Request /\ setup_msg.messageID \in received => setup_msg.messageID \in seen
  /\ \A id \in seen : /\ setup_msg.op # "NONE" /\ id <= setup_msg.messageID
                      /\ id = setup_msg.messageID => setup_msg.op \in Request

\* A request is answered by one REPLY, which comes once.
RepliesInv ==
  /\ \A r \in owed : r.id \in seen /\ ~Comes(r.id)
  /\ \A r, s \in owed : r.id = s.id => r = s
  /\ \A m \in toClient : m.op = "REPLY" => m.ref \in seen
  /\ \A m, n \in toClient : m.op = "REPLY" /\ n.op = "REPLY" /\ m.ref = n.ref => m = n

\* The client goes on only when it has that REPLY, so that there is none to an
\* earlier request.
WaitsInv ==
  /\ setup_msg.op \in Request =>
       replied \/ (sent_opcode = setup_msg.op /\ (messageConfirmed => needReply))
  /\ replied => setup_msg.messageID \in seen
  /\ \A id \in WireIds :
       id < setup_msg.messageID \/ (id = setup_msg.messageID /\ replied)
         => ~Owed(id) /\ ~Comes(id)

ReplyInv == RequestsInv /\ RepliesInv /\ WaitsInv

-----------------------------------------------------------------------------
(* Ids, datagrams and the network.                                         *)

LEMMA IdTypes ==
  /\ \A id \in Ids : Wire(id) \in WireIds /\ (id + 1) % Word \in Ids
  /\ \A id \in Ids : id < Byte => Wire(id) = id
  /\ \A id \in Ids : id + 1 < Word => (id + 1) % Word = id + 1
  /\ \A b \in WireIds : Signed(b) \in Ids
  /\ WireIds \subseteq Nat /\ WireIds \subseteq Ids
<1> USE ClientAssumption DEF Ids, WireIds
<1>1. \A id \in Ids : Wire(id) \in WireIds /\ (id < Byte => Wire(id) = id)
  BY DEF Wire
<1>2. \A id \in Ids : (id + 1) % Word \in Ids /\ (id + 1 < Word => (id + 1) % Word = id + 1)
  OBVIOUS
<1>3. \A b \in WireIds : Signed(b) \in Ids
  BY DEF Signed
<1> QED  BY <1>1, <1>2, <1>3

LEMMA DatagramTypes ==
  ASSUME NEW id \in Ids
  PROVE  /\ \A op \in {"AUTH", "JOIN", "MSG", "BYE"} :
              /\ UserMsg(op, id) \in Sent /\ UserMsg(op, id).op = op /\ UserMsg(op, id).of = id
              /\ UserMsg(op, id).id = IF op = "BYE" THEN 0 ELSE Wire(id)
         /\ send_bye(id) \in Sent /\ send_bye(id).op = "BYE" /\ send_bye(id).of = -1
         /\ send_bye(id).id \in WireIds
         /\ send_error(id) \in Sent /\ send_error(id).op = "ERR" /\ send_error(id).of = -1
         /\ send_error(id).id \in WireIds
<1>1. Wire(id) \in WireIds /\ Wire(id) \in Nat  BY IdTypes
<1>2. ASSUME NEW op \in {"AUTH", "JOIN", "MSG", "BYE"}
      PROVE  /\ UserMsg(op, id) \in Sent /\ UserMsg(op, id).op = op /\ UserMsg(op, id).of = id
             /\ UserMsg(op, id).id = IF op = "BYE" THEN 0 ELSE Wire(id)
  <2> DEFINE n == IF op = "BYE" THEN 0 ELSE Wire(id)
  <2>1. n \in Nat  BY <1>1
  <2>2. UserMsg(op, id) = [op |-> op, id |-> n, of |-> id]  BY DEF UserMsg
  <2> HIDE DEF n
  <2>3. [op |-> op, id |-> n, of |-> id] \in Sent  BY <2>1 DEF Sent
  <2> QED  BY <2>2, <2>3 DEF n
<1>3. /\ send_bye(id) \in Sent /\ send_bye(id).op = "BYE" /\ send_bye(id).of = -1
      /\ send_bye(id).id \in WireIds
  BY <1>1 DEF send_bye, Sent
<1>4. /\ send_error(id) \in Sent /\ send_error(id).op = "ERR" /\ send_error(id).of = -1
      /\ send_error(id).id \in WireIds
  BY <1>1 DEF send_error, Sent
<1> QED  BY <1>2, <1>3, <1>4

LEMMA ComeTypes ==
  /\ \A m \in Come : /\ send_confirm(m) \in Sent /\ send_confirm(m).op = "CONFIRM"
                     /\ send_confirm(m).of = -1
  /\ \A id \in Nat : /\ Confirm(id) \in Come /\ Confirm(id).op = "CONFIRM"
                     /\ Confirm(id).id = id
<1>1. 0 \in WireIds  BY ClientAssumption DEF WireIds
<1>2. ASSUME NEW m \in Come
      PROVE  /\ send_confirm(m) \in Sent /\ send_confirm(m).op = "CONFIRM"
             /\ send_confirm(m).of = -1
  <2>1. m.id \in Nat  BY <1>2 DEF Come
  <2>2. Wire(m.id) \in Nat  BY <2>1, ClientAssumption DEF Wire
  <2> QED  BY <2>2 DEF send_confirm, Sent
<1>3. ASSUME NEW id \in Nat
      PROVE  Confirm(id) \in Come /\ Confirm(id).op = "CONFIRM" /\ Confirm(id).id = id
  BY <1>1 DEF Confirm, Come
<1> QED  BY <1>2, <1>3

\* What is sent arrives or not; what was on its way stays there.
LEMMA EmitProperties ==
  ASSUME NEW S, Emit(S)
  PROVE  toServer \subseteq toServer' /\ toServer' \subseteq toServer \cup S
BY DEF Emit

LEMMA DeliverProperties ==
  ASSUME NEW S, Deliver(S)
  PROVE  toClient \subseteq toClient' /\ toClient' \subseteq toClient \cup S
BY DEF Deliver

LEMMA TakenProperties ==
  ASSUME NEW way, NEW m, NEW left \in Taken(way, m)
  PROVE  left \subseteq way /\ (~Duplicating => left = way \ {m})
BY DEF Taken

-----------------------------------------------------------------------------
(* What the steps of the client do, in four kinds.                         *)

\* Nothing is sent, received or set up.
Moves ==
  /\ pc' \in {"check", "select", "stdin", "socket", "timer", "done", "dead"}
  /\ ready' \in BOOLEAN /\ connection' \in BOOLEAN
  /\ present_state' \in {present_state, "END"}
  /\ stdin' \in {"empty", "line", "eof"} /\ typed' \in 0 .. MaxLines
  /\ (Attends' => Attends) /\ (pc' = "stdin" => Unlocked)
  /\ UNCHANGED <<sendVars, lockVars, retryCounter, named, toServer, toClient, serverVars>>

\* A line is read; at most one message is set up.
ReadsLine ==
  /\ pc = "stdin" /\ pc' \in {"socket", "timer"} /\ stdin' \in {"empty", "line", "eof"}
  /\ present_state' \in States /\ named' \in BOOLEAN
  /\ present_state' = "OPEN" => present_state = "OPEN"
  /\ UNCHANGED <<ready, connection, typed, retryCounter, toClient, serverVars>>
  /\ \/ \E op \in {"AUTH", "JOIN", "MSG", "BYE"} :
          SetUp(op) /\ (op = "JOIN" => present_state = "OPEN")
     \/ /\ sent_opcode' \in {sent_opcode, "MSG"}
        /\ UNCHANGED <<messageID, setup_msg, expired, replied, lockVars, toServer>>

\* The datagram m is read.  ERR and BYE are sent only on the way out.
Takes(m) ==
  /\ m \in toClient /\ toClient' \subseteq toClient
  /\ ~Duplicating => toClient' = toClient \ {m}
  /\ pc = "socket" /\ pc' = "timer" /\ ready' = FALSE
  /\ present_state' \in States
  /\ present_state' = "OPEN" => present_state = "OPEN" \/ (m.op = "REPLY" /\ m.ok)
  /\ messageID' \in Ids /\ (present_state' # "END" => messageID' = messageID)
  /\ toServer \subseteq toServer'
  /\ \A x \in toServer' \ toServer :
       x \in Sent /\ x.of = -1 /\ (x.op = "CONFIRM" \/ (x.op \in {"ERR", "BYE"}
                                                        /\ x.id \in WireIds /\ present_state' = "END"))
  /\ UNCHANGED <<connection, setup_msg, sent_opcode, expired, retryCounter, named,
                 userVars, serverVars>>
  /\ \/ /\ m.op = "CONFIRM" /\ conf' = Signed(m.id) /\ UNCHANGED replied
        /\ messageConfirmed' = (messageConfirmed \/ conf' = setup_msg.messageID)
        /\ needReply' = (needReply \/ MustWait)
     \/ /\ m.op = "REPLY" /\ needReply' = FALSE /\ UNCHANGED <<messageConfirmed, conf>>
        /\ replied' = (replied \/ m.ref = Wire(setup_msg.messageID))
     \/ needReply' = (needReply \/ MustWait) /\ UNCHANGED <<messageConfirmed, conf, replied>>

Closes ==
  /\ pc = "check" /\ pc' = "done" /\ messageID' \in Ids
  /\ toServer \subseteq toServer' /\ toServer' \subseteq toServer \cup {send_bye(messageID')}
  /\ UNCHANGED <<ready, connection, present_state, setup_msg, sent_opcode, expired, replied,
                 lockVars, retryCounter, named, userVars, toClient, serverVars>>

LEMMA LoopMoves ==
  ASSUME TypeOK, ReadsUnlocked,
         Check \/ (\E sock \in BOOLEAN : Select(sock)) \/ close_udp \/ NoResend \/ Type \/ EndInput
         \/ UNCHANGED vars
  PROVE  Moves
<1> USE DEF TypeOK, loopVars, userVars
<1>1. CASE Check
  BY <1>1 DEF Check, Moves, Attends
<1>2. ASSUME NEW sock \in BOOLEAN, Select(sock) PROVE Moves
  BY <1>2 DEF Select, Moves, Attends
<1>3. CASE close_udp
  BY <1>3 DEF close_udp, Moves, Attends, ReadsUnlocked
<1>4. CASE NoResend
  BY <1>4 DEF NoResend, Moves, Attends
<1>5. CASE Type
  <2>1. typed + 1 \in 0 .. MaxLines  BY <1>5, ClientAssumption DEF Type
  <2> QED  BY <1>5, <2>1 DEF Type, Moves, Attends, ReadsUnlocked
<1>6. CASE EndInput
  BY <1>6 DEF EndInput, Moves, Attends, ReadsUnlocked
<1>7. CASE UNCHANGED vars
  BY <1>7 DEF vars, Moves, Attends, ReadsUnlocked
<1> QED  BY <1>1, <1>2, <1>3, <1>4, <1>5, <1>6, <1>7

LEMMA LineReads == ASSUME TypeOK, ReadLine PROVE ReadsLine
<1> USE DEF TypeOK, Reads, NotSent, sendVars, lockVars, States
<1>1. CASE ReadAuth  BY <1>1 DEF ReadAuth, ReadsLine
<1>2. CASE ReadJoin  BY <1>2 DEF ReadJoin, ReadsLine
<1>3. CASE ReadMsg  BY <1>3 DEF ReadMsg, ReadsLine
<1>4. CASE ReadBye  BY <1>4 DEF ReadBye, ReadsLine
<1>5. CASE ReadBadBye  BY <1>5 DEF ReadBadBye, ReadsLine
<1>6. ASSUME NEW kind \in Lines, ReadRefused(kind) PROVE ReadsLine
  BY <1>6 DEF ReadRefused, ReadsLine
<1>7. CASE ReadLocal  BY <1>7 DEF ReadLocal, ReadsLine
<1>8. CASE ReadBlank  BY <1>8 DEF ReadBlank, ReadsLine
<1>9. CASE ReadEof  BY <1>9 DEF ReadEof, ReadsLine
<1> QED  BY <1>1, <1>2, <1>3, <1>4, <1>5, <1>6, <1>7, <1>8, <1>9 DEF ReadLine

\* The end of a turn that has read a datagram.
LEMMA EndsProperties ==
  ASSUME TypeOK, messageID' \in Ids, NEW st \in States, NEW out, Ends(st, out)
  PROVE  /\ present_state' \in {st, "END"} /\ (st \in {"ERROR", "END"} => present_state' = "END")
         /\ toServer \subseteq toServer'
         /\ \A x \in toServer' \ toServer :
              x \in out \/ (/\ x \in Sent /\ x.of = -1 /\ x.op = "BYE" /\ x.id \in WireIds
                            /\ present_state' = "END")
<1> DEFINE worn == retryCounter = Retry
           bye == IF ~worn /\ st = "ERROR" THEN {send_bye(messageID')} ELSE {}
<1>1. present_state' = IF worn \/ st = "ERROR" THEN "END" ELSE st  BY DEF Ends
<1>2. toServer \subseteq toServer' /\ toServer' \subseteq toServer \cup (out \cup bye)
  <2>1. Emit(out \cup bye)  BY DEF Ends
  <2> HIDE DEF bye
  <2> QED  BY <2>1, EmitProperties
<1>3. ASSUME NEW x \in bye
      PROVE  x \in Sent /\ x.of = -1 /\ x.op = "BYE" /\ x.id \in WireIds /\ present_state' = "END"
  <2>1. x = send_bye(messageID') /\ st = "ERROR"  OBVIOUS
  <2> QED  BY <1>1, <2>1, DatagramTypes
<1> HIDE DEF bye, worn
<1> QED  BY <1>1, <1>2, <1>3

LEMMA DatagramTakes ==
  ASSUME TypeOK, NEW m \in toClient,
         \/ GotConfirm(m) \/ GotReply(m) \/ DropReply(m) \/ GotMsg(m) \/ GotErr(m)
         \/ GotBye(m) \/ GotInvalid(m)
  PROVE  Takes(m)
<1>1. Receives(m)
  BY DEF GotConfirm, GotReply, DropReply, GotMsg, GotErr, GotBye, GotInvalid
<1>2. /\ toClient' \subseteq toClient /\ (~Duplicating => toClient' = toClient \ {m})
      /\ pc = "socket" /\ pc' = "timer" /\ ready' = FALSE
      /\ UNCHANGED <<connection, setup_msg, sent_opcode, expired, retryCounter, named,
                     userVars, serverVars>>
  BY <1>1, TakenProperties DEF Receives
<1>3. /\ m \in Come /\ messageID \in Ids /\ present_state \in States
      /\ (messageID + 1) % Word \in Ids
  BY IdTypes DEF TypeOK
<1>4. /\ send_confirm(m) \in Sent /\ send_confirm(m).op = "CONFIRM" /\ send_confirm(m).of = -1
      /\ send_error(messageID) \in Sent /\ send_error(messageID).op = "ERR"
      /\ send_error(messageID).of = -1 /\ send_error(messageID).id \in WireIds
  BY <1>3, ComeTypes, DatagramTypes
<1> DEFINE answers(st, out) ==
             /\ present_state' \in {st, "END"} /\ (st \in {"ERROR", "END"} => present_state' = "END")
             /\ toServer \subseteq toServer'
             /\ \A x \in toServer' \ toServer :
                  x \in out \/ (/\ x \in Sent /\ x.of = -1 /\ x.op = "BYE" /\ x.id \in WireIds
                                /\ present_state' = "END")
<1>5. CASE GotConfirm(m)
  <2>1. answers(present_state, {})  BY <1>3, <1>5, EndsProperties DEF GotConfirm
  <2> QED  BY <1>2, <1>3, <1>5, <2>1 DEF GotConfirm, Takes, States
<1>6. CASE GotReply(m)
  <2> DEFINE st == IF m.ok THEN "OPEN"
                   ELSE IF present_state = "AUTH" THEN "AUTH_failed" ELSE present_state
  <2>1. st \in States  BY <1>3 DEF States
  <2>2. Ends(st, {send_confirm(m)}) /\ messageID' = messageID  BY <1>6 DEF GotReply
  <2>3. st = "OPEN" => present_state = "OPEN" \/ m.ok  OBVIOUS
  <2> HIDE DEF st
  <2>4. answers(st, {send_confirm(m)})  BY <1>3, <2>1, <2>2, EndsProperties
  <2>5. \A x \in toServer' \ toServer :
          x \in Sent /\ x.of = -1 /\ (x.op = "CONFIRM" \/ (x.op \in {"ERR", "BYE"}
                                             /\ x.id \in WireIds /\ present_state' = "END"))
    BY <1>4, <2>4
  <2>6. present_state' \in States  BY <2>1, <2>4 DEF States
  <2>7. present_state' = "OPEN" => present_state = "OPEN" \/ (m.op = "REPLY" /\ m.ok)
    BY <1>6, <2>3, <2>4 DEF GotReply
  <2>8. toServer \subseteq toServer' /\ messageID' \in Ids  BY <1>3, <2>2, <2>4
  <2> HIDE DEF answers
  <2> QED  BY <1>2, <1>6, <2>2, <2>5, <2>6, <2>7, <2>8 DEF GotReply, Takes
<1>7. CASE DropReply(m)
  <2>1. answers(present_state, {})  BY <1>3, <1>7, EndsProperties DEF DropReply
  <2> QED  BY <1>2, <1>3, <1>7, <2>1 DEF DropReply, Takes, States
<1>8. CASE GotMsg(m)
  <2>1. answers(present_state, {send_confirm(m)})  BY <1>3, <1>8, EndsProperties DEF GotMsg
  <2> QED  BY <1>2, <1>3, <1>4, <1>8, <2>1 DEF GotMsg, Takes, States
<1>9. CASE GotErr(m)
  <2>1. answers("ERROR", {send_confirm(m)})
    BY <1>3, <1>9, EndsProperties DEF GotErr, States
  <2> QED  BY <1>2, <1>3, <1>4, <1>9, <2>1 DEF GotErr, Takes, States
<1>10. CASE GotBye(m)
  <2>1. answers("END", {})  BY <1>3, <1>10, EndsProperties DEF GotBye, States
  <2> QED  BY <1>2, <1>3, <1>10, <2>1 DEF GotBye, Takes, States
<1>11. CASE GotInvalid(m)
  <2>1. messageID' \in Ids /\ Ends("ERROR", {send_error(messageID)})
    BY <1>3, <1>11 DEF GotInvalid
  <2>2. answers("ERROR", {send_error(messageID)})  BY <2>1, EndsProperties DEF States
  <2> QED  BY <1>2, <1>4, <1>11, <2>1, <2>2 DEF GotInvalid, Takes, States
<1> QED  BY <1>5, <1>6, <1>7, <1>8, <1>9, <1>10, <1>11

LEMMA CloseCloses == ASSUME TypeOK, Close PROVE Closes
<1>1. messageID \in Ids /\ (messageID + 1) % Word \in Ids  BY IdTypes DEF TypeOK
<1>2. CASE connection
  BY <1>1, <1>2 DEF Close, Closes
<1>3. CASE ~connection
  <2>1. messageID' \in Ids /\ Emit({send_bye(messageID')})  BY <1>1, <1>3 DEF Close
  <2>2. toServer \subseteq toServer' /\ toServer' \subseteq toServer \cup {send_bye(messageID')}
    BY <2>1, EmitProperties
  <2> QED  BY <2>1, <2>2 DEF Close, Closes
<1> QED  BY <1>2, <1>3

\* The program dies of a datagram: nothing else changes.
LEMMA DiesMoves ==
  ASSUME TypeOK, NEW m, Dies(m)
  PROVE  Moves
BY DEF Dies, Moves, Attends, TypeOK, userVars

\* All steps.
LEMMA Steps ==
  ASSUME TypeOK, ReadsUnlocked, [Next]_vars
  PROVE  Moves \/ ReadsLine \/ (\E m \in toClient : Takes(m)) \/ Closes \/ Resend \/ Server
<1>1. CASE ReadDatagram
  <2>1. PICK m \in toClient :
          \/ GotConfirm(m) \/ GotReply(m) \/ DropReply(m) \/ GotMsg(m) \/ GotErr(m)
          \/ GotBye(m) \/ GotInvalid(m) \/ Dies(m)
    BY <1>1 DEF ReadDatagram
  <2> QED  BY <2>1, DatagramTakes, DiesMoves
<1>2. CASE UNCHANGED vars \/ Quiet
  BY <1>2, LoopMoves DEF Quiet
<1> QED  BY <1>1, <1>2, LoopMoves, LineReads, CloseCloses DEF Next

-----------------------------------------------------------------------------
(* Sending: the first layer is kept.                                       *)

LEMMA LastId ==
  ASSUME TypeOK, Counted
  PROVE  /\ setup_msg.messageID \in Nat /\ setup_msg.messageID < Byte
         /\ setup_msg.messageID + 1 < Word /\ setup_msg.messageID \in Ids
         /\ setup_msg.op \in {"NONE", "AUTH", "JOIN", "MSG", "BYE"}
<1>1. setup_msg.messageID \in 0 .. Word - 1 /\ setup_msg.op \in {"NONE", "AUTH", "JOIN", "MSG", "BYE"}
  BY DEF TypeOK, Ids
<1> DEFINE last == setup_msg.messageID
<1>2. last = 0 \/ 2 * (last - 1) < Byte  BY DEF Counted
<1> HIDE DEF last
<1>3. last \in Nat /\ last < Byte /\ last + 1 < Word
  BY <1>1, <1>2, ClientAssumption DEF last
<1> QED  BY <1>1, <1>3 DEF last, Ids

LEMMA MovesInv == ASSUME SendInv, Moves PROVE SendInv'
<1>1. /\ UNCHANGED <<messageID, setup_msg, sent_opcode, expired, replied, messageConfirmed,
                     needReply, conf, retryCounter, named, toServer, toClient, received, owed,
                     seen, pending, accepted, nextID, said>>
      /\ pc' \in {"check", "select", "stdin", "socket", "timer", "done", "dead"}
      /\ ready' \in BOOLEAN /\ connection' \in BOOLEAN /\ present_state' \in {present_state, "END"}
      /\ stdin' \in {"empty", "line", "eof"} /\ typed' \in 0 .. MaxLines
      /\ (Attends' => Attends) /\ (pc' = "stdin" => Unlocked)
  BY DEF Moves, sendVars, lockVars, serverVars
<1>2. TypeOK'
  BY <1>1 DEF SendInv, TypeOK, States
<1>3. Counted' /\ ReadsUnlocked' /\ ToServerInv' /\ ConfirmsInv'
  <2>1. Counted'  BY <1>1 DEF SendInv, Counted
  <2>2. ReadsUnlocked'  BY <1>1 DEF ReadsUnlocked, Unlocked
  <2>3. ToServerInv'  BY <1>1 DEF SendInv, ToServerInv
  <2>4. ConfirmsInv'  BY <1>1 DEF SendInv, ConfirmsInv
  <2> QED  BY <2>1, <2>2, <2>3, <2>4
<1> QED  BY <1>2, <1>3 DEF SendInv

LEMMA LineInv == ASSUME SendInv, ReadsLine PROVE SendInv'
<1>1. /\ UNCHANGED <<ready, connection, typed, retryCounter, toClient, received, owed, seen,
                     pending, accepted, nextID, said>>
      /\ pc = "stdin" /\ pc' \in {"socket", "timer"} /\ stdin' \in {"empty", "line", "eof"}
      /\ present_state' \in States /\ named' \in BOOLEAN
  BY DEF ReadsLine, serverVars
<1>2. TypeOK /\ Attends /\ messageConfirmed /\ ReadsUnlocked'
  BY <1>1 DEF SendInv, Attends, ReadsUnlocked, Unlocked
<1>3. ConfirmsInv'
  BY <1>1, <1>2 DEF SendInv, ConfirmsInv
<1>4. ASSUME NEW op \in {"AUTH", "JOIN", "MSG", "BYE"}, SetUp(op)
      PROVE  SendInv'
  <2> DEFINE last == setup_msg.messageID
             new == IF setup_msg.op = "NONE" THEN 0 ELSE last + 1
  <2>1. /\ last \in Nat /\ last < Byte /\ last + 1 < Word /\ messageID = new
        /\ setup_msg.op = "NONE" => last = 0 /\ received = {}
        /\ setup_msg.op # "NONE" => /\ received \subseteq 0 .. last
                                    /\ \A id \in 0 .. last - 1 : id \in received
                                    /\ last \in received /\ 2 * last < Byte
    BY <1>2, LastId DEF SendInv, Counted
  <2>2. setup_msg' = [op |-> op, messageID |-> messageID] /\ sent_opcode' = op
        /\ messageID' = (messageID + 1) % Word /\ messageConfirmed' = FALSE
        /\ expired' = FALSE /\ replied' = FALSE /\ needReply' = needReply /\ conf' = conf
    BY <1>4 DEF SetUp
  <2>3. toServer \subseteq toServer' /\ toServer' \subseteq toServer \cup {UserMsg(op, messageID)}
    BY <1>4, EmitProperties DEF SetUp
  <2>4. new \in Nat /\ new < Byte /\ new \in Ids /\ new + 1 < Word /\ 2 * (new - 1) < Byte
        /\ last <= new
    <3> HIDE DEF last
    <3>1. CASE setup_msg.op = "NONE"  BY <2>1, <3>1, ClientAssumption DEF Ids
    <3>2. CASE setup_msg.op # "NONE"
      <4>1. 2 * last < Byte /\ last + 1 < Byte + 1 /\ Byte \in Nat /\ 2 <= Byte /\ Byte < Word
            /\ Word \in Nat /\ last \in Nat /\ new = last + 1
        BY <2>1, <3>2, ClientAssumption
      <4>2. last + 1 < Byte  BY <4>1
      <4> QED  BY <4>1, <4>2 DEF Ids
    <3> QED  BY <3>1, <3>2
  <2>5. messageID' = new + 1 /\ messageID' \in Ids
    BY <2>1, <2>2, <2>4, IdTypes
  <2>6. /\ UserMsg(op, new) \in Sent /\ UserMsg(op, new).op = op /\ UserMsg(op, new).of = new
        /\ UserMsg(op, new).id = (IF op = "BYE" THEN 0 ELSE new) /\ UserMsg(op, new).id \in WireIds
    <3>1. Wire(new) = new /\ Wire(new) \in WireIds  BY <2>4, IdTypes
    <3>2. 0 \in WireIds  BY ClientAssumption DEF WireIds
    <3> QED  BY <2>4, <3>1, <3>2, DatagramTypes
  <2>7. setup_msg'.op = op /\ setup_msg'.messageID = new /\ op # "NONE"
        /\ setup_msg' \in [op : {"NONE", "AUTH", "JOIN", "MSG", "BYE"}, messageID : Ids]
    BY <2>1, <2>2, <2>4
  <2>8. TypeOK'
    <3>1. toServer' \subseteq Sent  BY <1>2, <2>1, <2>3, <2>6 DEF TypeOK
    <3> QED  BY <1>1, <1>2, <2>2, <2>5, <2>7, <3>1 DEF TypeOK
  <2>9. Counted'
    <3>1. received \subseteq 0 .. new /\ \A id \in 0 .. new - 1 : id \in received
      <4> HIDE DEF last
      <4>1. CASE setup_msg.op = "NONE"  BY <2>1, <4>1
      <4>2. CASE setup_msg.op # "NONE"
        <5>1. new = last + 1  BY <4>2
        <5>2. \A id \in 0 .. new - 1 : id \in 0 .. last - 1 \/ id = last  BY <2>1, <5>1
        <5> QED  BY <2>1, <4>2, <5>1, <5>2
      <4> QED  BY <4>1, <4>2
    <3> HIDE DEF new, last
    <3> QED  BY <1>1, <2>2, <2>4, <2>5, <2>7, <3>1 DEF Counted
  <2>10. ToServerInv'
    <3> SUFFICES ASSUME NEW m \in toServer'
                 PROVE  IF m.op = "CONFIRM" THEN m.of = -1
                        ELSE /\ m.id \in WireIds
                             /\ IF m.of = -1 THEN ~Attends' /\ m.op \in {"ERR", "BYE"}
                                ELSE /\ m.of <= new
                                     /\ m.id = IF m.op = "BYE" THEN 0 ELSE m.of
      BY <2>7 DEF ToServerInv
    <3>1. CASE m \in toServer
      <4>1. m.of \in Int  BY <1>2, <3>1 DEF TypeOK, Sent, Ids
      <4> HIDE DEF new
      <4>2. m.op # "CONFIRM" => m.of # -1  BY <1>2, <3>1 DEF SendInv, ToServerInv
      <4>3. m.of <= last => m.of <= new  BY <2>1, <2>4, <4>1
      <4> QED  BY <3>1, <4>2, <4>3 DEF SendInv, ToServerInv
    <3>2. CASE m = UserMsg(op, new)
      <4> HIDE DEF new
      <4>1. m.of = new /\ m.op # "CONFIRM" /\ new # -1 /\ m.of <= new  BY <2>4, <2>6, <3>2
      <4> QED  BY <2>6, <3>2, <4>1
    <3> QED  BY <2>1, <2>3, <3>1, <3>2
  <2> QED  BY <1>2, <1>3, <2>8, <2>9, <2>10 DEF SendInv
<1>5. ASSUME sent_opcode' \in {sent_opcode, "MSG"},
             UNCHANGED <<messageID, setup_msg, expired, replied, lockVars, toServer>>
      PROVE  SendInv'
  <2>1. /\ sent_opcode' \in {"NONE", "AUTH", "JOIN", "MSG", "BYE"}
        /\ UNCHANGED <<messageID, setup_msg, expired, replied, messageConfirmed, needReply, conf,
                       toServer>>
    BY <1>2, <1>5 DEF TypeOK, lockVars
  <2>2. TypeOK'  BY <1>1, <1>2, <2>1 DEF TypeOK
  <2>3. Counted'  BY <1>1, <1>2, <2>1 DEF SendInv, Counted
  <2>4. ToServerInv'  BY <1>2, <2>1 DEF SendInv, ToServerInv
  <2> QED  BY <1>2, <1>3, <2>2, <2>3, <2>4 DEF SendInv
<1> QED  BY <1>4, <1>5 DEF ReadsLine

LEMMA TakesInv == ASSUME SendInv, NEW m, Takes(m) PROVE SendInv'
<1>1. /\ UNCHANGED <<connection, setup_msg, sent_opcode, expired, retryCounter, named, stdin, typed,
                     received, owed, seen, pending, accepted, nextID, said>>
      /\ m \in toClient /\ toClient' \subseteq toClient
      /\ pc = "socket" /\ pc' = "timer" /\ ready' = FALSE /\ present_state' \in States
      /\ messageID' \in Ids /\ (present_state' # "END" => messageID' = messageID)
      /\ toServer \subseteq toServer'
  BY DEF Takes, userVars, serverVars
<1>2. \A x \in toServer' \ toServer :
        x \in Sent /\ x.of = -1 /\ (x.op = "CONFIRM" \/ (x.op \in {"ERR", "BYE"}
                                           /\ x.id \in WireIds /\ present_state' = "END"))
  BY DEF Takes
<1>3. TypeOK /\ Attends /\ (Attends' <=> present_state' # "END")
  BY <1>1 DEF SendInv, Attends
<1>4. /\ conf' \in Ids /\ messageConfirmed' \in BOOLEAN /\ needReply' \in BOOLEAN
      /\ replied' \in BOOLEAN
      /\ messageConfirmed' => messageConfirmed
                              \/ (m.op = "CONFIRM" /\ Signed(m.id) = setup_msg.messageID)
      /\ messageConfirmed => messageConfirmed'
  <2>1. /\ conf \in Ids /\ messageConfirmed \in BOOLEAN /\ needReply \in BOOLEAN
        /\ replied \in BOOLEAN /\ MustWait \in BOOLEAN
        /\ m.op = "CONFIRM" => Signed(m.id) \in Ids
    <3>1. m.op = "CONFIRM" => m.id \in WireIds  BY <1>1 DEF SendInv, ConfirmsInv
    <3>2. MustWait \in BOOLEAN  BY DEF MustWait
    <3>3. conf \in Ids /\ messageConfirmed \in BOOLEAN /\ needReply \in BOOLEAN /\ replied \in BOOLEAN
      BY <1>3 DEF TypeOK
    <3> QED  BY <3>1, <3>2, <3>3, IdTypes
  <2>2. CASE m.op = "CONFIRM" /\ conf' = Signed(m.id) /\ UNCHANGED replied
             /\ messageConfirmed' = (messageConfirmed \/ conf' = setup_msg.messageID)
             /\ needReply' = (needReply \/ MustWait)
    BY <2>1, <2>2
  <2>3. CASE m.op = "REPLY" /\ needReply' = FALSE /\ UNCHANGED <<messageConfirmed, conf>>
             /\ replied' = (replied \/ m.ref = Wire(setup_msg.messageID))
    BY <2>1, <2>3
  <2>4. CASE needReply' = (needReply \/ MustWait) /\ UNCHANGED <<messageConfirmed, conf, replied>>
    BY <2>1, <2>4
  <2> QED  BY <2>2, <2>3, <2>4 DEF Takes
<1>5. TypeOK'
  <2>1. toServer' \subseteq Sent /\ toClient' \subseteq Come  BY <1>1, <1>2, <1>3 DEF TypeOK
  <2> QED  BY <1>1, <1>3, <1>4, <2>1 DEF TypeOK
<1>6. Counted'
  <2> DEFINE last == setup_msg.messageID
  <2>1. /\ setup_msg.op = "NONE" => last = 0 /\ messageConfirmed /\ received = {}
        /\ setup_msg.op # "NONE" =>
             /\ received \subseteq 0 .. last /\ \A id \in 0 .. last - 1 : id \in received
             /\ 2 * (last - 1) < Byte /\ (messageConfirmed => last \in received /\ 2 * last < Byte)
        /\ messageID = IF setup_msg.op = "NONE" THEN 0 ELSE last + 1
    BY <1>3 DEF SendInv, Counted
  <2>2. ASSUME setup_msg.op # "NONE", m.op = "CONFIRM", Signed(m.id) = last
        PROVE  last \in received /\ 2 * last < Byte
    <3>1. m.id \in received /\ m.id \in 0 .. last /\ last \in Nat
      BY <1>1, <1>3, <2>1, <2>2, LastId DEF SendInv, ConfirmsInv
    <3> HIDE DEF last
    <3>2. m.id = last /\ 2 * last < Byte
      BY <2>1, <2>2, <3>1, ClientAssumption DEF Signed
    <3> QED  BY <3>1, <3>2
  <2> HIDE DEF last
  <2>3. setup_msg.op # "NONE" /\ messageConfirmed' => last \in received /\ 2 * last < Byte
    BY <1>4, <2>1, <2>2 DEF last
  <2>4. Attends' => messageID' = IF setup_msg.op = "NONE" THEN 0 ELSE last + 1
    BY <1>1, <1>3, <2>1
  <2> QED  BY <1>1, <1>4, <2>1, <2>3, <2>4 DEF Counted, last
<1>7. ReadsUnlocked'  BY <1>1 DEF ReadsUnlocked
<1>8. ToServerInv'
  <2> SUFFICES ASSUME NEW x \in toServer'
               PROVE  IF x.op = "CONFIRM" THEN x.of = -1
                      ELSE /\ x.id \in WireIds
                           /\ IF x.of = -1 THEN ~Attends' /\ x.op \in {"ERR", "BYE"}
                              ELSE /\ setup_msg.op # "NONE" /\ x.of <= setup_msg.messageID
                                   /\ x.id = IF x.op = "BYE" THEN 0 ELSE x.of
    BY <1>1 DEF ToServerInv
  <2>1. CASE x \in toServer  BY <1>3, <2>1 DEF SendInv, ToServerInv
  <2>2. CASE x \notin toServer  BY <1>2, <1>3, <2>2
  <2> QED  BY <2>1, <2>2
<1>9. ConfirmsInv'  BY <1>1, <1>3 DEF SendInv, ConfirmsInv
<1> QED  BY <1>5, <1>6, <1>7, <1>8, <1>9 DEF SendInv

LEMMA ClosesInv == ASSUME SendInv, Closes PROVE SendInv'
<1>1. /\ UNCHANGED <<ready, connection, present_state, setup_msg, sent_opcode, expired, replied,
                     messageConfirmed, needReply, conf, retryCounter, named, stdin, typed, toClient,
                     received, owed, seen, pending, accepted, nextID, said>>
      /\ pc' = "done" /\ messageID' \in Ids
      /\ toServer' \subseteq toServer \cup {send_bye(messageID')}
  BY DEF Closes, lockVars, userVars, serverVars
<1>2. TypeOK /\ ~Attends' /\ ReadsUnlocked'  BY <1>1 DEF SendInv, Attends, ReadsUnlocked
<1>3. /\ send_bye(messageID') \in Sent /\ send_bye(messageID').op = "BYE"
      /\ send_bye(messageID').of = -1 /\ send_bye(messageID').id \in WireIds
  BY <1>1, DatagramTypes
<1>4. TypeOK'
  <2>1. toServer' \subseteq Sent  BY <1>1, <1>2, <1>3 DEF TypeOK
  <2> QED  BY <1>1, <1>2, <2>1 DEF TypeOK
<1>5. Counted'  BY <1>1, <1>2 DEF SendInv, Counted
<1>6. ToServerInv'
  <2> SUFFICES ASSUME NEW x \in toServer'
               PROVE  IF x.op = "CONFIRM" THEN x.of = -1
                      ELSE /\ x.id \in WireIds
                           /\ IF x.of = -1 THEN x.op \in {"ERR", "BYE"}
                              ELSE /\ setup_msg.op # "NONE" /\ x.of <= setup_msg.messageID
                                   /\ x.id = IF x.op = "BYE" THEN 0 ELSE x.of
    BY <1>1, <1>2 DEF ToServerInv
  <2>1. CASE x \in toServer  BY <2>1 DEF SendInv, ToServerInv
  <2>2. CASE x = send_bye(messageID')
    <3> HIDE DEF send_bye
    <3> QED  BY <1>3, <2>2
  <2> QED  BY <1>1, <2>1, <2>2
<1>7. ConfirmsInv'  BY <1>1, <1>2 DEF SendInv, ConfirmsInv
<1> QED  BY <1>2, <1>4, <1>5, <1>6, <1>7 DEF SendInv

LEMMA ResendInv == ASSUME SendInv, Resend PROVE SendInv'
<1> DEFINE d == UserMsg(setup_msg.op, setup_msg.messageID)
<1>1. /\ UNCHANGED <<ready, connection, present_state, messageID, setup_msg, sent_opcode, replied,
                     messageConfirmed, needReply, conf, named, stdin, typed, toClient,
                     received, owed, seen, pending, accepted, nextID, said>>
      /\ pc = "timer" /\ pc' = "check" /\ ~messageConfirmed
      /\ retryCounter < Retry /\ retryCounter' = retryCounter + 1 /\ expired' = TRUE
      /\ Emit({d})
  BY DEF Resend, CanResend, lockVars, userVars, serverVars
<1>2. TypeOK /\ (Attends' <=> Attends) /\ ReadsUnlocked'
  BY <1>1 DEF SendInv, Attends, ReadsUnlocked
<1>3. /\ setup_msg.op \in {"AUTH", "JOIN", "MSG", "BYE"} /\ setup_msg.op # "NONE"
      /\ setup_msg.messageID \in Nat /\ setup_msg.messageID \in Ids
      /\ setup_msg.messageID < Byte
  BY <1>1, <1>2, LastId DEF SendInv, Counted
<1>4. /\ d \in Sent /\ d.op = setup_msg.op /\ d.of = setup_msg.messageID
      /\ d.id = (IF d.op = "BYE" THEN 0 ELSE d.of) /\ d.id \in WireIds
  <2>1. /\ Wire(setup_msg.messageID) = setup_msg.messageID
        /\ Wire(setup_msg.messageID) \in WireIds
    BY <1>3, IdTypes
  <2>2. 0 \in WireIds  BY ClientAssumption DEF WireIds
  <2> QED  BY <1>3, <2>1, <2>2, DatagramTypes
<1>5. toServer' \subseteq toServer \cup {d}  BY <1>1, EmitProperties
<1> HIDE DEF d
<1>6. TypeOK'
  <2>1. toServer' \subseteq Sent  BY <1>2, <1>4, <1>5 DEF TypeOK
  <2>2. retryCounter' \in 0 .. Retry  BY <1>1, <1>2, ClientAssumption DEF TypeOK
  <2> QED  BY <1>1, <1>2, <2>1, <2>2 DEF TypeOK
<1>7. Counted'  BY <1>1, <1>2 DEF SendInv, Counted
<1>8. ToServerInv'
  <2> SUFFICES ASSUME NEW x \in toServer'
               PROVE  IF x.op = "CONFIRM" THEN x.of = -1
                      ELSE /\ x.id \in WireIds
                           /\ IF x.of = -1 THEN ~Attends /\ x.op \in {"ERR", "BYE"}
                              ELSE /\ setup_msg.op # "NONE" /\ x.of <= setup_msg.messageID
                                   /\ x.id = IF x.op = "BYE" THEN 0 ELSE x.of
    BY <1>1, <1>2 DEF ToServerInv
  <2>1. CASE x \in toServer  BY <2>1 DEF SendInv, ToServerInv
  <2>2. CASE x = d  BY <1>3, <1>4, <2>2
  <2> QED  BY <1>5, <2>1, <2>2
<1>9. ConfirmsInv'  BY <1>1, <1>2 DEF SendInv, ConfirmsInv
<1> QED  BY <1>2, <1>6, <1>7, <1>8, <1>9 DEF SendInv

\* The server's steps leave the client alone.
ClientSame ==
  UNCHANGED <<pc, ready, connection, present_state, messageID, setup_msg, sent_opcode, expired,
              replied, messageConfirmed, needReply, conf, retryCounter, named, stdin, typed>>

LEMMA ServerLeaves == ServerStep => ClientSame
BY DEF ServerStep, ClientSame, loopVars, sendVars, lockVars, userVars

\* A message of the client arrives.
LEMMA GetsInv == ASSUME SendInv, NEW m, ServerGets(m) PROVE SendInv'
<1>1. /\ ClientSame /\ UNCHANGED <<pending, accepted, nextID, said>>
      /\ m \in toServer /\ m.op # "CONFIRM" /\ toServer' \subseteq toServer
      /\ toClient \subseteq toClient' /\ toClient' \subseteq toClient \cup {Confirm(m.id)}
      /\ received' = received \cup ({m.of} \ {-1})
  BY TakenProperties, DeliverProperties, ServerLeaves DEF ServerGets
<1>2. /\ TypeOK /\ m.id \in WireIds /\ m.id \in Nat /\ m \in Sent
      /\ m.of # -1 => /\ setup_msg.op # "NONE" /\ m.of <= setup_msg.messageID
                      /\ m.id = IF m.op = "BYE" THEN 0 ELSE m.of
      /\ m.of = -1 => ~Attends
  BY <1>1, IdTypes DEF SendInv, ToServerInv, TypeOK
<1>3. /\ Confirm(m.id) \in Come /\ Confirm(m.id).op = "CONFIRM" /\ Confirm(m.id).id = m.id
      /\ m.of \in Ids \cup {-1} /\ (m.op \in {"AUTH", "JOIN"} => [op |-> m.op, id |-> m.id] \in
                                       [op : {"AUTH", "JOIN"}, id : WireIds])
  BY <1>2, ComeTypes DEF Sent
<1> HIDE DEF Confirm
<1>4. (Attends' <=> Attends) /\ ReadsUnlocked'
  BY <1>1 DEF ClientSame, SendInv, Attends, ReadsUnlocked, Unlocked
<1>5. TypeOK'
  <2>1. received' \subseteq Ids /\ toServer' \subseteq Sent /\ toClient' \subseteq Come
    BY <1>1, <1>2, <1>3 DEF TypeOK
  <2>2. owed' \subseteq [op : {"AUTH", "JOIN"}, id : WireIds] /\ seen' \subseteq WireIds
    <3>1. (owed' = owed \/ (m.op \in {"AUTH", "JOIN"} /\ owed' = owed \cup {[op |-> m.op, id |-> m.id]}))
          /\ seen' \subseteq seen \cup {m.id}
      BY DEF ServerGets
    <3> QED  BY <1>2, <1>3, <3>1 DEF TypeOK
  <2> QED  BY <1>1, <1>2, <2>1, <2>2 DEF TypeOK, ClientSame
<1>6. Counted'
  <2> DEFINE last == setup_msg.messageID
  <2>1. setup_msg.op = "NONE" => received' = received
    BY <1>1, <1>2
  <2>2. m.of # -1 => m.of \in 0 .. last
    <3>1. m.of # -1 => m.of \in Nat  BY <1>3 DEF Ids
    <3>2. last \in Nat  BY <1>2, LastId DEF SendInv
    <3> HIDE DEF last
    <3>3. m.of # -1 => m.of <= last  BY <1>2 DEF last
    <3> QED  BY <3>1, <3>2, <3>3
  <2> QED  BY <1>1, <1>4, <2>1, <2>2 DEF SendInv, Counted, ClientSame
<1>7. ToServerInv'
  <2>1. \A x \in toServer' : x \in toServer  BY <1>1
  <2> QED  BY <1>1, <1>4, <2>1 DEF SendInv, ToServerInv, ClientSame
<1>8. ConfirmsInv'
  <2>1. Attends => m.id \in received'
    <3>1. ASSUME Attends, m.op # "BYE" PROVE m.id \in received'
      BY <1>1, <1>2, <3>1
    <3>2. ASSUME Attends, m.op = "BYE" PROVE m.id \in received'
      <4> DEFINE last == setup_msg.messageID
      <4>1. m.id = 0 /\ m.of # -1 /\ m.of <= last /\ \A id \in 0 .. last - 1 : id \in received
        BY <1>2, <3>2 DEF SendInv, Counted
      <4>2. last \in Nat /\ m.of \in Nat  BY <1>2, <1>3, <4>1, LastId DEF SendInv, Ids
      <4> HIDE DEF last
      <4>3. m.of = 0 \/ 0 \in 0 .. last - 1  BY <4>1, <4>2
      <4> QED  BY <1>1, <4>1, <4>2, <4>3
    <3> QED  BY <3>1, <3>2
  <2>2. \A c \in toClient' : c \in toClient \/ c = Confirm(m.id)  BY <1>1
  <2> QED  BY <1>1, <1>2, <1>3, <1>4, <2>1, <2>2 DEF SendInv, ConfirmsInv
<1> QED  BY <1>4, <1>5, <1>6, <1>7, <1>8 DEF SendInv

\* The server's other steps: it has no message more than before, and confirms none.
Speaks ==
  /\ ClientSame /\ UNCHANGED received
  /\ toServer' \subseteq toServer
  /\ toClient \subseteq toClient' /\ toClient' \subseteq Come
  /\ \A c \in toClient' \ toClient : c.op # "CONFIRM"
  /\ owed' \subseteq owed /\ seen' = seen /\ pending' \subseteq Come
  /\ \A m \in pending' : m.op = "REPLY"
  /\ accepted' \in BOOLEAN /\ nextID' \in Nat /\ said' \in 0 .. MaxSaid

LEMMA ReplyTypes ==
  ASSUME TypeOK, NEW r \in owed, NEW ok \in BOOLEAN
  PROVE  LET m == [op |-> "REPLY", id |-> nextID, ref |-> r.id, ok |-> ok]
         IN  m \in Come /\ m.op = "REPLY" /\ m.ref = r.id /\ m.ok = ok /\ r.id \in WireIds
<1>1. nextID \in Nat /\ r.id \in WireIds  BY DEF TypeOK
<1> QED  BY <1>1 DEF Come

LEMMA ServerSpeaking ==
  ASSUME TypeOK, ConfirmsInv,
         \/ \E m \in toServer : ServerConfirmed(m)
         \/ \E r \in owed, ok \in BOOLEAN : ServerReplies(r, ok)
         \/ \E m \in pending : ServerResends(m)
         \/ \E op \in Says : ServerSpeaks(op)
  PROVE  Speaks
<1>0. /\ accepted \in BOOLEAN /\ nextID \in Nat /\ said \in 0 .. MaxSaid
      /\ toClient \subseteq Come /\ pending \subseteq Come
      /\ \A m \in pending : m.op = "REPLY"
  BY DEF TypeOK, ConfirmsInv
<1>1. ASSUME NEW m \in toServer, ServerConfirmed(m) PROVE Speaks
  <2>1. /\ ClientSame /\ toServer' \subseteq toServer /\ pending' \subseteq pending
        /\ UNCHANGED <<toClient, received, owed, seen, accepted, nextID, said>>
    BY <1>1, ServerLeaves DEF ServerConfirmed
  <2> QED  BY <1>0, <2>1 DEF Speaks
<1>2. ASSUME NEW r \in owed, NEW ok \in BOOLEAN, ServerReplies(r, ok) PROVE Speaks
  <2> DEFINE m == [op |-> "REPLY", id |-> nextID, ref |-> r.id, ok |-> ok]
  <2>1. m \in Come /\ m.op = "REPLY"  BY ReplyTypes
  <2>2. /\ Deliver({m}) /\ pending' = pending \cup {m} /\ owed' = owed \ {r}
        /\ accepted' = (accepted \/ (ok /\ r.op = "AUTH")) /\ nextID' = nextID + 1
        /\ ClientSame /\ UNCHANGED <<toServer, received, seen, said>>
    BY <1>2, ServerLeaves DEF ServerReplies
  <2> HIDE DEF m
  <2>3. toClient \subseteq toClient' /\ toClient' \subseteq toClient \cup {m}
    BY <2>2, DeliverProperties
  <2>4. accepted' \in BOOLEAN
    <3>1. (accepted \/ (ok /\ r.op = "AUTH")) \in BOOLEAN  BY Zenon
    <3> QED  BY <2>2, <3>1
  <2> QED  BY <1>0, <2>1, <2>2, <2>3, <2>4 DEF Speaks
<1>3. ASSUME NEW m \in pending, ServerResends(m) PROVE Speaks
  <2>1. toClient \subseteq toClient' /\ toClient' \subseteq toClient \cup {m}
    BY <1>3, DeliverProperties DEF ServerResends
  <2> QED  BY <1>0, <1>3, <2>1, ServerLeaves DEF ServerResends, Speaks, serverVars
<1>4. ASSUME NEW op \in Says, ServerSpeaks(op) PROVE Speaks
  <2> DEFINE m == [op |-> op, id |-> nextID, ref |-> 0, ok |-> FALSE]
  <2>1. m \in Come /\ m.op # "CONFIRM"
    <3>1. op \in ServerSays /\ 0 \in WireIds  BY ClientAssumption DEF WireIds
    <3> QED  BY <1>0, <3>1 DEF Come, ServerSays
  <2>2. /\ Deliver({m}) /\ nextID' = nextID + 1 /\ said' = said + 1 /\ said < MaxSaid
        /\ ClientSame /\ UNCHANGED <<toServer, received, owed, seen, pending, accepted>>
    BY <1>4, ServerLeaves DEF ServerSpeaks
  <2> HIDE DEF m
  <2>3. toClient \subseteq toClient' /\ toClient' \subseteq toClient \cup {m}
    BY <2>2, DeliverProperties
  <2>4. said' \in 0 .. MaxSaid  BY <1>0, <2>2, ClientAssumption
  <2> QED  BY <1>0, <2>1, <2>2, <2>3, <2>4 DEF Speaks
<1> QED  BY <1>1, <1>2, <1>3, <1>4

LEMMA SpeaksInv == ASSUME SendInv, Speaks PROVE SendInv'
<1>1. (Attends' <=> Attends) /\ ReadsUnlocked'
  BY DEF Speaks, ClientSame, SendInv, Attends, ReadsUnlocked, Unlocked
<1>2. TypeOK'
  <2>1. toServer' \subseteq Sent /\ owed' \subseteq [op : {"AUTH", "JOIN"}, id : WireIds]
        /\ seen' \subseteq WireIds /\ received' \subseteq Ids
    BY DEF SendInv, TypeOK, Speaks
  <2> QED  BY <2>1 DEF SendInv, TypeOK, Speaks, ClientSame
<1>3. Counted'  BY <1>1 DEF SendInv, Counted, Speaks, ClientSame
<1>4. ToServerInv'
  <2>1. \A x \in toServer' : x \in toServer  BY DEF Speaks
  <2>2. UNCHANGED setup_msg  BY DEF Speaks, ClientSame
  <2> QED  BY <1>1, <2>1, <2>2 DEF SendInv, ToServerInv
<1>5. ConfirmsInv'
  <2>1. \A c \in toClient' : c.op = "CONFIRM" => c \in toClient  BY DEF Speaks
  <2>2. received' = received /\ \A m \in pending' : m.op = "REPLY"  BY DEF Speaks
  <2> QED  BY <1>1, <2>1, <2>2 DEF SendInv, ConfirmsInv
<1> QED  BY <1>1, <1>2, <1>3, <1>4, <1>5 DEF SendInv

LEMMA SendInit == Init => SendInv
<1> SUFFICES ASSUME Init PROVE SendInv  OBVIOUS
<1>1. 0 \in Ids /\ 0 \in 0 .. MaxLines /\ 0 \in 0 .. MaxSaid /\ 0 \in 0 .. Retry
  BY ClientAssumption DEF Ids
<1>2. TypeOK  BY <1>1 DEF Init, TypeOK, States
<1> QED
  BY <1>2 DEF Init, SendInv, Counted, ReadsUnlocked, ToServerInv, ConfirmsInv, Attends

LEMMA SendStep == SendInv /\ [Next]_vars => SendInv'
<1> SUFFICES ASSUME SendInv, [Next]_vars PROVE SendInv'  OBVIOUS
<1>1. Moves \/ ReadsLine \/ (\E m \in toClient : Takes(m)) \/ Closes \/ Resend \/ Server
  BY Steps DEF SendInv
<1>2. CASE Server
  <2>1. ASSUME NEW m \in toServer, ServerGets(m) PROVE SendInv'  BY <2>1, GetsInv
  <2>2. TypeOK /\ ConfirmsInv  BY DEF SendInv
  <2> QED  BY <1>2, <2>1, <2>2, ServerSpeaking, SpeaksInv DEF Server
<1> QED  BY <1>1, <1>2, MovesInv, LineInv, TakesInv, ClosesInv, ResendInv

LEMMA SendAlways == Spec => []SendInv
BY SendInit, SendStep, PTL DEF Spec

-----------------------------------------------------------------------------
(* The user's messages: stop-and-wait.                                     *)

\* How many of them the server has.
Held == IF setup_msg.op = "NONE" THEN 0
        ELSE IF setup_msg.messageID \in received THEN setup_msg.messageID + 1
        ELSE setup_msg.messageID

LEMMA ReceivedSize == SendInv => Cardinality(received) = Held
<1> SUFFICES ASSUME SendInv
             PROVE  Cardinality(received) = IF setup_msg.op = "NONE" THEN 0
                                            ELSE IF setup_msg.messageID \in received
                                            THEN setup_msg.messageID + 1 ELSE setup_msg.messageID
  BY DEF Held
<1> DEFINE last == setup_msg.messageID
<1>1. last \in Nat  BY LastId DEF SendInv
<1>2. CASE setup_msg.op = "NONE"
  <2>1. received = {}  BY <1>2 DEF SendInv, Counted
  <2> QED  BY <1>2, <2>1, FS_EmptySet
<1>3. CASE setup_msg.op # "NONE"
  <2>1. received \subseteq 0 .. last /\ \A id \in 0 .. last - 1 : id \in received
    BY <1>3 DEF SendInv, Counted
  <2> HIDE DEF last
  <2>2. CASE last \in received
    <3>1. \A id \in 0 .. last : id \in 0 .. last - 1 \/ id = last  BY <1>1
    <3>2. received = 0 .. last  BY <2>1, <2>2, <3>1
    <3>3. Cardinality(0 .. last) = last + 1  BY <1>1, FS_Interval
    <3> QED  BY <1>3, <2>2, <3>2, <3>3 DEF last
  <2>3. CASE last \notin received
    <3>1. \A id \in 0 .. last : id = last \/ id \in 0 .. last - 1  BY <1>1
    <3>2. received = 0 .. last - 1  BY <2>1, <2>3, <3>1
    <3>3. Cardinality(0 .. last - 1) = last
      <4>1. Cardinality(0 .. last - 1) = IF 0 > last - 1 THEN 0 ELSE (last - 1) - 0 + 1
        BY <1>1, FS_Interval
      <4> QED  BY <1>1, <4>1
    <3> QED  BY <1>3, <2>3, <3>2, <3>3 DEF last
  <2> QED  BY <2>2, <2>3
<1> QED  BY <1>2, <1>3

LEMMA ReceivedSizeNext == (SendInv => Cardinality(received) = Held)'
BY ReceivedSize, PTL

\* The last message is set up when there is none outstanding.
LEMMA SubmitStep ==
  ASSUME SendInv, SendInv', NEW op \in {"AUTH", "JOIN", "MSG", "BYE"}, SetUp(op), ReadsLine
  PROVE  Transport!Submit
<1> DEFINE last == setup_msg.messageID
<1>1. /\ pc = "stdin" /\ received' = received
      /\ setup_msg' = [op |-> op, messageID |-> messageID]
  BY DEF SetUp, ReadsLine, serverVars
<1>2. Attends /\ messageConfirmed  BY <1>1 DEF SendInv, ReadsUnlocked, Unlocked, Attends
<1>3. /\ messageID = IF setup_msg.op = "NONE" THEN 0 ELSE last + 1
      /\ setup_msg.op # "NONE" => last \in received
  BY <1>2 DEF SendInv, Counted
<1>4. Cardinality(received) = IF setup_msg.op = "NONE" THEN 0 ELSE last + 1
  BY <1>3, ReceivedSize DEF Held
<1>5. setup_msg'.op # "NONE" /\ setup_msg'.messageID = messageID  BY <1>1
<1> QED  BY <1>1, <1>3, <1>4, <1>5 DEF Transport!Submit

\* A message arrives: it is the outstanding one, or has arrived before.
LEMMA ArriveStep ==
  ASSUME SendInv, SendInv', NEW m, ServerGets(m)
  PROVE  Transport!Arrive \/ UNCHANGED <<setup_msg, received>>
<1> DEFINE last == setup_msg.messageID
<1>1. /\ setup_msg' = setup_msg /\ m \in toServer /\ m.op # "CONFIRM"
      /\ received' = received \cup ({m.of} \ {-1})
  BY ServerLeaves DEF ServerGets, ClientSame
<1>2. CASE received' = received  BY <1>1, <1>2
<1>3. CASE received' # received
  <2>1. m.of # -1 /\ m.of \notin received /\ m.of \in received'  BY <1>1, <1>3
  <2>2. setup_msg.op # "NONE"  BY <1>1, <2>1 DEF SendInv, ToServerInv
  <2>3. /\ received' \subseteq 0 .. last /\ \A id \in 0 .. last - 1 : id \in received
        /\ last \in Nat
    BY <1>1, <2>2, LastId DEF SendInv, Counted
  <2>4. m.of = last
    <3> HIDE DEF last
    <3>1. m.of \in 0 .. last /\ m.of \notin 0 .. last - 1  BY <2>1, <2>3
    <3> QED  BY <2>3, <3>1
  <2>5. Cardinality(received) = last  BY <2>1, <2>2, <2>4, ReceivedSize DEF Held
  <2>6. Cardinality(received') = last + 1
    <3>1. Cardinality(received') = IF setup_msg'.op = "NONE" THEN 0
                                   ELSE IF setup_msg'.messageID \in received'
                                        THEN setup_msg'.messageID + 1 ELSE setup_msg'.messageID
      BY ReceivedSizeNext DEF Held
    <3> QED  BY <1>1, <2>1, <2>2, <2>4, <3>1
  <2> QED  BY <1>1, <2>2, <2>3, <2>5, <2>6 DEF Transport!Arrive
<1> QED  BY <1>2, <1>3

LEMMA TransportStep ==
  SendInv /\ SendInv' /\ [Next]_vars =>
    [Transport!Submit \/ Transport!Arrive]_Transport!abstractVars
<1> SUFFICES ASSUME SendInv, SendInv', [Next]_vars
             PROVE  Transport!Submit \/ Transport!Arrive \/ UNCHANGED <<setup_msg, received>>
  BY DEF Transport!abstractVars
<1>1. Moves \/ ReadsLine \/ (\E m \in toClient : Takes(m)) \/ Closes \/ Resend \/ Server
  BY Steps DEF SendInv
<1>2. CASE ReadsLine
  <2>1. CASE \E op \in {"AUTH", "JOIN", "MSG", "BYE"} : SetUp(op)  BY <1>2, <2>1, SubmitStep
  <2>2. CASE UNCHANGED setup_msg  BY <1>2, <2>2 DEF ReadsLine, serverVars
  <2> QED  BY <1>2, <2>1, <2>2 DEF ReadsLine
<1>3. CASE Server
  <2>1. ASSUME NEW m \in toServer, ServerGets(m)
        PROVE  Transport!Submit \/ Transport!Arrive \/ UNCHANGED <<setup_msg, received>>
    BY <2>1, ArriveStep
  <2>2. CASE Speaks  BY <2>2 DEF Speaks, ClientSame
  <2> QED  BY <1>3, <2>1, <2>2, ServerSpeaking DEF Server, SendInv
<1>4. CASE Moves  BY <1>4 DEF Moves, sendVars, serverVars
<1>5. CASE \E m \in toClient : Takes(m)  BY <1>5 DEF Takes, serverVars
<1>6. CASE Closes  BY <1>6 DEF Closes, serverVars
<1>7. CASE Resend  BY <1>7 DEF Resend, serverVars
<1> QED  BY <1>1, <1>2, <1>3, <1>4, <1>5, <1>6, <1>7

-----------------------------------------------------------------------------
(* The theorems of the first layer.                                        *)

\* The counters of the client stay within their widths and limits, and what is
\* on its way are datagrams of the protocol (udp.c, proj1).
THEOREM TypeCorrect == Spec => []TypeOK
<1>1. SendInv => TypeOK  BY DEF SendInv
<1> QED  BY <1>1, SendAlways, PTL

\* messageConfirmed tells the truth whatever late, repeated or lost datagrams
\* there are, for as long as the client runs: the ids do not come round, for the
\* first one it cannot recognise is never confirmed (udp.c:273).
THEOREM ConfirmedHolds == Spec => []ConfirmedMeansDelivered
<1>1. SendInv => ConfirmedMeansDelivered  BY DEF SendInv, Counted, ConfirmedMeansDelivered
<1> QED  BY <1>1, SendAlways, PTL

\* The client implements the stop-and-wait sender: a message of the user is set
\* up only when the last one has arrived, and every one that arrives is the
\* outstanding one or has arrived before.
THEOREM InOrderHolds == Spec => InOrder
<1>1. Init => Transport!AbstractInit
  BY FS_EmptySet DEF Init, Transport!AbstractInit
<1> QED  BY <1>1, TransportStep, SendAlways, PTL DEF Spec, InOrder, Transport!StopAndWaitSpec

-----------------------------------------------------------------------------
(* Who is accepted: the second layer is kept.                              *)

\* A step of the client after which it is in state OPEN, or has sent a JOIN, only
\* if the server has accepted it.
LEMMA AcceptedClient ==
  ASSUME AcceptedInv, UNCHANGED <<owed, pending, accepted>>, toClient' \subseteq toClient,
         present_state' = "OPEN" => accepted, setup_msg'.op = "JOIN" => accepted,
         \A m \in toServer' : m \in toServer \/ (m.op = "JOIN" => accepted)
  PROVE  AcceptedInv'
BY DEF AcceptedInv

LEMMA AcceptedGets ==
  ASSUME SendInv, AcceptedInv, NEW m, ServerGets(m)
  PROVE  AcceptedInv'
<1>1. /\ ClientSame /\ UNCHANGED <<pending, accepted>> /\ m \in toServer
      /\ toServer' \subseteq toServer /\ toClient' \subseteq toClient \cup {Confirm(m.id)}
      /\ \/ owed' = owed
         \/ owed' = owed \cup {[op |-> m.op, id |-> m.id]}
  BY TakenProperties, DeliverProperties, ServerLeaves DEF ServerGets
<1>2. Confirm(m.id).op = "CONFIRM"  BY DEF Confirm
<1> HIDE DEF Confirm
<1>3. \A r \in owed' : r \in owed \/ r.op = m.op  BY <1>1
<1>4. \A c \in toClient' \cup pending' : c \in toClient \cup pending \/ c.op = "CONFIRM"
  BY <1>1, <1>2
<1>5. UNCHANGED <<present_state, setup_msg>>  BY <1>1 DEF ClientSame
<1> QED  BY <1>1, <1>3, <1>4, <1>5 DEF AcceptedInv

LEMMA AcceptedReplies ==
  ASSUME SendInv, AcceptedInv, NEW r \in owed, NEW ok \in BOOLEAN, ServerReplies(r, ok)
  PROVE  AcceptedInv'
<1> DEFINE m == [op |-> "REPLY", id |-> nextID, ref |-> r.id, ok |-> ok]
<1>1. /\ Deliver({m}) /\ pending' = pending \cup {m} /\ owed' = owed \ {r}
      /\ accepted' = (accepted \/ (ok /\ r.op = "AUTH"))
      /\ ClientSame /\ UNCHANGED toServer
  BY ServerLeaves DEF ServerReplies
<1>2. m.ok = ok /\ r.op \in {"AUTH", "JOIN"} /\ accepted \in BOOLEAN
  BY DEF SendInv, TypeOK
<1> HIDE DEF m
<1>3. toClient' \subseteq toClient \cup {m}  BY <1>1, DeliverProperties
<1>4. (accepted => accepted') /\ (ok => accepted')
  <2>1. r.op = "JOIN" => accepted  BY DEF AcceptedInv
  <2> QED  BY <1>1, <1>2, <2>1
<1>5. UNCHANGED <<present_state, setup_msg>>  BY <1>1 DEF ClientSame
<1> QED  BY <1>1, <1>2, <1>3, <1>4, <1>5 DEF AcceptedInv

LEMMA AcceptedSame ==
  ASSUME AcceptedInv, ClientSame, UNCHANGED <<owed, accepted>>, toServer' \subseteq toServer,
         \A m \in toClient' \cup pending' : m \in toClient \cup pending \/ m.op # "REPLY"
  PROVE  AcceptedInv'
<1>1. UNCHANGED <<present_state, setup_msg>>  BY DEF ClientSame
<1> QED  BY <1>1 DEF AcceptedInv

LEMMA AcceptedInit == Init => AcceptedInv
BY DEF Init, AcceptedInv

LEMMA AcceptedStep == SendInv /\ AcceptedInv /\ [Next]_vars => AcceptedInv'
<1> SUFFICES ASSUME SendInv, AcceptedInv, [Next]_vars PROVE AcceptedInv'  OBVIOUS
<1>1. Moves \/ ReadsLine \/ (\E m \in toClient : Takes(m)) \/ Closes \/ Resend \/ Server
  BY Steps DEF SendInv
<1>2. (present_state = "OPEN" \/ setup_msg.op = "JOIN") => accepted  BY DEF AcceptedInv
<1>3. CASE Moves
  <2>1. /\ UNCHANGED <<owed, pending, accepted, toServer, toClient, setup_msg>>
        /\ present_state' = "OPEN" => present_state = "OPEN"
    BY <1>3 DEF Moves, sendVars, serverVars
  <2> QED  BY <1>2, <2>1, AcceptedClient
<1>4. CASE ReadsLine
  <2>1. /\ UNCHANGED <<owed, pending, accepted, toClient>>
        /\ present_state' = "OPEN" => present_state = "OPEN"
    BY <1>4 DEF ReadsLine, serverVars
  <2>2. ASSUME NEW op \in {"AUTH", "JOIN", "MSG", "BYE"}, SetUp(op),
               op = "JOIN" => present_state = "OPEN"
        PROVE  AcceptedInv'
    <3>1. setup_msg'.op = op  BY <2>2 DEF SetUp
    <3>2. toServer' \subseteq toServer \cup {UserMsg(op, messageID)} /\ UserMsg(op, messageID).op = op
      BY <2>2, EmitProperties DEF SetUp, UserMsg
    <3> QED  BY <1>2, <2>1, <2>2, <3>1, <3>2, AcceptedClient
  <2>3. CASE UNCHANGED <<setup_msg, toServer>>
    BY <1>2, <2>1, <2>3, AcceptedClient
  <2> QED  BY <1>4, <2>2, <2>3 DEF ReadsLine
<1>5. ASSUME NEW m \in toClient, Takes(m) PROVE AcceptedInv'
  <2>1. /\ UNCHANGED <<owed, pending, accepted, setup_msg>> /\ toClient' \subseteq toClient
        /\ present_state' = "OPEN" => present_state = "OPEN" \/ (m.op = "REPLY" /\ m.ok)
        /\ \A x \in toServer' : x \in toServer \/ x.op \in {"CONFIRM", "ERR", "BYE"}
    BY <1>5 DEF Takes, serverVars
  <2>2. m.op = "REPLY" /\ m.ok => accepted  BY DEF AcceptedInv
  <2> QED  BY <1>2, <2>1, <2>2, AcceptedClient
<1>6. CASE Closes
  <2>1. /\ UNCHANGED <<owed, pending, accepted, setup_msg, present_state, toClient>>
        /\ toServer' \subseteq toServer \cup {send_bye(messageID')}
        /\ send_bye(messageID').op = "BYE"
    BY <1>6 DEF Closes, serverVars, send_bye
  <2> QED  BY <1>2, <2>1, AcceptedClient
<1>7. CASE Resend
  <2> DEFINE d == UserMsg(setup_msg.op, setup_msg.messageID)
  <2>1. UNCHANGED <<owed, pending, accepted, setup_msg, present_state, toClient>> /\ Emit({d})
    BY <1>7 DEF Resend, serverVars
  <2>2. d.op = setup_msg.op  BY DEF UserMsg
  <2>3. toServer' \subseteq toServer \cup {d}  BY <2>1, EmitProperties
  <2> QED  BY <1>2, <2>1, <2>2, <2>3, AcceptedClient
<1>8. CASE Server
  <2>1. ASSUME NEW m \in toServer, ServerConfirmed(m) PROVE AcceptedInv'
    <3>1. /\ ClientSame /\ toServer' \subseteq toServer /\ pending' \subseteq pending
          /\ UNCHANGED <<toClient, owed, accepted>>
      BY <2>1, ServerLeaves DEF ServerConfirmed
    <3> QED  BY <3>1, AcceptedSame
  <2>2. ASSUME NEW m \in pending, ServerResends(m) PROVE AcceptedInv'
    <3>1. toClient' \subseteq toClient \cup {m} /\ ClientSame
          /\ UNCHANGED <<toServer, owed, pending, accepted>>
      BY <2>2, DeliverProperties, ServerLeaves DEF ServerResends, serverVars
    <3> QED  BY <3>1, AcceptedSame
  <2>3. ASSUME NEW op \in Says, ServerSpeaks(op) PROVE AcceptedInv'
    <3> DEFINE m == [op |-> op, id |-> nextID, ref |-> 0, ok |-> FALSE]
    <3>1. Deliver({m}) /\ ClientSame /\ UNCHANGED <<toServer, owed, pending, accepted>>
      BY <2>3, ServerLeaves DEF ServerSpeaks
    <3>2. m.op # "REPLY"  BY ClientAssumption DEF ServerSays
    <3> HIDE DEF m
    <3>3. toClient' \subseteq toClient \cup {m}  BY <3>1, DeliverProperties
    <3> QED  BY <3>1, <3>2, <3>3, AcceptedSame
  <2> QED  BY <1>8, <2>1, <2>2, <2>3, AcceptedGets, AcceptedReplies DEF Server
<1> QED  BY <1>1, <1>3, <1>4, <1>5, <1>6, <1>7, <1>8

\* In state OPEN the server has accepted the user, whichever REPLYs are lost, late
\* or repeated: a positive REPLY to a JOIN opens too, but only who was accepted has
\* sent one (udp.c:281-299).
THEOREM OpenHolds == Spec => []OpenMeansAccepted
<1>1. AcceptedInv => OpenMeansAccepted  BY DEF AcceptedInv, OpenMeansAccepted
<1>2. Spec => []AcceptedInv  BY AcceptedInit, AcceptedStep, SendAlways, PTL DEF Spec
<1> QED  BY <1>1, <1>2, PTL

-----------------------------------------------------------------------------
(* Requests and their REPLYs: the third layer is kept where no REPLY comes *)
(* twice.                                                                  *)

\* Steps that change nothing of the requests: no message of the user is sent, no
\* REPLY either.
LEMMA RequestsSame ==
  ASSUME ReplyInv, UNCHANGED <<setup_msg, received, owed, seen>>,
         \A c \in toClient' : c.op = "REPLY" => c \in toClient,
         \A x \in toServer' : x \in toServer \/ (x.of = -1 /\ x.op \notin Request)
  PROVE  RequestsInv' /\ RepliesInv' /\ \A id : Comes(id)' => Comes(id)
<1>1. RequestsInv'  BY DEF ReplyInv, RequestsInv
<1>2. ASSUME NEW id, Comes(id)' PROVE Comes(id)  BY <1>2 DEF Comes
<1>3. RepliesInv'
  <2>1. \A r \in owed' : r.id \in seen' /\ ~Comes(r.id)'  BY <1>2 DEF ReplyInv, RepliesInv
  <2> QED  BY <2>1 DEF ReplyInv, RepliesInv
<1> QED  BY <1>1, <1>2, <1>3

LEMMA WaitsSame ==
  ASSUME WaitsInv, UNCHANGED <<setup_msg, sent_opcode, replied, messageConfirmed, needReply, owed, seen>>,
         \A id \in WireIds : Comes(id)' => Comes(id)
  PROVE  WaitsInv'
BY DEF WaitsInv, Owed

LEMMA ReplyLine ==
  ASSUME SendInv, ReplyInv, ReadsLine
  PROVE  ReplyInv'
<1>1. /\ UNCHANGED <<toClient, received, owed, seen>> /\ pc = "stdin"
  BY DEF ReadsLine, serverVars
<1>2. Attends /\ messageConfirmed /\ ~needReply /\ TypeOK
  BY <1>1 DEF SendInv, ReadsUnlocked, Unlocked, Attends
<1>3. setup_msg.op \in Request => replied  BY <1>2 DEF ReplyInv, WaitsInv
<1>4. ASSUME NEW op \in {"AUTH", "JOIN", "MSG", "BYE"}, SetUp(op)
      PROVE  ReplyInv'
  <2> DEFINE last == setup_msg.messageID
             new == IF setup_msg.op = "NONE" THEN 0 ELSE last + 1
             d == UserMsg(op, new)
  <2>1. /\ last \in Nat /\ messageID = new
        /\ setup_msg.op = "NONE" => received = {}
        /\ setup_msg.op # "NONE" => received \subseteq 0 .. last
    BY <1>2, LastId DEF SendInv, Counted
  <2>2. /\ setup_msg'.op = op /\ setup_msg'.messageID = new /\ sent_opcode' = op
        /\ messageConfirmed' = FALSE /\ replied' = FALSE
    BY <1>4, <2>1 DEF SetUp
  <2>3. toServer' \subseteq toServer \cup {d}
    BY <1>4, <2>1, EmitProperties DEF SetUp
  <2>4. d.op = op /\ d.of = new  BY DEF UserMsg
  <2> HIDE DEF d
  <2>5. new \in Nat /\ (setup_msg.op # "NONE" => new = last + 1)  BY <2>1
  <2> HIDE DEF new
  <2>6. \A m \in toServer : m.of # -1 => m.of \in Nat /\ m.of < new
    <3> SUFFICES ASSUME NEW m \in toServer, m.of # -1 PROVE m.of \in Nat /\ m.of < new  OBVIOUS
    <3>1. m.of \in Ids  BY <1>2 DEF TypeOK, Sent
    <3>2. m.of \in Nat  BY <3>1 DEF Ids
    <3>3. setup_msg.op # "NONE" /\ m.of <= last  BY DEF SendInv, ToServerInv
    <3> HIDE DEF last
    <3> QED  BY <2>1, <2>5, <3>2, <3>3
  <2>7. \A id \in received : id < new
    <3> HIDE DEF last
    <3>1. CASE setup_msg.op = "NONE"  BY <2>1, <3>1
    <3>2. CASE setup_msg.op # "NONE"  BY <2>1, <2>5, <3>2
    <3> QED  BY <3>1, <3>2
  <2>8. \A id \in seen : id \in Nat /\ id < new
    <3> SUFFICES ASSUME NEW id \in seen PROVE id \in Nat /\ id < new  OBVIOUS
    <3>1. id \in Nat  BY <1>2, IdTypes DEF TypeOK
    <3>2. setup_msg.op # "NONE" /\ id <= last  BY DEF ReplyInv, RequestsInv
    <3> HIDE DEF last
    <3> QED  BY <2>1, <2>5, <3>1, <3>2
  <2>9. RequestsInv'
    <3>1. \A m \in toServer' : m.of # -1 /\ m.of = new => m.op = op
      BY <2>3, <2>4, <2>5, <2>6
    <3>2. \A m, n \in toServer' : m.of = n.of /\ m.of # -1 => m.op = n.op
      <4> SUFFICES ASSUME NEW m \in toServer', NEW n \in toServer', m.of = n.of, m.of # -1
                   PROVE  m.op = n.op
        OBVIOUS
      <4>1. CASE m.of = new  BY <3>1, <4>1
      <4>2. CASE m.of # new  BY <2>3, <2>4, <4>2 DEF ReplyInv, RequestsInv
      <4> QED  BY <4>1, <4>2
    <3>3. ASSUME NEW m \in toServer', m.op \in Request, m.of \in received' PROVE m.id \in seen'
      <4>1. m.of # new  BY <1>1, <2>5, <2>7, <3>3
      <4> QED  BY <1>1, <2>3, <2>4, <3>3, <4>1 DEF ReplyInv, RequestsInv
    <3>4. new \notin received'  BY <1>1, <2>5, <2>7
    <3>5. \A id \in seen' : id <= new /\ id # new  BY <1>1, <2>5, <2>8
    <3> QED  BY <2>2, <3>1, <3>2, <3>3, <3>4, <3>5 DEF RequestsInv
  <2>10. RepliesInv'  BY <1>1 DEF ReplyInv, RepliesInv, Comes
  <2>11. ASSUME NEW id \in WireIds, id < new PROVE ~Owed(id) /\ ~Comes(id)
    <3>1. id \in Nat /\ setup_msg.op # "NONE" /\ id <= last
      <4>1. id \in Nat  BY IdTypes
      <4>2. setup_msg.op = "NONE" => new = 0  BY DEF new
      <4>3. setup_msg.op # "NONE"  BY <2>11, <4>1, <4>2
      <4> HIDE DEF last
      <4> QED  BY <2>1, <2>5, <2>11, <4>1, <4>3
    <3>2. CASE id < last \/ replied
      <4>1. id < last \/ (id = last /\ replied)
        <5> HIDE DEF last
        <5> QED  BY <2>1, <3>1, <3>2
      <4> QED  BY <4>1 DEF ReplyInv, WaitsInv
    <3>3. CASE ~(id < last \/ replied)
      <4>1. id = last
        <5> HIDE DEF last
        <5> QED  BY <2>1, <3>1, <3>3
      <4>2. id \notin seen  BY <1>3, <3>3, <4>1 DEF ReplyInv, RequestsInv
      <4> QED  BY <4>2 DEF ReplyInv, RepliesInv, Owed, Comes
    <3> QED  BY <3>2, <3>3
  <2>12. WaitsInv'
    <3>1. \A id \in WireIds : (Owed(id)' <=> Owed(id)) /\ (Comes(id)' <=> Comes(id))
      BY <1>1 DEF Owed, Comes
    <3> QED  BY <2>2, <2>11, <3>1 DEF WaitsInv
  <2> QED  BY <2>9, <2>10, <2>12 DEF ReplyInv
<1>5. ASSUME UNCHANGED <<messageID, setup_msg, expired, replied, lockVars, toServer>>
      PROVE  ReplyInv'
  <2>1. RequestsInv' /\ RepliesInv'  BY <1>1, <1>5, RequestsSame
  <2>2. WaitsInv'
    <3>1. \A id \in WireIds : (Owed(id)' <=> Owed(id)) /\ (Comes(id)' <=> Comes(id))
      BY <1>1 DEF Owed, Comes
    <3> QED  BY <1>1, <1>3, <1>5, <3>1 DEF ReplyInv, WaitsInv
  <2> QED  BY <2>1, <2>2 DEF ReplyInv
<1> QED  BY <1>4, <1>5 DEF ReadsLine

LEMMA ReplyTakes ==
  ASSUME ~Duplicating, SendInv, ReplyInv, NEW m, Takes(m)
  PROVE  ReplyInv'
<1> DEFINE last == setup_msg.messageID
<1>1. /\ UNCHANGED <<setup_msg, sent_opcode, received, owed, seen>>
      /\ m \in toClient /\ toClient' = toClient \ {m}
      /\ \A x \in toServer' : x \in toServer \/ (x.of = -1 /\ x.op \notin Request)
  BY DEF Takes, serverVars, Request
<1>2. RequestsInv' /\ RepliesInv' /\ \A id : Comes(id)' => Comes(id)
  BY <1>1, RequestsSame
<1>3. \A id : Owed(id)' <=> Owed(id)  BY <1>1 DEF Owed
<1>4. CASE /\ m.op = "REPLY" /\ needReply' = FALSE /\ UNCHANGED <<messageConfirmed, conf>>
           /\ replied' = (replied \/ m.ref = Wire(setup_msg.messageID))
  <2>1. Wire(last) = last /\ last \in Nat /\ last \in Ids  BY LastId, IdTypes DEF SendInv
  <2>2. m.ref \in seen /\ Comes(m.ref) /\ m.ref \in WireIds
    <3>1. m.ref \in seen /\ seen \subseteq WireIds  BY <1>1, <1>4 DEF ReplyInv, RepliesInv, SendInv, TypeOK
    <3> QED  BY <1>1, <1>4, <3>1 DEF Comes
  <2>3. m.ref <= last /\ ~(m.ref < last) /\ m.ref \in Nat
    BY <2>2, IdTypes DEF ReplyInv, RequestsInv, WaitsInv
  <2>4. m.ref = last
    <3> HIDE DEF last
    <3> QED  BY <2>1, <2>3
  <2>5. replied' = TRUE  BY <1>4, <2>1, <2>4
  <2>6. ~Owed(last)  BY <2>2, <2>4 DEF ReplyInv, RepliesInv, Owed
  <2>7. \A id : id = last => ~Comes(id)'
    BY <1>1, <1>4, <2>4 DEF ReplyInv, RepliesInv, Comes
  <2>8. \A id \in WireIds : id < last => ~Owed(id) /\ ~Comes(id)
    BY DEF ReplyInv, WaitsInv
  <2>9. WaitsInv'
    <3>1. last \in seen'  BY <1>1, <2>2, <2>4
    <3>2. setup_msg'.messageID = last  BY <1>1
    <3>3. ASSUME NEW id \in WireIds, id < last \/ id = last PROVE ~Owed(id)' /\ ~Comes(id)'
      <4>1. CASE id = last  BY <1>3, <2>6, <2>7, <4>1
      <4>2. CASE id < last  BY <1>2, <1>3, <2>8, <4>2
      <4> QED  BY <3>3, <4>1, <4>2
    <3> HIDE DEF last
    <3> QED  BY <2>5, <3>1, <3>2, <3>3 DEF WaitsInv
  <2> QED  BY <1>2, <2>9 DEF ReplyInv
<1>5. CASE needReply' = (needReply \/ MustWait) /\ UNCHANGED replied
  <2>1. setup_msg.op \in Request /\ ~replied => MustWait
    BY DEF ReplyInv, WaitsInv, MustWait, Request
  <2>2. setup_msg.op \in Request /\ ~replied => needReply' = TRUE  BY <1>5, <2>1
  <2>3. setup_msg.op \in Request /\ ~replied => sent_opcode = setup_msg.op
    BY DEF ReplyInv, WaitsInv
  <2>4. WaitsInv'
    <3>1. setup_msg'.op \in Request =>
            replied' \/ (sent_opcode' = setup_msg'.op /\ (messageConfirmed' => needReply'))
      BY <1>1, <1>5, <2>2, <2>3
    <3>2. replied' => setup_msg'.messageID \in seen'
      BY <1>1, <1>5 DEF ReplyInv, WaitsInv
    <3>3. ASSUME NEW id \in WireIds, id < last \/ (id = last /\ replied)
          PROVE  ~Owed(id)' /\ ~Comes(id)'
      <4>1. ~Owed(id) /\ ~Comes(id)  BY <3>3 DEF ReplyInv, WaitsInv
      <4> QED  BY <1>2, <1>3, <4>1
    <3> QED  BY <1>1, <1>5, <3>1, <3>2, <3>3 DEF WaitsInv
  <2> QED  BY <1>2, <2>4 DEF ReplyInv
<1> QED  BY <1>4, <1>5 DEF Takes

LEMMA ReplyResend ==
  ASSUME SendInv, ReplyInv, Resend
  PROVE  ReplyInv'
<1> DEFINE d == UserMsg(setup_msg.op, setup_msg.messageID)
<1>1. /\ UNCHANGED <<setup_msg, sent_opcode, replied, messageConfirmed, needReply, toClient,
                     received, owed, seen>>
      /\ ~messageConfirmed /\ Emit({d})
  BY DEF Resend, CanResend, lockVars, serverVars
<1>2. toServer' \subseteq toServer \cup {d}  BY <1>1, EmitProperties
<1>3. d.op = setup_msg.op /\ d.of = setup_msg.messageID
      /\ (d.op \in Request => d.id = setup_msg.messageID)
  <2>1. Wire(setup_msg.messageID) = setup_msg.messageID  BY LastId, IdTypes DEF SendInv
  <2> QED  BY <2>1 DEF UserMsg, Request
<1> HIDE DEF d
<1>4. RequestsInv'  BY <1>1, <1>2, <1>3 DEF ReplyInv, RequestsInv
<1>5. RepliesInv'  BY <1>1 DEF ReplyInv, RepliesInv, Comes
<1>6. WaitsInv'
  <2>1. \A id \in WireIds : Comes(id)' => Comes(id)  BY <1>1 DEF Comes
  <2> QED  BY <1>1, <2>1, WaitsSame DEF ReplyInv
<1> QED  BY <1>4, <1>5, <1>6 DEF ReplyInv

\* Any other step of the client, and those of the server that are about no request.
LEMMA ReplySame ==
  ASSUME ReplyInv, UNCHANGED <<setup_msg, sent_opcode, replied, messageConfirmed, needReply,
                               received, owed, seen>>,
         \A c \in toClient' : c.op = "REPLY" => c \in toClient,
         \A x \in toServer' : x \in toServer \/ (x.of = -1 /\ x.op \notin Request)
  PROVE  ReplyInv'
<1>1. RequestsInv' /\ RepliesInv' /\ \A id : Comes(id)' => Comes(id)
  BY RequestsSame
<1> QED  BY <1>1, WaitsSame DEF ReplyInv

\* The server gets a message.  A request is owed a REPLY when it comes for the
\* first time; it is then the last one, for the server has all before it.
LEMMA ReplyGets ==
  ASSUME SendInv, ReplyInv, NEW m, ServerGets(m)
  PROVE  ReplyInv'
<1> DEFINE last == setup_msg.messageID
           new  == [op |-> m.op, id |-> m.id]
           first == m.op \in Request /\ m.id \notin seen
<1>1. /\ ClientSame /\ m \in toServer /\ m.op # "CONFIRM" /\ toServer' \subseteq toServer
      /\ toClient' \subseteq toClient \cup {Confirm(m.id)}
      /\ received' = received \cup ({m.of} \ {-1})
      /\ seen' = IF first THEN seen \cup {m.id} ELSE seen
      /\ owed' = IF first THEN owed \cup {new} ELSE owed
  BY TakenProperties, DeliverProperties, ServerLeaves DEF ServerGets, Request
<1>2. Confirm(m.id).op # "REPLY"  BY DEF Confirm
<1> HIDE DEF Confirm
<1>3. UNCHANGED <<setup_msg, sent_opcode, replied, messageConfirmed, needReply>>
  BY <1>1 DEF ClientSame
<1>4. \A c \in toClient' : c.op = "REPLY" => c \in toClient  BY <1>1, <1>2
<1>5. \A id : Comes(id)' => Comes(id)  BY <1>4 DEF Comes
<1>6. \A n \in toServer : n.op \in Request =>
        n.of # -1 /\ setup_msg.op # "NONE" /\ n.of <= last /\ n.id = n.of /\ n.id \in WireIds
  BY DEF SendInv, ToServerInv, Request
<1>7. last \in Nat /\ WireIds \subseteq Nat /\ seen \subseteq WireIds
  BY LastId, IdTypes DEF SendInv, TypeOK
<1>8. m.op \in Request => m.id \in seen'  BY <1>1
<1>9. seen \subseteq seen' /\ \A id \in seen' : id \in seen \/ (first /\ id = m.id)
  BY <1>1
<1>10. new.id = m.id  OBVIOUS
<1> HIDE DEF new
<1>11. RequestsInv'
  <2>1. ASSUME NEW n \in toServer', n.op \in Request, n.of \in received' PROVE n.id \in seen'
    <3>1. n \in toServer /\ n.of # -1 /\ n.id = n.of  BY <1>1, <1>6, <2>1
    <3>2. CASE n.of \in received  BY <1>9, <2>1, <3>1, <3>2 DEF ReplyInv, RequestsInv
    <3>3. CASE n.of = m.of
      <4>1. m.op = n.op  BY <1>1, <3>1, <3>3 DEF ReplyInv, RequestsInv
      <4>2. m.id = n.id  BY <1>1, <1>6, <2>1, <3>1, <3>3, <4>1
      <4> QED  BY <1>8, <2>1, <4>1, <4>2
    <3> QED  BY <1>1, <2>1, <3>2, <3>3
  <2>2. ASSUME setup_msg.op \in Request, last \in received' PROVE last \in seen'
    <3>1. CASE last \in received  BY <1>9, <2>2, <3>1 DEF ReplyInv, RequestsInv
    <3>2. CASE last = m.of
      <4>1. m.of # -1 /\ m.op = setup_msg.op
        <5>1. m.of # -1  BY <1>1, <1>7, <3>2
        <5> QED  BY <1>1, <3>2, <5>1 DEF ReplyInv, RequestsInv
      <4>2. m.id = last  BY <1>1, <1>6, <2>2, <3>2, <4>1
      <4> QED  BY <1>8, <2>2, <4>1, <4>2
    <3> QED  BY <1>1, <2>2, <3>1, <3>2
  <2>3. ASSUME NEW id \in seen'
        PROVE  setup_msg.op # "NONE" /\ id <= last /\ (id = last => setup_msg.op \in Request)
    <3>1. CASE id \in seen  BY <3>1 DEF ReplyInv, RequestsInv
    <3>2. CASE first /\ id = m.id
      <4>1. setup_msg.op # "NONE" /\ m.of <= last /\ m.id = m.of /\ m.of # -1 /\ m.op \in Request
        BY <1>1, <1>6, <3>2
      <4>2. m.of = last => m.op = setup_msg.op  BY <1>1, <4>1 DEF ReplyInv, RequestsInv
      <4> QED  BY <3>2, <4>1, <4>2
    <3> QED  BY <1>9, <3>1, <3>2
  <2>4. /\ \A n \in toServer' : n.of # -1 /\ n.of = last => n.op = setup_msg.op
        /\ \A n, k \in toServer' : n.of = k.of /\ n.of # -1 => n.op = k.op
    BY <1>1 DEF ReplyInv, RequestsInv
  <2> QED  BY <1>3, <2>1, <2>2, <2>3, <2>4 DEF RequestsInv
<1>12. first => \A r \in owed : r.id # m.id  BY DEF ReplyInv, RepliesInv
<1>13. first => ~Comes(m.id)  BY DEF ReplyInv, RepliesInv, Comes
<1>14. RepliesInv'
  <2>1. ASSUME NEW r \in owed' PROVE r.id \in seen' /\ ~Comes(r.id)'
    <3>1. CASE r \in owed  BY <1>5, <1>9, <3>1 DEF ReplyInv, RepliesInv
    <3>2. CASE first /\ r = new  BY <1>5, <1>8, <1>10, <1>13, <3>2
    <3> QED  BY <1>1, <2>1, <3>1, <3>2
  <2>2. \A r, s \in owed' : r.id = s.id => r = s
    BY <1>1, <1>10, <1>12 DEF ReplyInv, RepliesInv
  <2>3. /\ \A n \in toClient' : n.op = "REPLY" => n.ref \in seen'
        /\ \A n, k \in toClient' : n.op = "REPLY" /\ k.op = "REPLY" /\ n.ref = k.ref => n = k
    BY <1>4, <1>9 DEF ReplyInv, RepliesInv
  <2> QED  BY <2>1, <2>2, <2>3 DEF RepliesInv
<1>15. WaitsInv'
  <2>1. ASSUME NEW id \in WireIds, id < last \/ (id = last /\ replied), Owed(id)' PROVE FALSE
    <3>1. ~Owed(id)  BY <2>1 DEF ReplyInv, WaitsInv
    <3>2. first /\ id = m.id  BY <1>1, <1>10, <2>1, <3>1 DEF Owed
    <3>3. setup_msg.op # "NONE" /\ m.id = m.of /\ m.op \in Request  BY <1>1, <1>6, <3>2
    <3>4. id < last
      <4>1. replied => last \in seen  BY DEF ReplyInv, WaitsInv
      <4> QED  BY <2>1, <3>2, <4>1
    <3>5. id \in 0 .. last - 1
      <4> HIDE DEF last
      <4> QED  BY <1>7, <2>1, <3>4
    <3>6. m.of \in received  BY <3>2, <3>3, <3>5 DEF SendInv, Counted
    <3> QED  BY <1>1, <3>2, <3>3, <3>6 DEF ReplyInv, RequestsInv
  <2>2. ASSUME NEW id \in WireIds, id < last \/ (id = last /\ replied) PROVE ~Comes(id)'
    BY <1>5, <2>2 DEF ReplyInv, WaitsInv
  <2>3. /\ setup_msg.op \in Request =>
             replied \/ (sent_opcode = setup_msg.op /\ (messageConfirmed => needReply))
        /\ replied => last \in seen'
    BY <1>9 DEF ReplyInv, WaitsInv
  <2> QED  BY <1>3, <2>1, <2>2, <2>3 DEF WaitsInv
<1> QED  BY <1>11, <1>14, <1>15 DEF ReplyInv

\* The one REPLY to a request.
LEMMA ReplyReplies ==
  ASSUME SendInv, ReplyInv, NEW r \in owed, NEW ok \in BOOLEAN, ServerReplies(r, ok)
  PROVE  ReplyInv'
<1> DEFINE m == [op |-> "REPLY", id |-> nextID, ref |-> r.id, ok |-> ok]
<1>1. /\ Deliver({m}) /\ owed' = owed \ {r}
      /\ ClientSame /\ UNCHANGED <<toServer, received, seen>>
  BY ServerLeaves DEF ServerReplies
<1>2. m.op = "REPLY" /\ m.ref = r.id  OBVIOUS
<1> HIDE DEF m
<1>3. toClient' \subseteq toClient \cup {m}  BY <1>1, DeliverProperties
<1>4. UNCHANGED <<setup_msg, sent_opcode, replied, messageConfirmed, needReply>>
  BY <1>1 DEF ClientSame
<1>5. r.id \in seen /\ ~Comes(r.id) /\ Owed(r.id) /\ \A s \in owed' : s.id # r.id /\ s \in owed
  BY <1>1 DEF ReplyInv, RepliesInv, Owed
<1>6. \A id : (Comes(id)' => Comes(id) \/ id = r.id) /\ (Owed(id)' => Owed(id))
  BY <1>1, <1>2, <1>3 DEF Comes, Owed
<1>7. RequestsInv'  BY <1>1, <1>4 DEF ReplyInv, RequestsInv
<1>8. RepliesInv'
  <2>1. \A s \in owed' : s.id \in seen' /\ ~Comes(s.id)'
    BY <1>1, <1>5, <1>6 DEF ReplyInv, RepliesInv
  <2>2. \A s, k \in owed' : s.id = k.id => s = k  BY <1>5 DEF ReplyInv, RepliesInv
  <2>3. \A n \in toClient' : n.op = "REPLY" => n.ref \in seen'
    BY <1>1, <1>2, <1>3, <1>5 DEF ReplyInv, RepliesInv
  <2>4. \A n, k \in toClient' : n.op = "REPLY" /\ k.op = "REPLY" /\ n.ref = k.ref => n = k
    BY <1>2, <1>3, <1>5 DEF ReplyInv, RepliesInv, Comes
  <2> QED  BY <2>1, <2>2, <2>3, <2>4 DEF RepliesInv
<1>9. WaitsInv'  BY <1>1, <1>4, <1>5, <1>6 DEF ReplyInv, WaitsInv
<1> QED  BY <1>7, <1>8, <1>9 DEF ReplyInv

LEMMA ReplyInit == Init => ReplyInv
BY DEF Init, ReplyInv, RequestsInv, RepliesInv, WaitsInv, Owed, Comes, Request

LEMMA ReplyStep ==
  ASSUME ~Duplicating, ~Resends
  PROVE  SendInv /\ ReplyInv /\ [Next]_vars => ReplyInv'
<1> SUFFICES ASSUME SendInv, ReplyInv, [Next]_vars PROVE ReplyInv'  OBVIOUS
<1>1. Moves \/ ReadsLine \/ (\E m \in toClient : Takes(m)) \/ Closes \/ Resend \/ Server
  BY Steps DEF SendInv
<1>2. CASE Moves
  <2>1. UNCHANGED <<setup_msg, sent_opcode, replied, messageConfirmed, needReply,
                    received, owed, seen, toClient, toServer>>
    BY <1>2 DEF Moves, sendVars, lockVars, serverVars
  <2> QED  BY <2>1, ReplySame
<1>3. CASE Closes
  <2>1. UNCHANGED <<setup_msg, sent_opcode, replied, messageConfirmed, needReply,
                    received, owed, seen, toClient>>
    BY <1>3 DEF Closes, lockVars, serverVars
  <2>2. toServer' \subseteq toServer \cup {send_bye(messageID')}  BY <1>3 DEF Closes
  <2>3. send_bye(messageID').of = -1 /\ send_bye(messageID').op \notin Request
    BY DEF send_bye, Request
  <2> QED  BY <2>1, <2>2, <2>3, ReplySame
<1>4. CASE Server
  <2>1. ASSUME NEW m \in toServer, ServerConfirmed(m) PROVE ReplyInv'
    <3>1. ClientSame /\ toServer' \subseteq toServer /\ UNCHANGED <<toClient, received, owed, seen>>
      BY <2>1, ServerLeaves DEF ServerConfirmed
    <3> QED  BY <3>1, ReplySame DEF ClientSame
  <2>2. ASSUME NEW op \in Says, ServerSpeaks(op) PROVE ReplyInv'
    <3> DEFINE m == [op |-> op, id |-> nextID, ref |-> 0, ok |-> FALSE]
    <3>1. Deliver({m}) /\ ClientSame /\ UNCHANGED <<toServer, received, owed, seen>>
      BY <2>2, ServerLeaves DEF ServerSpeaks
    <3>2. m.op # "REPLY"  BY ClientAssumption DEF ServerSays
    <3> HIDE DEF m
    <3>3. toClient' \subseteq toClient \cup {m}  BY <3>1, DeliverProperties
    <3> QED  BY <3>1, <3>2, <3>3, ReplySame DEF ClientSame
  <2>3. \A m \in pending : ~ServerResends(m)  BY DEF ServerResends
  <2> QED  BY <1>4, <2>1, <2>2, <2>3, ReplyGets, ReplyReplies DEF Server
<1> QED  BY <1>1, <1>2, <1>3, <1>4, ReplyLine, ReplyTakes, ReplyResend

\* After AUTH or JOIN the user goes on only with the REPLY to it: if the server
\* says everything once and the network does not repeat it.  (A CONFIRM and a REPLY
\* to an earlier request that come again would do instead: the client does not
\* compare a REPLY with the request it waits for, only with the last CONFIRM.)
THEOREM ReplyHolds ==
  ASSUME ~Duplicating, ~Resends
  PROVE  Spec => []ReplyIsForRequest
<1>1. ReplyInv => ReplyIsForRequest
  BY DEF ReplyInv, WaitsInv, ReplyIsForRequest, Unlocked, Request
<1>2. Spec => []ReplyInv  BY ReplyInit, ReplyStep, SendAlways, PTL DEF Spec
<1> QED  BY <1>1, <1>2, PTL
=============================================================================
