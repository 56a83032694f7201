-------------------------- MODULE TcpSession_proof --------------------------
(***************************************************************************)
(* The two ends of a TCP session agree: TypeOK, RightReply and             *)
(* NeverRefused hold for any number of lines, whatever is merged, closed   *)
(* or interrupted.  They follow from SessionInv, which is inductive.       *)
(***************************************************************************)
EXTENDS TcpSession, SequenceTheorems, TLAPS

-----------------------------------------------------------------------------
(* The inductive invariant.                                                *)

Requests(s) == {i \in DOMAIN s : s[i].op \in {"AUTH", "JOIN"}}
Farewell    == {"BYE", "UNKNOWN", "ERR"}

\* At most one request or REPLY is under way: the one the client waits for.
OneUnderWay ==
  /\ \A i \in Requests(toServer) : toServer[i].n = asked /\ ~gotReply
  /\ \A i, j \in Requests(toServer) : i = j
  /\ \A i, j \in ToSend(todo) : i = j
  /\ \A i \in Requests(toServer) : \A j \in ToSend(todo) : FALSE
  /\ \A i \in Requests(toServer) : \A j \in Replies(toClient) : FALSE
  /\ \A i \in ToSend(todo) : \A j \in Replies(toClient) : FALSE
  /\ \A i \in Replies(toClient) : toClient[i].n = asked /\ ~gotReply
  /\ \A i \in ToSend(todo) : todo[i].msg.n = asked /\ ~gotReply
  /\ \A i, j \in Replies(toClient) : i = j

\* Where the client is in its loop, and what it knows there.
ClientLoopInv ==
  /\ pc = "stdin" => gotReply
  /\ pc = "socket" => ready
  /\ pc \in {"stdin", "socket"} /\ ready => toClient # << >> \/ ~Up
  /\ TCPpresent_state = "AUTH" => ~gotReply
  /\ TCPpresent_state = "END" => pc \in {"check", "socket", "done", "dead"}
  /\ asked + waiting + buffered <= typed

\* The two ends' states, and what is on its way between them.
Agree ==
  /\ TCPpresent_state # "AUTH_failed" /\ client_state # "AUTH_failed"
  /\ TCPpresent_state = "START" => gotReply /\ client_state = "ACCEPT" /\ (Over \/ toServer = << >>)
  /\ TCPpresent_state = "OPEN" => client_state = "OPEN"
  /\ client_state = "ACCEPT" =>
       /\ toClient = << >> /\ ~listed /\ TCPpresent_state \in {"START", "AUTH"}
       /\ \A i \in DOMAIN todo : todo[i].do \in {"remove", "quit"}
       /\ \A i \in DOMAIN toServer : toServer[i].op = "BYE" \/ (toServer[i].op = "AUTH" /\ i = 1)
  /\ client_state = "END" =>
       /\ TCPpresent_state = "END" /\ toServer = << >>
       /\ pc = "socket" => \/ toClient = << >> /\ ~Up
                           \/ toClient # << >> /\ toClient[1].op \notin {"ERR", "BYE"}

ToServerInv ==
  \A i \in DOMAIN toServer :
    /\ toServer[i].op = "AUTH" => client_state = "ACCEPT"
    /\ toServer[i].op \in {"JOIN", "MSG"} => client_state = "OPEN"
    /\ toServer[i].op = "JOIN" => TCPpresent_state \in {"OPEN", "END"}
    /\ toServer[i].op = "UNKNOWN" => TCPpresent_state = "END"
    /\ toServer[i].op \in Farewell => TCPpresent_state = "END" \/ Over
    /\ toServer[i].op \in Farewell /\ i < Len(toServer) => sigint

\* What the client is or will be told.
Told(m) ==
  /\ m.op = "ERR" => client_state = "END"
  /\ m.op = "BYE" => client_state = "END" \/ sigint
  /\ m.op = "REPLY" /\ ~m.ok => TCPpresent_state # "AUTH"

ToClientInv ==
  /\ \A i \in DOMAIN toClient : Told(toClient[i])
  /\ \A i \in DOMAIN todo : todo[i].do = "send" => Told(todo[i].msg)

SessionInv == TypeOK /\ OneUnderWay /\ ClientLoopInv /\ Agree /\ ToServerInv /\ ToClientInv

-----------------------------------------------------------------------------
(* Streams.                                                                *)

LEMMA RestProperties ==
  ASSUME NEW S, NEW s \in Seq(S), NEW n \in 1 .. Len(s)
  PROVE  /\ Rest(s, n) \in Seq(S)
         /\ Len(Rest(s, n)) = Len(s) - n /\ DOMAIN Rest(s, n) = 1 .. Len(s) - n
         /\ \A i \in 1 .. Len(s) - n : Rest(s, n)[i] = s[i + n] /\ i + n \in DOMAIN s
<1> DEFINE l == Len(s)
           r == Rest(s, n)
<1>0. n \in 1 .. l  OBVIOUS
<1>1. l \in Nat /\ DOMAIN s = 1 .. l  BY LenProperties
<1>2. \A i \in n + 1 .. l : s[i] \in S  BY <1>1, ElementOfSeq
<1>3. /\ r \in Seq(S)
      /\ Len(r) = IF n + 1 <= l THEN l - (n + 1) + 1 ELSE 0
      /\ \A i \in 1 .. l - (n + 1) + 1 : r[i] = s[n + 1 + i - 1]
  BY <1>1, <1>2, SubSeqProperties DEF Rest
<1>4. DOMAIN r = 1 .. Len(r)  BY <1>3, LenProperties
<1> HIDE DEF r, l
<1>5. Len(r) = l - n  BY <1>0, <1>1, <1>3
<1>6. ASSUME NEW i \in 1 .. l - n PROVE r[i] = s[i + n] /\ i + n \in DOMAIN s
  <2>1. i \in 1 .. l - (n + 1) + 1 /\ n + 1 + i - 1 = i + n /\ i + n \in 1 .. l  BY <1>0, <1>1
  <2> QED  BY <1>1, <1>3, <2>1
<1> QED  BY <1>3, <1>4, <1>5, <1>6 DEF r, l

LEMMA OneMore ==
  ASSUME NEW S, NEW s \in Seq(S), NEW m \in S
  PROVE  /\ s \o <<m>> \in Seq(S) /\ s \o <<m>> # << >>
         /\ Len(s \o <<m>>) = Len(s) + 1 /\ DOMAIN (s \o <<m>>) = 1 .. Len(s) + 1
         /\ \A i \in 1 .. Len(s) : (s \o <<m>>)[i] = s[i]
         /\ (s \o <<m>>)[Len(s) + 1] = m
         /\ Append(s, m) = s \o <<m>>
<1>1. Append(s, m) = s \o <<m>>  BY AppendIsConcat
<1>2. DOMAIN (s \o <<m>>) = 1 .. Len(s \o <<m>>)  BY <1>1, AppendProperties, LenProperties
<1> QED  BY <1>1, <1>2, AppendProperties

LEMMA TwoMore ==
  ASSUME NEW S, NEW s \in Seq(S), NEW m \in S, NEW k \in S
  PROVE  /\ s \o <<m, k>> \in Seq(S)
         /\ Len(s \o <<m, k>>) = Len(s) + 2 /\ DOMAIN (s \o <<m, k>>) = 1 .. Len(s) + 2
         /\ \A i \in 1 .. Len(s) : (s \o <<m, k>>)[i] = s[i]
         /\ (s \o <<m, k>>)[Len(s) + 1] = m
         /\ (s \o <<m, k>>)[Len(s) + 2] = k
<1>1. <<m, k>> \in Seq(S) /\ Len(<<m, k>>) = 2 /\ Len(s) \in Nat  BY LenProperties
<1>2. /\ s \o <<m, k>> \in Seq(S) /\ Len(s \o <<m, k>>) = Len(s) + 2
      /\ \A i \in 1 .. Len(s) + 2 : (s \o <<m, k>>)[i] =
                     IF i <= Len(s) THEN s[i] ELSE <<m, k>>[i - Len(s)]
  BY <1>1, ConcatProperties
<1>3. DOMAIN (s \o <<m, k>>) = 1 .. Len(s) + 2  BY <1>2, LenProperties
<1>4. Len(s) + 1 - Len(s) = 1 /\ Len(s) + 2 - Len(s) = 2  BY <1>1
<1> QED  BY <1>1, <1>2, <1>3, <1>4

\* The domains of the streams.
LEMMA Domains ==
  ASSUME TypeOK
  PROVE  /\ Len(toServer) \in Nat /\ DOMAIN toServer = 1 .. Len(toServer)
         /\ Len(toClient) \in Nat /\ DOMAIN toClient = 1 .. Len(toClient)
         /\ Len(todo) \in Nat /\ DOMAIN todo = 1 .. Len(todo)
         /\ \A i \in DOMAIN toServer : toServer[i] \in ToServer
         /\ \A i \in DOMAIN toClient : toClient[i] \in ToClient
         /\ \A i \in DOMAIN todo : todo[i] \in Todo
BY LenProperties, ElementOfSeq DEF TypeOK, ClientTypeOK, HandlerTypeOK

LEMMA InitInv == Init => SessionInv
<1> SUFFICES ASSUME Init PROVE SessionInv  OBVIOUS
<1> USE DEF Init, ClientInit, HandlerInit
<1>1. TypeOK
  <2>2. toServer \in Seq(ToServer) /\ toClient \in Seq(ToClient) /\ todo \in Seq(Todo)
    BY EmptySeq
  <2>3. /\ ready \in BOOLEAN /\ connection \in BOOLEAN /\ gotReply \in BOOLEAN /\ eof \in BOOLEAN
        /\ sigint \in BOOLEAN /\ passed \in BOOLEAN /\ listed \in BOOLEAN /\ merged \in BOOLEAN
    OBVIOUS
  <2> QED  BY <2>2, <2>3, TcpClientAssumption, TcpHandlerAssumption DEF TypeOK, ClientTypeOK, HandlerTypeOK
<1>2. DOMAIN << >> = {}  BY EmptySeq, LenProperties
<1> QED
  BY <1>1, <1>2 DEF SessionInv, OneUnderWay, ClientLoopInv, Agree, ToServerInv, ToClientInv,
                    Requests, Replies, ToSend, Over

-----------------------------------------------------------------------------
(* The client's steps that leave the streams alone.                        *)

LEMMA ClientAlone ==
  ASSUME SessionInv, UNCHANGED <<handlerVars, toServer, toClient>>,
         \/ Check \/ Leave \/ (\E sock \in BOOLEAN : Select(sock)) \/ close_tcp
         \/ ReadLocal \/ ReadEnd \/ Broken \/ EndInput
         \/ (\E kind \in Lines : ReadRefused(kind))
         \/ \E k \in 1 .. IF Pasting THEN 2 ELSE 1 : Type(k)
  PROVE  SessionInv'
<1> USE TcpClientAssumption, TcpHandlerAssumption
<1> USE DEF SessionInv, TypeOK, ClientTypeOK, HandlerTypeOK, OneUnderWay, ClientLoopInv, Agree,
            ToServerInv, ToClientInv, Requests, Replies, ToSend, Over, Up, Told,
            handlerVars, inputVars, streamVars
<1>1. CASE Check
  <2>1. pc' = "select" /\ TCPpresent_state # "END"  BY <1>1 DEF Check
  <2> QED  BY <1>1, <2>1 DEF Check
<1>2. CASE Leave  BY <1>2 DEF Leave, Closes
<1>3. CASE \E sock \in BOOLEAN : Select(sock)  BY <1>3 DEF Select
<1>4. CASE close_tcp
  <2>1. connection' \in BOOLEAN  BY <1>4 DEF close_tcp
  <2> QED  BY <1>4, <2>1 DEF close_tcp
<1>5. CASE ReadLocal  BY <1>5 DEF ReadLocal, Reads, Fetch
<1>6. CASE ReadEnd  BY <1>6 DEF ReadEnd, Fetch, Closes
<1>7. CASE Broken  BY <1>7 DEF Broken, Closes
<1>8. CASE EndInput  BY <1>8 DEF EndInput
<1>9. CASE \E kind \in Lines : ReadRefused(kind)  BY <1>9 DEF ReadRefused, Reads, Fetch
<1>10. CASE \E k \in 1 .. IF Pasting THEN 2 ELSE 1 : Type(k)  BY <1>10 DEF Type
<1> QED  BY <1>1, <1>2, <1>3, <1>4, <1>5, <1>6, <1>7, <1>8, <1>9, <1>10

-----------------------------------------------------------------------------
(* The client sends.                                                       *)

\* What the next state looks like when one message, m, has been sent.
LEMMA SentOne ==
  ASSUME SessionInv, NEW m \in ToServer, Out(<<m>>)
  PROVE  /\ toServer' \in Seq(ToServer) /\ toServer' # << >>
         /\ Len(toServer) \in Nat /\ Len(toServer') = Len(toServer) + 1
         /\ DOMAIN toServer = 1 .. Len(toServer) /\ DOMAIN toServer' = 1 .. Len(toServer) + 1
         /\ \A i \in 1 .. Len(toServer) : toServer'[i] = toServer[i]
         /\ toServer'[Len(toServer) + 1] = m
         /\ toServer = << >> => Len(toServer) = 0
<1>1. toServer \in Seq(ToServer)  BY DEF SessionInv, TypeOK, ClientTypeOK
<1> QED  BY <1>1, OneMore, LenProperties, EmptySeq DEF Out

LEMMA MessageTypes ==
  /\ \A op \in {"AUTH", "JOIN", "MSG", "BYE", "ERR", "UNKNOWN"} :
       Message(op) \in ToServer /\ Message(op).op = op
  /\ \A op \in {"AUTH", "JOIN"}, n \in Nat : [op |-> op, n |-> n] \in ToServer
BY DEF Message, ToServer

\* AUTH and JOIN.
LEMMA ClientAsks ==
  ASSUME SessionInv, UNCHANGED handlerVars, ReadAuth \/ ReadJoin
  PROVE  SessionInv'
<1> USE TcpClientAssumption, TcpHandlerAssumption
<1> DEFINE l == Len(toServer)
           m == toServer'[l + 1]
<1>1. /\ asked \in Nat /\ asked' = asked + 1 /\ gotReply /\ ~gotReply'
      /\ asked' + waiting' + buffered' <= typed'
      /\ pc = "stdin" /\ pc' \in {"socket", "check"} /\ (pc' = "socket" <=> ready)
      /\ UNCHANGED <<handlerVars, ready, toClient, closed, merged>>
      /\ \/ ReadAuth /\ TCPpresent_state = "START" /\ TCPpresent_state' = "AUTH"
         \/ ReadJoin /\ TCPpresent_state = "OPEN" /\ TCPpresent_state' = "OPEN"
  BY DEF ReadAuth, ReadJoin, Reads, Fetch, Asks, SessionInv, TypeOK, ClientTypeOK, Agree, ClientLoopInv
<1>2. m = [op |-> IF TCPpresent_state = "START" THEN "AUTH" ELSE "JOIN", n |-> asked + 1]
      /\ Out(<<m>>) /\ m \in ToServer
  BY <1>1, MessageTypes, SentOne DEF ReadAuth, ReadJoin, Asks
<1>3. /\ toServer' \in Seq(ToServer) /\ toServer' # << >> /\ l \in Nat /\ Len(toServer') = l + 1
      /\ DOMAIN toServer = 1 .. l /\ DOMAIN toServer' = 1 .. l + 1
      /\ \A i \in 1 .. l : toServer'[i] = toServer[i]
      /\ toServer = << >> => l = 0
  BY <1>2, SentOne
<1>4. /\ m.n = asked' /\ (TCPpresent_state = "START" => m.op = "AUTH")
      /\ (TCPpresent_state = "OPEN" => m.op = "JOIN")
  BY <1>1, <1>2
<1> HIDE DEF l, m
<1>5. m = toServer'[l + 1]  BY DEF m
<1>6. TypeOK'
  <2>1. waiting' \in 0 .. MaxLines /\ buffered' \in 0 .. MaxLines - 1 /\ asked' \in 0 .. MaxLines
    BY <1>1 DEF ReadAuth, ReadJoin, Reads, Fetch, SessionInv, TypeOK, ClientTypeOK
  <2>2. connection' = connection /\ eof' = eof /\ typed' = typed /\ gotReply' \in BOOLEAN
    BY <1>1 DEF ReadAuth, ReadJoin, Reads, Asks
  <2> QED
    BY <1>1, <1>3, <2>1, <2>2 DEF SessionInv, TypeOK, ClientTypeOK, HandlerTypeOK, handlerVars
<1>7. OneUnderWay'
  <2>1. Requests(toServer) = {} /\ Replies(toClient) = {} /\ ToSend(todo) = {}
    BY <1>1 DEF SessionInv, OneUnderWay
  <2>2. Replies(toClient)' = {} /\ ToSend(todo)' = {}
    BY <1>1, <2>1 DEF Replies, ToSend, handlerVars
  <2>3. Requests(toServer') \subseteq {l + 1}
    BY <1>3, <2>1 DEF Requests
  <2> QED  BY <1>1, <1>4, <1>5, <2>2, <2>3 DEF OneUnderWay
<1>8. ClientLoopInv'
  BY <1>1 DEF SessionInv, ClientLoopInv, Up, handlerVars
<1>9. Agree'
  <2>1. client_state = "ACCEPT" => l = 0 /\ m.op = "AUTH"
    BY <1>1, <1>3, <1>4 DEF SessionInv, Agree, Over
  <2> QED  BY <1>1, <1>3, <1>4, <1>5, <2>1 DEF SessionInv, Agree, Over, handlerVars
<1>10. ToServerInv'
  <2>1. \A i \in 1 .. l : toServer[i].op \notin Farewell
    BY <1>1, <1>3 DEF SessionInv, ToServerInv, Over
  <2>2. m.op \notin Farewell
    BY <1>1, <1>2 DEF Farewell
  <2>3. (m.op = "AUTH" => client_state = "ACCEPT") /\ (m.op = "JOIN" => client_state = "OPEN")
        /\ m.op \in {"AUTH", "JOIN"}
    BY <1>1, <1>2 DEF SessionInv, Agree
  <2>4. client_state' = client_state /\ (m.op = "JOIN" => TCPpresent_state' = "OPEN")
    BY <1>1, <1>4 DEF handlerVars
  <2>5. SUFFICES ASSUME NEW i \in 1 .. l + 1
                 PROVE  LET k == toServer'[i] IN
                        /\ k.op = "AUTH" => client_state = "ACCEPT"
                        /\ k.op \in {"JOIN", "MSG"} => client_state = "OPEN"
                        /\ k.op = "JOIN" => TCPpresent_state' \in {"OPEN", "END"}
                        /\ k.op \notin Farewell
    BY <1>3, <2>4 DEF ToServerInv, Farewell
  <2>6. CASE i = l + 1  BY <1>5, <2>2, <2>3, <2>4, <2>6
  <2>7. CASE i \in 1 .. l
    BY <1>1, <1>3, <2>1, <2>7 DEF SessionInv, ToServerInv
  <2> QED  BY <1>3, <2>6, <2>7
<1>11. ToClientInv'
  <2>2. \A i \in DOMAIN toClient : toClient[i].op # "REPLY"
    BY <1>1 DEF SessionInv, OneUnderWay, Replies
  <2>3. \A i \in DOMAIN todo : todo[i].do = "send" => todo[i].msg.op # "REPLY"
    BY <1>1 DEF SessionInv, OneUnderWay, ToSend
  <2> QED  BY <1>1, <2>2, <2>3 DEF SessionInv, ToClientInv, Told, handlerVars
<1> QED  BY <1>6, <1>7, <1>8, <1>9, <1>10, <1>11 DEF SessionInv

\* A chat message, BYE in its forms, and BYE on C-c.
LEMMA ClientTalks ==
  ASSUME SessionInv, UNCHANGED handlerVars,
         NEW m \in ToServer, Out(<<m>>),
         \/ ReadMsg /\ m = Message("MSG")
         \/ (\E kind \in Lines : ReadBye(kind, <<m>>)) /\ m.op \in {"BYE", "UNKNOWN"}
         \/ Interrupted /\ m = Message("BYE")
  PROVE  SessionInv'
<1> USE TcpClientAssumption, TcpHandlerAssumption
<1> DEFINE l == Len(toServer)
<1>1. /\ UNCHANGED <<handlerVars, ready, toClient, merged, asked, gotReply, typed, eof>>
      /\ waiting' \in 0 .. MaxLines /\ buffered' \in 0 .. MaxLines - 1
      /\ asked' + waiting' + buffered' <= typed'
      /\ closed' \subseteq {"client", "server"} /\ Up' = Up /\ connection' \in BOOLEAN
  <2>1. CASE ReadMsg
    BY <2>1 DEF ReadMsg, Reads, Fetch, SessionInv, TypeOK, ClientTypeOK, ClientLoopInv, Up
  <2>2. CASE \E kind \in Lines : ReadBye(kind, <<m>>)
    BY <2>2 DEF ReadBye, Reads, Fetch, SessionInv, TypeOK, ClientTypeOK, ClientLoopInv, Up
  <2>3. CASE Interrupted
    BY <2>3 DEF Interrupted, Closes, SessionInv, TypeOK, ClientTypeOK, ClientLoopInv, Up, inputVars
  <2> QED  BY <2>1, <2>2, <2>3
<1>2. \/ /\ pc = "stdin" /\ TCPpresent_state = "OPEN" /\ gotReply /\ pc' \in {"socket", "check"}
         /\ (pc' = "socket" <=> ready)
         /\ \/ m.op = "MSG" /\ TCPpresent_state' = "OPEN"
            \/ m.op \in {"BYE", "UNKNOWN"} /\ TCPpresent_state' = "END"
      \/ /\ pc = "select" /\ TCPpresent_state # "END" /\ m.op = "BYE"
         /\ pc' = "done" /\ TCPpresent_state' = TCPpresent_state
  <2>1. CASE ReadMsg /\ m = Message("MSG")
    BY <2>1, MessageTypes DEF ReadMsg, Reads, SessionInv, ClientLoopInv
  <2>2. CASE (\E kind \in Lines : ReadBye(kind, <<m>>)) /\ m.op \in {"BYE", "UNKNOWN"}
    BY <2>2 DEF ReadBye, Reads, SessionInv, TypeOK, ClientTypeOK, ClientLoopInv, Agree
  <2>3. CASE Interrupted /\ m = Message("BYE")
    BY <2>3, MessageTypes DEF Interrupted, SessionInv, ClientLoopInv
  <2> QED  BY <2>1, <2>2, <2>3
<1>3. /\ toServer' \in Seq(ToServer) /\ toServer' # << >> /\ l \in Nat /\ Len(toServer') = l + 1
      /\ DOMAIN toServer = 1 .. l /\ DOMAIN toServer' = 1 .. l + 1
      /\ \A i \in 1 .. l : toServer'[i] = toServer[i]
      /\ toServer = << >> => l = 0
      /\ toServer'[l + 1] = m
  BY SentOne
<1> HIDE DEF l
<1>4. m.op \in {"MSG", "BYE", "UNKNOWN"}  BY <1>2
<1>5. TypeOK'
  BY <1>1, <1>2, <1>3 DEF SessionInv, TypeOK, ClientTypeOK, HandlerTypeOK, handlerVars
<1>6. OneUnderWay'
  <2>1. Replies(toClient)' = Replies(toClient) /\ ToSend(todo)' = ToSend(todo)
    BY <1>1 DEF Replies, ToSend, handlerVars
  <2>2. \A i \in Requests(toServer') : i \in Requests(toServer) /\ toServer'[i] = toServer[i]
    BY <1>3, <1>4 DEF Requests
  <2> QED  BY <1>1, <2>1, <2>2 DEF SessionInv, OneUnderWay, handlerVars
<1>7. ClientLoopInv'
  BY <1>1, <1>2 DEF SessionInv, ClientLoopInv, handlerVars
<1>8. Agree'
  <2>1. client_state # "END"  BY <1>2 DEF SessionInv, Agree
  <2>2. client_state = "ACCEPT" => m.op = "BYE"  BY <1>2 DEF SessionInv, Agree
  <2>3. TCPpresent_state' = "START" => pc' = "done" /\ TCPpresent_state = "START"  BY <1>2
  <2>4. client_state = "ACCEPT" => TCPpresent_state' = TCPpresent_state  BY <1>2 DEF SessionInv, Agree
  <2>5. TCPpresent_state' = "OPEN" => TCPpresent_state = "OPEN"  BY <1>2
  <2>6. TCPpresent_state' # "AUTH_failed"  BY <1>2 DEF SessionInv, Agree
  <2> QED
    BY <1>1, <1>3, <2>1, <2>2, <2>3, <2>4, <2>5, <2>6 DEF SessionInv, Agree, Over, handlerVars
<1>9. ToServerInv'
  <2>1. \A i \in 1 .. l : toServer[i].op \notin Farewell
    BY <1>2, <1>3 DEF SessionInv, ToServerInv, Over
  <2>2. /\ m.op = "MSG" => client_state = "OPEN"
        /\ m.op = "UNKNOWN" => TCPpresent_state' = "END"
        /\ m.op \in Farewell => TCPpresent_state' = "END" \/ Over'
    BY <1>2 DEF SessionInv, Agree, Over, Farewell
  <2>3. TCPpresent_state \in {"OPEN", "END"} => TCPpresent_state' \in {"OPEN", "END"}
    BY <1>2
  <2>4. client_state' = client_state /\ Len(toServer') = l + 1
    BY <1>1, <1>3 DEF handlerVars
  <2>5. ASSUME NEW i \in 1 .. l
        PROVE  LET k == toServer'[i] IN
                /\ k.op = "AUTH" => client_state' = "ACCEPT"
                /\ k.op \in {"JOIN", "MSG"} => client_state' = "OPEN"
                /\ k.op = "JOIN" => TCPpresent_state' \in {"OPEN", "END"}
                /\ k.op = "UNKNOWN" => TCPpresent_state' = "END"
                /\ k.op \notin Farewell
    BY <1>3, <2>1, <2>3, <2>4, <2>5 DEF SessionInv, ToServerInv, Farewell
  <2>6. \A i \in 1 .. l + 1 : i \in 1 .. l \/ i = l + 1
    BY <1>3
  <2> QED  BY <1>3, <1>4, <2>2, <2>4, <2>5, <2>6 DEF ToServerInv
<1>10. ToClientInv'
  <2>1. TCPpresent_state' = "AUTH" => TCPpresent_state = "AUTH"  BY <1>2
  <2> QED  BY <1>1, <2>1 DEF SessionInv, ToClientInv, Told, handlerVars
<1> QED  BY <1>5, <1>6, <1>7, <1>8, <1>9, <1>10 DEF SessionInv

\* BYE with a word that is refused: the session ends, nothing is sent.
LEMMA ClientSilent ==
  ASSUME SessionInv, UNCHANGED handlerVars, NEW kind \in Lines, ReadBye(kind, << >>)
  PROVE  SessionInv'
<1> USE TcpClientAssumption, TcpHandlerAssumption
<1>1. toServer' = toServer
  BY ConcatEmptySeq DEF ReadBye, Out, SessionInv, TypeOK, ClientTypeOK
<1>2. /\ UNCHANGED <<handlerVars, ready, toClient, merged, asked, gotReply, typed, eof, closed, connection>>
      /\ waiting' \in 0 .. MaxLines /\ buffered' \in 0 .. MaxLines - 1
      /\ asked' + waiting' + buffered' <= typed'
      /\ pc = "stdin" /\ TCPpresent_state = "OPEN" /\ gotReply /\ pc' \in {"socket", "check"}
      /\ (pc' = "socket" <=> ready) /\ TCPpresent_state' = "END"
  BY DEF ReadBye, Reads, Fetch, SessionInv, TypeOK, ClientTypeOK, ClientLoopInv, Agree
<1>3. TypeOK'
  BY <1>1, <1>2 DEF SessionInv, TypeOK, ClientTypeOK, HandlerTypeOK, handlerVars
<1>7. ClientLoopInv'
  BY <1>1, <1>2 DEF SessionInv, ClientLoopInv, Up, handlerVars
<1>4. OneUnderWay'
  BY <1>1, <1>2 DEF SessionInv, OneUnderWay, Requests, Replies, ToSend, handlerVars
<1>5. Agree'
  BY <1>1, <1>2 DEF SessionInv, Agree, Over, handlerVars
<1>6. ToServerInv' /\ ToClientInv'
  BY <1>1, <1>2 DEF SessionInv, ToServerInv, ToClientInv, Told, Over, handlerVars
<1> QED  BY <1>3, <1>4, <1>5, <1>6, <1>7 DEF SessionInv

-----------------------------------------------------------------------------
(* The client receives.                                                    *)

\* What is left of toClient is a part of what was there.
LEMMA Received ==
  ASSUME SessionInv, NEW n \in 1 .. Len(toClient), Receives(n)
  PROVE  /\ toClient # << >> /\ Head(toClient) = toClient[1] /\ 1 \in DOMAIN toClient
         /\ toClient' \in Seq(ToClient) /\ DOMAIN toClient' = 1 .. Len(toClient) - n
         /\ \A i \in DOMAIN toClient' : toClient'[i] = toClient[i + n] /\ i + n \in DOMAIN toClient
         /\ pc = "socket" /\ pc' = "check" /\ merged' \in BOOLEAN /\ n \in Nat /\ n >= 1
         /\ client_state # "ACCEPT"
         /\ client_state = "END" => toClient[1].op \notin {"ERR", "BYE"} /\ toServer = << >>
         /\ UNCHANGED <<connection, inputVars, asked, closed>> /\ ready' = FALSE
<1>1. toClient \in Seq(ToClient)  BY DEF SessionInv, TypeOK, HandlerTypeOK
<1>2. Len(toClient) \in Nat /\ toClient # << >> /\ DOMAIN toClient = 1 .. Len(toClient)
  BY <1>1, LenProperties, EmptySeq
<1>3. toClient' = Rest(toClient, n)  BY DEF Receives
<1>4. client_state # "ACCEPT"
      /\ (client_state = "END" => toClient[1].op \notin {"ERR", "BYE"} /\ toServer = << >>)
  BY <1>2 DEF Receives, SessionInv, Agree
<1>5. Head(toClient) = toClient[1]  BY <1>1, <1>2
<1>6. merged' \in BOOLEAN  BY DEF Receives, Noted, Alone, SessionInv, TypeOK
<1>7. /\ toClient' \in Seq(ToClient) /\ DOMAIN toClient' = 1 .. Len(toClient) - n
      /\ \A i \in 1 .. Len(toClient) - n : toClient'[i] = toClient[i + n] /\ i + n \in DOMAIN toClient
  BY <1>1, <1>3, RestProperties
<1>8. n \in Nat /\ n >= 1 /\ 1 \in DOMAIN toClient  BY <1>2
<1>9. pc = "socket" /\ pc' = "check" /\ ready' = FALSE /\ UNCHANGED <<connection, inputVars, asked, closed>>
  BY DEF Receives
<1> QED  BY <1>2, <1>4, <1>5, <1>6, <1>7, <1>8, <1>9

\* REPLY, MSG, and BYE alone.
LEMMA ClientGets ==
  ASSUME SessionInv, UNCHANGED handlerVars, NEW n \in 1 .. Len(toClient),
         GotReply(n) \/ GotMsg(n) \/ GotBye(n)
  PROVE  SessionInv'
<1> USE TcpClientAssumption, TcpHandlerAssumption
<1>1. Receives(n) /\ toServer' = toServer  BY DEF GotReply, GotMsg, GotBye
<1>2. /\ toClient # << >> /\ Head(toClient) = toClient[1] /\ 1 \in DOMAIN toClient
      /\ toClient' \in Seq(ToClient) /\ DOMAIN toClient' = 1 .. Len(toClient) - n
      /\ \A i \in DOMAIN toClient' : toClient'[i] = toClient[i + n] /\ i + n \in DOMAIN toClient
      /\ pc = "socket" /\ pc' = "check" /\ merged' \in BOOLEAN /\ n \in Nat /\ n >= 1
      /\ client_state # "ACCEPT"
      /\ client_state = "END" => toClient[1].op \notin {"ERR", "BYE"} /\ toServer = << >>
      /\ UNCHANGED <<connection, inputVars, asked, closed>> /\ ready' = FALSE
  BY <1>1, Received
<1>3. \/ /\ toClient[1].op = "REPLY" /\ gotReply' = TRUE
         /\ TCPpresent_state' = IF TCPpresent_state # "AUTH" THEN TCPpresent_state ELSE "OPEN"
      \/ toClient[1].op # "REPLY" /\ UNCHANGED <<gotReply, TCPpresent_state>>
      \/ toClient[1].op # "REPLY" /\ gotReply' = gotReply /\ TCPpresent_state' = "END"
  <2>1. CASE GotReply(n)
    <3>1. toClient[1].op = "REPLY" /\ (TCPpresent_state = "AUTH" => toClient[1].ok)
      BY <1>2, <2>1 DEF GotReply, SessionInv, ToClientInv, Told
    <3> QED  BY <1>2, <2>1, <3>1 DEF GotReply
  <2>2. CASE GotMsg(n) \/ GotBye(n)
    BY <1>2, <2>2 DEF GotMsg, GotBye
  <2> QED  BY <2>1, <2>2
<1>4. /\ gotReply' \in BOOLEAN
      /\ TCPpresent_state' \in {"START", "AUTH", "OPEN", "END"}
      /\ TCPpresent_state' = "AUTH" => TCPpresent_state = "AUTH" /\ gotReply' = gotReply
      /\ TCPpresent_state' = "START" => TCPpresent_state = "START" /\ gotReply' = gotReply
      /\ TCPpresent_state \in {"OPEN", "END"} => TCPpresent_state' \in {"OPEN", "END"}
      /\ TCPpresent_state = "END" => TCPpresent_state' = "END"
      /\ gotReply => gotReply'
  BY <1>3 DEF SessionInv, TypeOK, ClientTypeOK, Agree
<1>5. TypeOK'
  BY <1>1, <1>2, <1>4 DEF SessionInv, TypeOK, ClientTypeOK, HandlerTypeOK, handlerVars, inputVars
<1>6. OneUnderWay'
  <2>1. Requests(toServer)' = Requests(toServer) /\ ToSend(todo)' = ToSend(todo)
    BY <1>1 DEF Requests, ToSend, handlerVars
  <2>2. \A i \in Replies(toClient)' : i + n \in Replies(toClient) /\ toClient'[i] = toClient[i + n]
    BY <1>2 DEF Replies
  <2>3. CASE toClient[1].op = "REPLY"
    <3>1. 1 \in Replies(toClient)  BY <1>2, <2>3 DEF Replies
    <3>2. Requests(toServer) = {} /\ ToSend(todo) = {} /\ \A i \in Replies(toClient) : i = 1
      BY <3>1 DEF SessionInv, OneUnderWay
    <3>3. Replies(toClient)' = {}
      <4> SUFFICES ASSUME NEW i \in Replies(toClient)' PROVE FALSE  OBVIOUS
      <4>1. i + n = 1  BY <2>2, <3>2
      <4>2. i \in Nat /\ i >= 1  BY <1>2 DEF Replies
      <4> QED  BY <1>2, <4>1, <4>2
    <3> QED  BY <2>1, <3>2, <3>3 DEF OneUnderWay
  <2>4. CASE toClient[1].op # "REPLY"
    <3>1. UNCHANGED <<gotReply, asked, toServer, todo>>  BY <1>1, <1>2, <1>3, <2>4 DEF handlerVars
    <3>2. \A i, j \in Replies(toClient)' : i = j
      <4> SUFFICES ASSUME NEW i \in Replies(toClient)', NEW j \in Replies(toClient)' PROVE i = j
        OBVIOUS
      <4>1. i + n = j + n  BY <2>2 DEF SessionInv, OneUnderWay
      <4>2. i \in Int /\ j \in Int  BY <1>2 DEF Replies
      <4> QED  BY <1>2, <4>1, <4>2
    <3> QED  BY <2>1, <2>2, <3>1, <3>2 DEF SessionInv, OneUnderWay
  <2> QED  BY <2>3, <2>4
<1>7. ClientLoopInv'
  BY <1>2, <1>4 DEF SessionInv, ClientLoopInv, inputVars
<1>8. Agree'
  <2>1. TCPpresent_state # "START" /\ client_state \in {"OPEN", "END"}
    BY <1>2 DEF SessionInv, Agree, TypeOK, HandlerTypeOK
  <2>2. TCPpresent_state' # "START" /\ TCPpresent_state' # "AUTH_failed"
    BY <1>4, <2>1
  <2>3. client_state = "END" => TCPpresent_state' = "END" /\ toServer' = << >>
    BY <1>1, <1>2, <1>4 DEF SessionInv, Agree
  <2> QED  BY <1>2, <2>1, <2>2, <2>3 DEF SessionInv, Agree, handlerVars
<1>9. ToServerInv'
  <2>1. ~Over  BY <1>2 DEF Over
  <2> QED  BY <1>1, <1>2, <1>4, <2>1 DEF SessionInv, ToServerInv, handlerVars
<1>10. ToClientInv'
  BY <1>2, <1>4 DEF SessionInv, ToClientInv, Told, handlerVars
<1> QED  BY <1>5, <1>6, <1>7, <1>8, <1>9, <1>10 DEF SessionInv

\* The handler never says ERR to a client of proj1 that still listens.
LEMMA NoErr ==
  ASSUME SessionInv, NEW n \in 1 .. Len(toClient)
  PROVE  ~GotErr(n)
<1> SUFFICES ASSUME GotErr(n) PROVE FALSE  OBVIOUS
<1>1. Receives(n) /\ Head(toClient).op = "ERR"  BY DEF GotErr
<1> QED  BY <1>1, Received DEF SessionInv, ToClientInv, Told

\* BYE with something behind it: the server is being stopped.
LEMMA ClientGetsUnknown ==
  ASSUME SessionInv, UNCHANGED handlerVars, NEW n \in 1 .. Len(toClient), GotUnknown(n)
  PROVE  SessionInv'
<1> USE TcpClientAssumption, TcpHandlerAssumption
<1> DEFINE l == Len(toServer)
<1>1. Receives(n)  BY DEF GotUnknown
<1>2. /\ toClient # << >> /\ Head(toClient) = toClient[1] /\ 1 \in DOMAIN toClient
      /\ toClient' \in Seq(ToClient) /\ DOMAIN toClient' = 1 .. Len(toClient) - n
      /\ \A i \in DOMAIN toClient' : toClient'[i] = toClient[i + n] /\ i + n \in DOMAIN toClient
      /\ pc = "socket" /\ pc' = "check" /\ merged' \in BOOLEAN /\ n \in Nat /\ n >= 1
      /\ client_state # "ACCEPT"
      /\ client_state = "END" => toClient[1].op \notin {"ERR", "BYE"} /\ toServer = << >>
      /\ UNCHANGED <<connection, inputVars, asked, closed>> /\ ready' = FALSE
  BY <1>1, Received
<1>3. /\ toClient[1].op = "BYE" /\ gotReply' = gotReply /\ TCPpresent_state' = "END"
      /\ Out(<<Message("ERR"), Message("BYE")>>)
  BY <1>2 DEF GotUnknown
<1>4. client_state = "OPEN" /\ sigint
  BY <1>2, <1>3 DEF SessionInv, ToClientInv, Told, Agree, TypeOK, HandlerTypeOK
<1>5. /\ toServer' \in Seq(ToServer) /\ l \in Nat /\ Len(toServer') = l + 2
      /\ DOMAIN toServer = 1 .. l /\ DOMAIN toServer' = 1 .. l + 2
      /\ \A i \in 1 .. l : toServer'[i] = toServer[i]
      /\ toServer'[l + 1] = Message("ERR") /\ toServer'[l + 2] = Message("BYE")
  BY <1>3, TwoMore, MessageTypes, LenProperties DEF Out, SessionInv, TypeOK, ClientTypeOK
<1> HIDE DEF l
<1>6. \A i \in 1 .. l + 2 : i \in 1 .. l \/ (i \in {l + 1, l + 2} /\ toServer'[i].op \in {"ERR", "BYE"})
  BY <1>5, MessageTypes
<1>7. TypeOK'
  BY <1>2, <1>3, <1>5 DEF SessionInv, TypeOK, ClientTypeOK, HandlerTypeOK, handlerVars, inputVars
<1>8. OneUnderWay'
  <2>1. ToSend(todo)' = ToSend(todo) /\ UNCHANGED <<gotReply, asked, todo>>
    BY <1>2, <1>3 DEF ToSend, handlerVars
  <2>2. \A i \in Replies(toClient)' : i + n \in Replies(toClient) /\ toClient'[i] = toClient[i + n]
    BY <1>2 DEF Replies
  <2>3. \A i \in Requests(toServer)' : i \in Requests(toServer) /\ toServer'[i] = toServer[i]
    BY <1>5, <1>6 DEF Requests
  <2>4. \A i, j \in Replies(toClient)' : i = j
    <3> SUFFICES ASSUME NEW i \in Replies(toClient)', NEW j \in Replies(toClient)' PROVE i = j
      OBVIOUS
    <3>1. i + n = j + n  BY <2>2 DEF SessionInv, OneUnderWay
    <3>2. i \in Int /\ j \in Int  BY <1>2 DEF Replies
    <3> QED  BY <1>2, <3>1, <3>2
  <2> QED  BY <2>1, <2>2, <2>3, <2>4 DEF SessionInv, OneUnderWay
<1>9. ClientLoopInv'
  BY <1>2, <1>3 DEF SessionInv, ClientLoopInv, inputVars
<1>10. Agree'
  BY <1>3, <1>4 DEF Agree, handlerVars
<1>11. ToServerInv'
  <2>1. client_state' = "OPEN" /\ sigint'  BY <1>4 DEF handlerVars
  <2>2. \A i \in 1 .. l : toServer'[i].op # "AUTH"
    BY <1>4, <1>5 DEF SessionInv, ToServerInv
  <2> QED  BY <1>3, <1>5, <1>6, <2>1, <2>2 DEF ToServerInv
<1>12. ToClientInv'
  BY <1>2, <1>3 DEF SessionInv, ToClientInv, Told, handlerVars
<1> QED  BY <1>7, <1>8, <1>9, <1>10, <1>11, <1>12 DEF SessionInv

-----------------------------------------------------------------------------
(* The handler receives.                                                   *)

LEMMA CallType ==
  ASSUME NEW what \in {"add", "remove", "quit"}
  PROVE  Calls(what) \in Todo /\ Calls(what).do = what
BY DEF Calls, Todo, ToClient

\* What is left of toServer is a part of what was there.
LEMMA Taken ==
  ASSUME SessionInv, UNCHANGED clientVars, NEW op, NEW n \in 1 .. Len(toServer), Receive(n, op)
  PROVE  /\ Head(toServer) = toServer[1] /\ toServer[1].op = op /\ toServer[1].n \in Nat
         /\ Len(toServer) \in Nat /\ 1 \in DOMAIN toServer /\ DOMAIN toServer = 1 .. Len(toServer)
         /\ n \in DOMAIN toServer
         /\ toServer' \in Seq(ToServer) /\ DOMAIN toServer' = 1 .. Len(toServer) - n
         /\ Len(toServer') = Len(toServer) - n
         /\ \A i \in DOMAIN toServer' : toServer'[i] = toServer[i + n] /\ i + n \in DOMAIN toServer
         /\ n \in Nat /\ n >= 1 /\ merged' \in BOOLEAN
         /\ UNCHANGED <<sigint, passed, run, listed, said, toClient, closed>>
         /\ todo = << >> /\ DOMAIN todo = {} /\ ~sigint /\ Up
         /\ op \in Farewell => Len(toServer) = 1 /\ n = 1 /\ toServer' = << >>
         /\ Over' = Over /\ Up' = Up
<1>1. toServer \in Seq(ToServer)  BY DEF SessionInv, TypeOK, ClientTypeOK
<1>2. Len(toServer) \in Nat /\ DOMAIN toServer = 1 .. Len(toServer)  BY <1>1, LenProperties
<1>3. n \in Nat /\ n >= 1 /\ 1 \in DOMAIN toServer /\ n \in DOMAIN toServer  BY <1>2
<1>4. Head(toServer) = toServer[1] /\ toServer[1] \in ToServer  BY <1>1, <1>2, <1>3, ElementOfSeq
<1>5. toServer[1].op = op /\ toServer[1].n \in Nat  BY <1>4 DEF Receive, ToServer
<1>6. toServer' = Rest(toServer, n)  BY DEF Receive
<1>7. /\ toServer' \in Seq(ToServer) /\ DOMAIN toServer' = 1 .. Len(toServer) - n
      /\ Len(toServer') = Len(toServer) - n
      /\ \A i \in 1 .. Len(toServer) - n : toServer'[i] = toServer[i + n] /\ i + n \in DOMAIN toServer
  BY <1>1, <1>6, RestProperties
<1>8. merged' \in BOOLEAN  BY DEF Receive, Noted, Alone, SessionInv, TypeOK
<1>9. /\ UNCHANGED <<sigint, passed, run, listed, said, toClient, closed>>
      /\ todo = << >> /\ ~sigint /\ Up
  BY DEF Receive
<1>10. DOMAIN todo = {}  BY <1>9, EmptySeq, LenProperties
<1>11. op \in Farewell => Len(toServer) = 1 /\ n = 1 /\ toServer' = << >>
  <2>1. op \in Farewell => ~(1 < Len(toServer))
    BY <1>3, <1>5, <1>9 DEF SessionInv, ToServerInv
  <2>2. op \in Farewell => Len(toServer) = 1 /\ n = 1
    BY <1>2, <1>3, <2>1
  <2>3. Len(toServer') # 0 \/ toServer' = << >>  BY <1>7, EmptySeq
  <2>4. ASSUME op \in Farewell PROVE Len(toServer') = 0
    <3>1. Len(toServer) = 1 /\ n = 1  BY <2>2, <2>4
    <3>2. \A k, l : k = 1 /\ l = 1 => k - l = 0  OBVIOUS
    <3> QED  BY <1>7, <3>1, <3>2
  <2> QED  BY <2>2, <2>3, <2>4
<1>12. Over' = Over /\ Up' = Up  BY <1>9 DEF Over, Up, clientVars
<1> QED  BY <1>2, <1>3, <1>4, <1>5, <1>7, <1>8, <1>9, <1>10, <1>11, <1>12

\* Taking an AUTH, a JOIN, or something else that is not the end: when what the
\* handler then has to do is right, so is all the rest.
LEMMA TakesOn ==
  ASSUME SessionInv, UNCHANGED clientVars, NEW n \in 1 .. Len(toServer),
         NEW op \in {"AUTH", "JOIN", "MSG", "ERR", "BYE"}, Receive(n, op),
         client_state' = IF op = "AUTH" THEN "OPEN" ELSE client_state,
         todo' \in Seq(Todo),
         \A i, j \in ToSend(todo') : i = j,
         \A i \in ToSend(todo') : op \in {"AUTH", "JOIN"} /\ todo'[i].msg.n = Head(toServer).n,
         \A i \in DOMAIN todo' : todo'[i].do = "send" =>
              todo'[i].msg.op = "REPLY" /\ (op = "AUTH" => todo'[i].msg.ok),
         client_state' = "ACCEPT" => \A i \in DOMAIN todo' : todo'[i].do \in {"remove", "quit"}
  PROVE  SessionInv'
<1>1. /\ Head(toServer) = toServer[1] /\ toServer[1].op = op /\ toServer[1].n \in Nat
      /\ Len(toServer) \in Nat /\ 1 \in DOMAIN toServer /\ DOMAIN toServer = 1 .. Len(toServer)
      /\ toServer' \in Seq(ToServer) /\ DOMAIN toServer' = 1 .. Len(toServer) - n
      /\ Len(toServer') = Len(toServer) - n
      /\ \A i \in DOMAIN toServer' : toServer'[i] = toServer[i + n] /\ i + n \in DOMAIN toServer
      /\ n \in Nat /\ n >= 1 /\ merged' \in BOOLEAN
      /\ UNCHANGED <<sigint, passed, run, listed, said, toClient, closed>>
      /\ DOMAIN todo = {} /\ Over' = Over /\ Up' = Up
  BY Taken
<1>2. client_state \in {"ACCEPT", "OPEN"} /\ (client_state = "ACCEPT" => op \in {"AUTH", "BYE"})
      /\ (op = "AUTH" => client_state = "ACCEPT" /\ TCPpresent_state = "AUTH")
  <2>1. client_state # "END" /\ client_state # "AUTH_failed"
    BY <1>1 DEF SessionInv, Agree
  <2>2. op = "AUTH" => client_state = "ACCEPT" /\ ~gotReply
    BY <1>1 DEF SessionInv, ToServerInv, OneUnderWay, Requests
  <2>3. client_state = "ACCEPT" => TCPpresent_state \in {"START", "AUTH"} /\ op \in {"AUTH", "BYE"}
    BY <1>1 DEF SessionInv, Agree
  <2>4. TCPpresent_state = "START" => gotReply
    BY DEF SessionInv, Agree
  <2> QED  BY <2>1, <2>2, <2>3, <2>4 DEF SessionInv, TypeOK, HandlerTypeOK
<1>3. TypeOK'
  BY <1>1, <1>2 DEF SessionInv, TypeOK, ClientTypeOK, HandlerTypeOK, clientVars, inputVars
<1>4. OneUnderWay'
  <2>1. Replies(toClient)' = Replies(toClient) /\ UNCHANGED <<gotReply, asked, toClient>>
    BY <1>1 DEF Replies, clientVars
  <2>2. \A i \in Requests(toServer') : i + n \in Requests(toServer) /\ toServer'[i] = toServer[i + n]
    BY <1>1 DEF Requests
  <2>3. \A i, j \in Requests(toServer') : i = j
    <3> SUFFICES ASSUME NEW i \in Requests(toServer'), NEW j \in Requests(toServer') PROVE i = j
      OBVIOUS
    <3>1. i + n = j + n  BY <2>2 DEF SessionInv, OneUnderWay
    <3>2. i \in Int /\ j \in Int  BY <1>1 DEF Requests
    <3> QED  BY <1>1, <3>1, <3>2
  <2>4. CASE op \in {"AUTH", "JOIN"}
    <3>1. 1 \in Requests(toServer)  BY <1>1, <2>4 DEF Requests
    <3>2. /\ Replies(toClient) = {} /\ toServer[1].n = asked /\ ~gotReply
          /\ \A i \in Requests(toServer) : i = 1
      BY <3>1 DEF SessionInv, OneUnderWay
    <3>3. Requests(toServer') = {}
      <4> SUFFICES ASSUME NEW i \in Requests(toServer') PROVE FALSE  OBVIOUS
      <4>1. i + n = 1  BY <2>2, <3>2
      <4>2. i \in Nat /\ i >= 1  BY <1>1 DEF Requests
      <4> QED  BY <1>1, <4>1, <4>2
    <3> QED  BY <1>1, <2>1, <3>2, <3>3 DEF OneUnderWay
  <2>5. CASE op \notin {"AUTH", "JOIN"}
    <3>1. ToSend(todo') = {}  BY <2>5
    <3> QED  BY <2>1, <2>2, <2>3, <3>1 DEF SessionInv, OneUnderWay
  <2> QED  BY <2>4, <2>5
<1>5. ClientLoopInv'
  BY <1>1 DEF SessionInv, ClientLoopInv, clientVars, inputVars
<1>6. Agree'
  <2>1. UNCHANGED <<pc, TCPpresent_state, gotReply>>  BY DEF clientVars
  <2>2. client_state' \in {"ACCEPT", "OPEN"} /\ (client_state = "OPEN" => client_state' = "OPEN")
    BY <1>2
  <2>3. client_state' = "ACCEPT" =>
          /\ client_state = "ACCEPT" /\ \A i \in DOMAIN toServer' : toServer'[i].op = "BYE"
    <3> SUFFICES ASSUME client_state' = "ACCEPT", NEW i \in DOMAIN toServer'
                 PROVE  client_state = "ACCEPT" /\ toServer'[i].op = "BYE"
      BY <1>2
    <3>1. client_state = "ACCEPT"  BY <1>2
    <3>2. i + n # 1 /\ i + n \in DOMAIN toServer /\ toServer'[i] = toServer[i + n]  BY <1>1
    <3> QED  BY <3>1, <3>2 DEF SessionInv, Agree
  <2>4. TCPpresent_state = "START" => (Over \/ FALSE)
    <3> SUFFICES ASSUME TCPpresent_state = "START", ~Over PROVE FALSE  OBVIOUS
    <3>1. toServer = << >>  BY DEF SessionInv, Agree
    <3> QED  BY <1>1, <3>1, EmptySeq
  <2>5. TCPpresent_state = "START" => op # "AUTH"  BY <1>2
  <2> QED  BY <1>1, <1>2, <2>1, <2>2, <2>3, <2>4, <2>5 DEF SessionInv, Agree
<1>7. ToServerInv'
  <2>1. UNCHANGED <<TCPpresent_state, sigint>> /\ Over' = Over  BY <1>1 DEF clientVars
  <2> SUFFICES ASSUME NEW i \in DOMAIN toServer'
               PROVE  LET k == toServer'[i] IN
                /\ k.op = "AUTH" => client_state' = "ACCEPT"
                /\ k.op \in {"JOIN", "MSG"} => client_state' = "OPEN"
                /\ k.op = "JOIN" => TCPpresent_state \in {"OPEN", "END"}
                /\ k.op = "UNKNOWN" => TCPpresent_state = "END"
                /\ k.op \in Farewell => TCPpresent_state = "END" \/ Over
                /\ k.op \in Farewell /\ i < Len(toServer') => sigint
    BY <2>1 DEF ToServerInv
  <2>2. i + n \in DOMAIN toServer /\ toServer'[i] = toServer[i + n]
        /\ (i < Len(toServer') => i + n < Len(toServer)) /\ i + n # 1
    BY <1>1
  <2>3. toServer'[i].op = "AUTH" => client_state' = "ACCEPT"
    <3>1. toServer[i + n].op = "AUTH" => client_state = "ACCEPT" /\ i + n = 1
      BY <2>2 DEF SessionInv, ToServerInv, Agree
    <3> QED  BY <2>2, <3>1
  <2> QED  BY <1>2, <2>2, <2>3 DEF SessionInv, ToServerInv
<1>8. ToClientInv'
  <2>1. UNCHANGED <<toClient, sigint, TCPpresent_state>>  BY <1>1 DEF clientVars
  <2>2. (\A i \in DOMAIN toClient : Told(toClient[i]))'
    <3>1. client_state = "END" => client_state' = "END"  BY <1>2
    <3> QED  BY <2>1, <3>1 DEF SessionInv, ToClientInv, Told
  <2>3. op = "JOIN" => TCPpresent_state # "AUTH"
    BY <1>1 DEF SessionInv, ToServerInv
  <2>4. ASSUME NEW i \in DOMAIN todo', todo'[i].do = "send"
        PROVE  /\ todo'[i].msg.op = "REPLY"
               /\ todo'[i].msg.ok \/ TCPpresent_state' # "AUTH"
    <3>1. todo'[i].msg.op = "REPLY" /\ (op = "AUTH" => todo'[i].msg.ok)  BY <2>4
    <3>2. op \in {"AUTH", "JOIN"}
      BY <2>4, <3>1 DEF ToSend
    <3> QED  BY <2>1, <2>3, <3>1, <3>2
  <2>5. \A i \in DOMAIN todo' : todo'[i].do = "send" =>
          LET k == todo'[i].msg IN
            /\ k.op = "ERR" => client_state' = "END"
            /\ k.op = "BYE" => client_state' = "END" \/ sigint'
            /\ k.op = "REPLY" /\ ~k.ok => TCPpresent_state' # "AUTH"
    BY <2>4
  <2> QED  BY <2>2, <2>5 DEF ToClientInv, Told
<1> QED  BY <1>3, <1>4, <1>5, <1>6, <1>7, <1>8 DEF SessionInv

LEMMA Tuples ==
  /\ \A a \in Todo : <<a>> \in Seq(Todo) /\ DOMAIN <<a>> = {1} /\ <<a>>[1] = a
  /\ \A a, b \in Todo : /\ <<a, b>> \in Seq(Todo) /\ DOMAIN <<a, b>> = {1, 2}
                        /\ <<a, b>>[1] = a /\ <<a, b>>[2] = b
  /\ \A a, b, c \in Todo :
       /\ <<a, b, c>> \in Seq(Todo) /\ DOMAIN <<a, b, c>> = {1, 2, 3}
       /\ <<a, b, c>>[1] = a /\ <<a, b, c>>[2] = b /\ <<a, b, c>>[3] = c
  /\ \A a, b, c, d \in Todo :
       /\ <<a, b, c, d>> \in Seq(Todo) /\ DOMAIN <<a, b, c, d>> = {1, 2, 3, 4}
       /\ <<a, b, c, d>>[1] = a /\ <<a, b, c, d>>[2] = b
       /\ <<a, b, c, d>>[3] = c /\ <<a, b, c, d>>[4] = d
OBVIOUS

\* A message is on its way to the handler: what the client agreed to.
LEMMA HeadAgrees ==
  ASSUME SessionInv, UNCHANGED clientVars, NEW op, NEW n \in 1 .. Len(toServer), Receive(n, op)
  PROVE  /\ op = "AUTH" => client_state = "ACCEPT" /\ Parses(n)
         /\ op \in {"JOIN", "MSG"} => client_state = "OPEN"
         /\ op = "UNKNOWN" => TCPpresent_state = "END"
         /\ op = "BYE" => Alone(n)
         /\ client_state \in {"ACCEPT", "OPEN"}
<1>1. /\ 1 \in DOMAIN toServer /\ DOMAIN toServer = 1 .. Len(toServer) /\ n \in DOMAIN toServer
      /\ toServer[1].op = op /\ (op \in Farewell => n = 1)
  BY Taken
<1>2. /\ op = "AUTH" => client_state = "ACCEPT"
      /\ op \in {"JOIN", "MSG"} => client_state = "OPEN"
      /\ op = "UNKNOWN" => TCPpresent_state = "END"
  BY <1>1 DEF SessionInv, ToServerInv
<1>3. client_state \in {"ACCEPT", "OPEN"}
  BY <1>1 DEF SessionInv, Agree, TypeOK, HandlerTypeOK
<1>4. op = "AUTH" => Parses(n)
  <2> SUFFICES ASSUME op = "AUTH", NEW i \in 2 .. n PROVE toServer[i].op = "BYE"
    BY DEF Parses
  <2>1. i \in DOMAIN toServer /\ i # 1  BY <1>1
  <2> QED  BY <1>2, <2>1 DEF SessionInv, Agree
<1>5. op = "BYE" => Alone(n)  BY <1>1 DEF Alone, Farewell
<1> QED  BY <1>2, <1>3, <1>4, <1>5

LEMMA TakeInv ==
  ASSUME SessionInv, UNCHANGED clientVars, NEW n \in 1 .. Len(toServer),
         TakeAuth(n) \/ TakeJoin(n) \/ TakeOther(n) \/ TakeBye(n)
  PROVE  SessionInv'
<1> DEFINE m == Head(toServer)
<1>1. CASE TakeAuth(n)
  <2> DEFINE r == Sends("REPLY", m.n, TRUE)
             a == Calls("add")
  <2>1. Receive(n, "AUTH") /\ client_state = "ACCEPT" /\ Parses(n)  BY <1>1, HeadAgrees DEF TakeAuth
  <2>2. client_state' = "OPEN" /\ todo' = <<r, a>>
    BY <1>1, <2>1 DEF TakeAuth, Answer
  <2>3. m.n \in Nat  BY <2>1, Taken
  <2> HIDE DEF m
  <2>4. /\ r \in Todo /\ r.do = "send" /\ a \in Todo /\ a.do = "add"
        /\ r.msg.op = "REPLY" /\ r.msg.n = m.n /\ r.msg.ok
    <3>1. a \in Todo /\ a.do = "add"  BY CallType
    <3>2. /\ r \in Todo /\ r.do = "send" /\ r.msg.op = "REPLY" /\ r.msg.n = m.n
          /\ r.msg.ok = TRUE
      BY <2>3 DEF Sends, Todo, ToClient
    <3> QED  BY <3>1, <3>2
  <2> HIDE DEF r, a
  <2>5. todo' \in Seq(Todo) /\ DOMAIN todo' = {1, 2} /\ todo'[1] = r /\ todo'[2] = a
    BY <2>2, <2>4, Tuples
  <2>6. /\ \A i, j \in ToSend(todo') : i = j
        /\ \A i \in ToSend(todo') : todo'[i].msg.n = m.n
    BY <2>4, <2>5 DEF ToSend
  <2>7. \A i \in DOMAIN todo' : todo'[i].do = "send" => todo'[i].msg.op = "REPLY" /\ todo'[i].msg.ok
    BY <2>4, <2>5
  <2> QED  BY <2>1, <2>2, <2>5, <2>6, <2>7, TakesOn DEF m
<1>2. CASE TakeJoin(n)
  <2> DEFINE r == Sends("REPLY", m.n, TRUE)
             f == Sends("REPLY", m.n, FALSE)
             a == Calls("add")
             b == Calls("remove")
  <2>1. Receive(n, "JOIN") /\ client_state = "OPEN" /\ client_state' = "OPEN"
    BY <1>2, HeadAgrees DEF TakeJoin
  <2>2. m.n \in Nat  BY <2>1, Taken
  <2>3. todo' = <<b, a, r>> \/ todo' = <<f>>
    BY <1>2 DEF TakeJoin, Answer
  <2> HIDE DEF m
  <2>4. /\ r \in Todo /\ r.do = "send" /\ r.msg.op = "REPLY" /\ r.msg.n = m.n
        /\ f \in Todo /\ f.do = "send" /\ f.msg.op = "REPLY" /\ f.msg.n = m.n
        /\ a \in Todo /\ a.do = "add" /\ b \in Todo /\ b.do = "remove"
    <3>1. a \in Todo /\ a.do = "add" /\ b \in Todo /\ b.do = "remove"  BY CallType
    <3>2. r \in Todo /\ r.do = "send" /\ r.msg.op = "REPLY" /\ r.msg.n = m.n
      BY <2>2 DEF Sends, Todo, ToClient
    <3>3. f \in Todo /\ f.do = "send" /\ f.msg.op = "REPLY" /\ f.msg.n = m.n
      BY <2>2 DEF Sends, Todo, ToClient
    <3> QED  BY <3>1, <3>2, <3>3
  <2> HIDE DEF r, f, a, b
  <2>5. /\ todo' \in Seq(Todo)
        /\ \/ DOMAIN todo' = {1, 2, 3} /\ todo'[1] = b /\ todo'[2] = a /\ todo'[3] = r
           \/ DOMAIN todo' = {1} /\ todo'[1] = f
    <3>1. CASE todo' = <<b, a, r>>
      <4>1. /\ <<b, a, r>> \in Seq(Todo) /\ DOMAIN <<b, a, r>> = {1, 2, 3}
            /\ <<b, a, r>>[1] = b /\ <<b, a, r>>[2] = a /\ <<b, a, r>>[3] = r
        BY <2>4, Tuples
      <4> QED  BY <3>1, <4>1
    <3>2. CASE todo' = <<f>>
      <4>1. <<f>> \in Seq(Todo) /\ DOMAIN <<f>> = {1} /\ <<f>>[1] = f  BY <2>4, Tuples
      <4> QED  BY <3>2, <4>1
    <3> QED  BY <2>3, <3>1, <3>2
  <2>6. /\ \A i, j \in ToSend(todo') : i = j
        /\ \A i \in ToSend(todo') : todo'[i].msg.n = m.n
        /\ \A i \in DOMAIN todo' : todo'[i].do = "send" => todo'[i].msg.op = "REPLY"
    BY <2>4, <2>5 DEF ToSend
  <2> QED  BY <2>1, <2>5, <2>6, TakesOn DEF m
<1>3. CASE TakeOther(n)
  <2>1. PICK op \in {"MSG", "ERR"} : Receive(n, op)  BY <1>3 DEF TakeOther
  <2>2. todo' = << >> /\ client_state' = client_state  BY <1>3, <2>1, Taken DEF TakeOther
  <2>3. todo' \in Seq(Todo) /\ DOMAIN todo' = {}  BY <2>2, EmptySeq, LenProperties
  <2> QED  BY <2>1, <2>2, <2>3, TakesOn DEF ToSend
<1>4. CASE TakeBye(n)
  <2>1. Receive(n, "BYE") /\ client_state' = client_state /\ todo' = <<Calls("remove"), Calls("quit")>>
    BY <1>4 DEF TakeBye
  <2>2. Calls("remove") \in Todo /\ Calls("quit") \in Todo
        /\ Calls("remove").do = "remove" /\ Calls("quit").do = "quit"
    BY CallType
  <2>3. /\ todo' \in Seq(Todo) /\ DOMAIN todo' = {1, 2}
        /\ todo'[1] = Calls("remove") /\ todo'[2] = Calls("quit")
    BY <2>1, <2>2, Tuples
  <2>4. \A i \in DOMAIN todo' : todo'[i].do \in {"remove", "quit"}
    BY <2>2, <2>3
  <2> QED  BY <2>1, <2>3, <2>4, TakesOn DEF ToSend
<1> QED  BY <1>1, <1>2, <1>3, <1>4

\* What the handler does not know ends the session; it was the client's last word.
LEMMA TakeUnknownInv ==
  ASSUME SessionInv, UNCHANGED clientVars, NEW n \in 1 .. Len(toServer), TakeUnknown(n)
  PROVE  SessionInv'
<1>1. Receive(n, "UNKNOWN")  BY HeadAgrees DEF TakeUnknown
<1>2. /\ 1 \in DOMAIN toServer /\ toServer[1].op = "UNKNOWN" /\ merged' \in BOOLEAN
      /\ UNCHANGED <<sigint, passed, run, listed, said, toClient, closed>>
      /\ ~sigint /\ Up /\ toServer' = << >> /\ toServer' \in Seq(ToServer) /\ Up' = Up
  BY <1>1, Taken DEF Farewell
<1>3. /\ TCPpresent_state = "END" /\ client_state \in {"ACCEPT", "OPEN"} /\ client_state # "ACCEPT"
      /\ DOMAIN toServer' = {}
  BY <1>1, <1>2, HeadAgrees, EmptySeq, LenProperties DEF SessionInv, Agree
<1> DEFINE a == Sends("ERR", 0, TRUE)
           b == Sends("BYE", 0, TRUE)
           c == Calls("remove")
           d == Calls("quit")
<1>4. client_state' = "END" /\ todo' = <<a, b, c, d>>
  BY DEF TakeUnknown
<1>5. /\ a \in Todo /\ b \in Todo /\ c \in Todo /\ d \in Todo
      /\ a.msg.op = "ERR" /\ b.msg.op = "BYE" /\ c.do = "remove" /\ d.do = "quit"
  <2>1. c \in Todo /\ d \in Todo /\ c.do = "remove" /\ d.do = "quit"  BY CallType
  <2>2. a \in Todo /\ b \in Todo /\ a.msg.op = "ERR" /\ b.msg.op = "BYE"
    BY DEF Sends, Todo, ToClient
  <2> QED  BY <2>1, <2>2
<1> HIDE DEF a, b, c, d
<1>6. /\ todo' \in Seq(Todo)
      /\ \A i \in DOMAIN todo' : todo'[i].do = "send" => todo'[i].msg.op \in {"ERR", "BYE"}
  <2>1. /\ todo' \in Seq(Todo) /\ DOMAIN todo' = {1, 2, 3, 4}
        /\ todo'[1] = a /\ todo'[2] = b /\ todo'[3] = c /\ todo'[4] = d
    BY <1>4, <1>5, Tuples
  <2> QED  BY <1>5, <2>1
<1>7. TypeOK'
  BY <1>2, <1>4, <1>6 DEF SessionInv, TypeOK, ClientTypeOK, HandlerTypeOK, clientVars, inputVars
<1>8. OneUnderWay'
  <2>1. ToSend(todo)' = {} /\ Requests(toServer)' = {} /\ Replies(toClient)' = Replies(toClient)
    BY <1>2, <1>3, <1>6 DEF ToSend, Requests, Replies
  <2> QED  BY <1>2, <2>1 DEF SessionInv, OneUnderWay, clientVars
<1>9. ClientLoopInv'
  BY <1>2 DEF SessionInv, ClientLoopInv, clientVars, inputVars
<1>10. Agree'
  <2>1. pc = "socket" => toClient # << >>
    BY <1>2 DEF SessionInv, ClientLoopInv
  <2>2. toClient # << >> => 1 \in DOMAIN toClient
    BY LenProperties, EmptySeq DEF SessionInv, TypeOK, HandlerTypeOK
  <2>3. toClient # << >> => toClient[1].op \notin {"ERR", "BYE"}
    BY <1>2, <1>3, <2>2 DEF SessionInv, ToClientInv, Told
  <2> QED  BY <1>2, <1>3, <1>4, <2>1, <2>3 DEF SessionInv, Agree, clientVars
<1>11. ToServerInv'
  BY <1>3 DEF ToServerInv
<1>12. ToClientInv'
  BY <1>2, <1>4, <1>6 DEF SessionInv, ToClientInv, Told, clientVars
<1> QED  BY <1>7, <1>8, <1>9, <1>10, <1>11, <1>12 DEF SessionInv

-----------------------------------------------------------------------------
(* The handler acts, and the rest of the server.                           *)

\* The steps that leave the streams alone.
LEMMA ServerAlone ==
  ASSUME SessionInv, UNCHANGED clientVars,
         Accept \/ Eof \/ Stops \/ stop_listening \/ Exit
  PROVE  SessionInv'
<1>1. /\ UNCHANGED <<client_state, todo, listed, said, toServer, toClient, merged>>
      /\ sigint' \in BOOLEAN /\ passed' \in BOOLEAN /\ (sigint => sigint')
      /\ run' \in {"new", "running", "ended"}
      /\ closed' \subseteq {"client", "server"} /\ (~Up => ~Up')
      /\ \A i \in DOMAIN todo : todo'[i] = todo[i]
  <2>1. CASE Accept \/ Eof \/ Stops
    BY <2>1 DEF Accept, Eof, Stops, streamVars, Up, SessionInv, TypeOK, HandlerTypeOK
  <2>2. CASE stop_listening
    BY <2>2 DEF stop_listening, streamVars, Up, SessionInv, TypeOK, HandlerTypeOK
  <2>3. CASE Exit
    BY <2>3 DEF Exit, handlerVars, Up, SessionInv, TypeOK, HandlerTypeOK
  <2> QED  BY <2>1, <2>2, <2>3
<1>2. TypeOK'
  BY <1>1 DEF SessionInv, TypeOK, ClientTypeOK, HandlerTypeOK, clientVars, inputVars
<1>3. OneUnderWay'
  BY <1>1 DEF SessionInv, OneUnderWay, Requests, Replies, ToSend, clientVars
<1>4. ClientLoopInv'
  BY <1>1 DEF SessionInv, ClientLoopInv, clientVars, inputVars
<1>5. Agree'
  BY <1>1 DEF SessionInv, Agree, Over, clientVars
<1>6. ToServerInv'
  BY <1>1 DEF SessionInv, ToServerInv, Over, clientVars
<1>7. ToClientInv'
  BY <1>1 DEF SessionInv, ToClientInv, Told, clientVars
<1> QED  BY <1>2, <1>3, <1>4, <1>5, <1>6, <1>7 DEF SessionInv

\* What the next state looks like when m has been sent to the client.
LEMMA Reached ==
  ASSUME SessionInv, NEW m \in ToClient, Reaches(m)
  PROVE  /\ toClient' \in Seq(ToClient)
         /\ toClient # << >> => toClient' # << >> /\ toClient'[1] = toClient[1]
         /\ \A i \in DOMAIN toClient' :
              \/ i \in DOMAIN toClient /\ toClient'[i] = toClient[i]
              \/ i = Len(toClient) + 1 /\ toClient'[i] = m
<1>1. toClient \in Seq(ToClient)  BY DEF SessionInv, TypeOK, HandlerTypeOK
<1> DEFINE l == Len(toClient)
<1>2. l \in Nat /\ DOMAIN toClient = 1 .. l /\ (toClient # << >> => l # 0)
  BY <1>1, LenProperties, EmptySeq
<1>3. CASE "client" \in closed
  BY <1>1, <1>3 DEF Reaches
<1>4. CASE "client" \notin closed
  <2>1. toClient' = toClient \o <<m>>  BY <1>1, <1>4, OneMore DEF Reaches
  <2>2. /\ toClient' \in Seq(ToClient) /\ toClient' # << >> /\ DOMAIN toClient' = 1 .. l + 1
        /\ \A i \in 1 .. l : toClient'[i] = toClient[i]
        /\ toClient'[l + 1] = m
    BY <1>1, <2>1, OneMore
  <2> HIDE DEF l
  <2>3. \A i \in 1 .. l + 1 : i \in 1 .. l \/ i = l + 1  BY <1>2
  <2>4. toClient # << >> => 1 \in 1 .. l  BY <1>2
  <2> QED  BY <1>2, <2>2, <2>3, <2>4 DEF l
<1> QED  BY <1>3, <1>4

\* Another client's message, and the server's BYE, at any time.
LEMMA ServerTells ==
  ASSUME SessionInv, UNCHANGED clientVars, OthersSay \/ send_bye_to_all
  PROVE  SessionInv'
<1>0. /\ UNCHANGED <<client_state, todo, listed, toServer, merged, sigint, run, closed>>
      /\ passed' \in BOOLEAN /\ said' \in 0 .. MaxSaid
  <2>1. CASE OthersSay
    <3>1. said' \in 0 .. MaxSaid
      BY <2>1, TcpHandlerAssumption DEF OthersSay, SessionInv, TypeOK, HandlerTypeOK
    <3>2. passed' \in BOOLEAN
      BY <2>1 DEF OthersSay, SessionInv, TypeOK, HandlerTypeOK
    <3> QED  BY <2>1, <3>1, <3>2 DEF OthersSay
  <2>2. CASE send_bye_to_all
    <3>1. passed' = TRUE /\ said' \in 0 .. MaxSaid
      BY <2>2 DEF send_bye_to_all, SessionInv, TypeOK, HandlerTypeOK
    <3> QED  BY <2>2, <3>1 DEF send_bye_to_all
  <2> QED  BY <2>1, <2>2
<1>1. CASE UNCHANGED toClient
  <2>1. /\ UNCHANGED <<client_state, todo, listed, toServer, toClient, merged, sigint, run, closed>>
        /\ passed' \in BOOLEAN /\ said' \in 0 .. MaxSaid
    BY <1>0, <1>1
  <2>2. TypeOK'
    BY <2>1 DEF SessionInv, TypeOK, ClientTypeOK, HandlerTypeOK, clientVars, inputVars
  <2>3. OneUnderWay' /\ ClientLoopInv'
    BY <2>1 DEF SessionInv, OneUnderWay, ClientLoopInv, Requests, Replies, ToSend, Up, clientVars, inputVars
  <2>4. Agree'
    BY <2>1 DEF SessionInv, Agree, Up, Over, clientVars
  <2>5. ToServerInv' /\ ToClientInv'
    BY <2>1 DEF SessionInv, ToServerInv, ToClientInv, Told, Over, clientVars
  <2> QED  BY <2>2, <2>3, <2>4, <2>5 DEF SessionInv
<1>2. CASE ~UNCHANGED toClient
  <2> DEFINE m == [op |-> IF OthersSay THEN "MSG" ELSE "BYE", n |-> 0, ok |-> TRUE]
  <2>1. m \in ToClient /\ (m.op = "MSG" \/ (m.op = "BYE" /\ sigint))
    BY DEF ToClient, OthersSay, send_bye_to_all
  <2>2. /\ UNCHANGED <<client_state, todo, listed, toServer, merged, sigint, run, closed>>
        /\ passed' \in BOOLEAN /\ said' \in 0 .. MaxSaid
        /\ listed /\ Up /\ Reaches(m)
    <3>1. CASE OthersSay
      <4>1. m = [op |-> "MSG", n |-> 0, ok |-> TRUE]  BY <3>1
      <4> QED  BY <1>0, <3>1, <4>1 DEF OthersSay
    <3>2. CASE ~OthersSay
      <4>1. m = [op |-> "BYE", n |-> 0, ok |-> TRUE]  BY <3>2
      <4> QED  BY <1>0, <1>2, <3>2, <4>1 DEF send_bye_to_all
    <3> QED  BY <3>1, <3>2
  <2> HIDE DEF m
  <2>3. /\ toClient' \in Seq(ToClient)
        /\ toClient # << >> => toClient' # << >> /\ toClient'[1] = toClient[1]
        /\ \A i \in DOMAIN toClient' :
             \/ i \in DOMAIN toClient /\ toClient'[i] = toClient[i]
             \/ toClient'[i] = m
    BY <2>1, <2>2, Reached
  <2>4. client_state # "ACCEPT"  BY <2>2 DEF SessionInv, Agree
  <2>5. TypeOK'
    BY <2>2, <2>3 DEF SessionInv, TypeOK, ClientTypeOK, HandlerTypeOK, clientVars, inputVars
  <2>6. OneUnderWay'
    <3>1. Requests(toServer)' = Requests(toServer) /\ ToSend(todo)' = ToSend(todo)
      BY <2>2 DEF Requests, ToSend
    <3>2. \A i \in Replies(toClient)' : i \in Replies(toClient) /\ toClient'[i] = toClient[i]
      BY <2>1, <2>3 DEF Replies
    <3> QED  BY <2>2, <3>1, <3>2 DEF SessionInv, OneUnderWay, clientVars
  <2>7. ClientLoopInv'
    BY <2>2, <2>3 DEF SessionInv, ClientLoopInv, Up, clientVars, inputVars
  <2>8. Agree'
    BY <2>2, <2>3, <2>4 DEF SessionInv, Agree, Over, Up, clientVars
  <2>9. ToServerInv'
    BY <2>2 DEF SessionInv, ToServerInv, Over, clientVars
  <2>10. ToClientInv'
    BY <2>1, <2>2, <2>3 DEF SessionInv, ToClientInv, Told, clientVars
  <2> QED  BY <2>5, <2>6, <2>7, <2>8, <2>9, <2>10 DEF SessionInv
<1> QED  BY <1>1, <1>2

\* The next thing the handler does about a message.
LEMMA ProceedInv ==
  ASSUME SessionInv, UNCHANGED clientVars, Proceed
  PROVE  SessionInv'
<1> DEFINE h == todo[1]
           l == Len(todo)
<1>1. todo \in Seq(Todo) /\ todo # << >>  BY DEF Proceed, SessionInv, TypeOK, HandlerTypeOK
<1>2. /\ l \in Nat /\ DOMAIN todo = 1 .. l /\ l # 0 /\ Head(todo) = h /\ h \in Todo
  BY <1>1, LenProperties, EmptySeq, ElementOfSeq
<1>3. todo' \in Seq(Todo) /\ DOMAIN todo' = 1 .. l - 1 /\ \A i \in 1 .. l - 1 : todo'[i] = todo[i + 1]
  <2>1. todo' = Tail(todo)  BY DEF Proceed
  <2>2. /\ Tail(todo) \in Seq(Todo) /\ Len(Tail(todo)) = l - 1
        /\ \A i \in 1 .. Len(Tail(todo)) : Tail(todo)[i] = todo[i + 1]
    BY <1>1, HeadTailProperties
  <2>3. DOMAIN Tail(todo) = 1 .. Len(Tail(todo))  BY <2>2, LenProperties
  <2> QED  BY <2>1, <2>2, <2>3
<1>4. 1 \in DOMAIN todo
      /\ \A i \in DOMAIN todo' : i + 1 \in DOMAIN todo /\ i + 1 # 1 /\ todo'[i] = todo[i + 1]
  <2> HIDE DEF l
  <2> QED  BY <1>2, <1>3
<1>5. /\ UNCHANGED <<sigint, passed, client_state, said, toServer, closed, merged>> /\ Up
      /\ run' \in {"new", "running", "ended"} /\ listed' \in BOOLEAN
      /\ listed' => listed \/ h.do = "add"
      /\ IF h.do = "send" THEN Reaches(h.msg) ELSE toClient' = toClient
  <2>1. listed' \in BOOLEAN /\ (listed' => listed \/ h.do = "add")
    BY <1>2 DEF Proceed
  <2> QED  BY <1>2, <2>1 DEF Proceed, SessionInv, TypeOK, HandlerTypeOK
<1>6. h.msg \in ToClient  BY <1>2 DEF Todo
<1>7. /\ toClient' \in Seq(ToClient)
      /\ toClient # << >> => toClient' # << >> /\ toClient'[1] = toClient[1]
      /\ \A i \in DOMAIN toClient' :
           \/ i \in DOMAIN toClient /\ toClient'[i] = toClient[i]
           \/ h.do = "send" /\ i = Len(toClient) + 1 /\ toClient'[i] = h.msg
  <2>1. CASE h.do = "send"  BY <1>5, <1>6, <2>1, Reached
  <2>2. CASE h.do # "send"  BY <1>5, <2>2 DEF SessionInv, TypeOK, HandlerTypeOK
  <2> QED  BY <2>1, <2>2
<1>8. client_state = "ACCEPT" => toClient' = toClient /\ ~listed'
  BY <1>4, <1>5 DEF SessionInv, Agree
<1> HIDE DEF h, l
<1>9. h = todo[1]  BY DEF h
<1>10. TypeOK'
  BY <1>3, <1>5, <1>7 DEF SessionInv, TypeOK, ClientTypeOK, HandlerTypeOK, clientVars, inputVars
<1>11. OneUnderWay'
  <2>1. Requests(toServer)' = Requests(toServer) /\ UNCHANGED <<toServer, gotReply, asked>>
    BY <1>5 DEF Requests, clientVars
  <2>2. \A i \in ToSend(todo') : i + 1 \in ToSend(todo) /\ i + 1 # 1 /\ todo'[i] = todo[i + 1]
    BY <1>4 DEF ToSend
  <2>3. \A i, j \in ToSend(todo') : i = j
    <3> SUFFICES ASSUME NEW i \in ToSend(todo'), NEW j \in ToSend(todo') PROVE i = j
      OBVIOUS
    <3>1. i + 1 = j + 1  BY <2>2 DEF SessionInv, OneUnderWay
    <3>2. i \in Int /\ j \in Int  BY <1>3 DEF ToSend
    <3> QED  BY <3>1, <3>2
  <2>4. CASE h.do = "send" /\ h.msg.op = "REPLY"
    <3>1. 1 \in ToSend(todo)  BY <1>4, <1>9, <2>4 DEF ToSend
    <3>2. /\ Replies(toClient) = {} /\ Requests(toServer) = {} /\ h.msg.n = asked /\ ~gotReply
          /\ \A i \in ToSend(todo) : i = 1
      BY <1>9, <3>1 DEF SessionInv, OneUnderWay
    <3>3. ToSend(todo') = {}  BY <2>2, <3>2
    <3>4. \A i \in Replies(toClient') : i = Len(toClient) + 1 /\ toClient'[i] = h.msg
      BY <1>7, <3>2 DEF Replies
    <3> QED  BY <2>1, <3>2, <3>3, <3>4 DEF OneUnderWay
  <2>5. CASE ~(h.do = "send" /\ h.msg.op = "REPLY")
    <3>1. \A i \in Replies(toClient') : i \in Replies(toClient) /\ toClient'[i] = toClient[i]
      BY <1>7, <2>5 DEF Replies
    <3> QED  BY <2>1, <2>2, <2>3, <3>1 DEF SessionInv, OneUnderWay
  <2> QED  BY <2>4, <2>5
<1>12. ClientLoopInv'
  BY <1>5, <1>7 DEF SessionInv, ClientLoopInv, Up, clientVars, inputVars
<1>13. Agree'
  BY <1>4, <1>5, <1>7, <1>8 DEF SessionInv, Agree, Over, Up, clientVars
<1>14. ToServerInv'
  BY <1>5 DEF SessionInv, ToServerInv, Over, clientVars
<1>15. ToClientInv'
  <2>1. UNCHANGED <<client_state, sigint, TCPpresent_state>>  BY <1>5 DEF clientVars
  <2>2. h.do = "send" => Told(h.msg)  BY <1>4, <1>9 DEF SessionInv, ToClientInv
  <2> QED  BY <1>4, <1>7, <2>1, <2>2 DEF SessionInv, ToClientInv, Told
<1> QED  BY <1>10, <1>11, <1>12, <1>13, <1>14, <1>15 DEF SessionInv

-----------------------------------------------------------------------------
(* The session.                                                            *)

LEMMA ReadLineInv ==
  ASSUME SessionInv, UNCHANGED handlerVars, ReadLine
  PROVE  SessionInv'
<1>1. CASE ReadAuth \/ ReadJoin  BY <1>1, ClientAsks
<1>2. CASE ReadMsg
  <2>1. Out(<<Message("MSG")>>) /\ Message("MSG") \in ToServer
    BY <1>2, MessageTypes DEF ReadMsg
  <2> QED  BY <1>2, <2>1, ClientTalks
<1>3. CASE ReadLocal \/ ReadEnd
  BY <1>3, ClientAlone DEF ReadLocal, ReadEnd, Reads, Closes
<1>4. ASSUME NEW kind \in Lines, ReadRefused(kind)
      PROVE  SessionInv'
  BY <1>4, ClientAlone DEF ReadRefused, Reads
<1>5. ASSUME NEW kind \in Lines, ReadBye(kind, << >>)
      PROVE  SessionInv'
  BY <1>5, ClientSilent
<1>6. ASSUME NEW kind \in Lines, NEW op \in {"BYE", "UNKNOWN"}, ReadBye(kind, <<Message(op)>>)
      PROVE  SessionInv'
  <2>1. Out(<<Message(op)>>) /\ Message(op) \in ToServer /\ Message(op).op \in {"BYE", "UNKNOWN"}
    BY <1>6, MessageTypes DEF ReadBye
  <2> QED  BY <1>6, <2>1, ClientTalks
<1> QED  BY <1>1, <1>2, <1>3, <1>4, <1>5, <1>6 DEF ReadLine

LEMMA StepInv == SessionInv /\ [Next]_vars => SessionInv'
<1> SUFFICES ASSUME SessionInv, [Next]_vars PROVE SessionInv'  OBVIOUS
<1>1. CASE ClientLoop
  <2>1. UNCHANGED handlerVars  BY <1>1 DEF ClientLoop
  <2>2. CASE Check \/ Leave \/ (\E sock \in BOOLEAN : Select(sock)) \/ Broken
    <3>1. UNCHANGED <<toServer, toClient>>
      BY <2>2 DEF Check, Leave, Select, Broken, streamVars
    <3> QED  BY <2>1, <2>2, <3>1, ClientAlone
  <2>3. CASE ReadLine  BY <2>1, <2>3, ReadLineInv
  <2>4. CASE ReadSocket
    <3>1. PICK n \in 1 .. Len(toClient) :
            GotReply(n) \/ GotMsg(n) \/ GotErr(n) \/ GotBye(n) \/ GotUnknown(n)
      BY <2>4 DEF ReadSocket
    <3> QED  BY <2>1, <3>1, NoErr, ClientGets, ClientGetsUnknown
  <2> QED  BY <1>1, <2>2, <2>3, <2>4 DEF ClientLoop, Loop
<1>2. CASE UserStep
  <2>1. UNCHANGED handlerVars  BY <1>2 DEF UserStep
  <2>2. CASE Interrupted
    <3>1. Out(<<Message("BYE")>>) /\ Message("BYE") \in ToServer
      BY <2>2, MessageTypes DEF Interrupted
    <3> QED  BY <2>1, <2>2, <3>1, ClientTalks
  <2>3. CASE close_tcp \/ EndInput \/ \E k \in 1 .. IF Pasting THEN 2 ELSE 1 : Type(k)
    <3>1. UNCHANGED <<toServer, toClient>>
      BY <2>3 DEF close_tcp, EndInput, Type, streamVars
    <3> QED  BY <2>1, <2>3, <3>1, ClientAlone
  <2> QED  BY <1>2, <2>2, <2>3 DEF UserStep, User
<1>3. CASE HandlerStep
  <2>1. UNCHANGED clientVars  BY <1>3 DEF HandlerStep
  <2>2. CASE Take
    <3>1. PICK n \in 1 .. Len(toServer) :
            TakeAuth(n) \/ TakeJoin(n) \/ TakeOther(n) \/ TakeBye(n) \/ TakeUnknown(n)
      BY <2>2 DEF Take
    <3> QED  BY <2>1, <3>1, TakeInv, TakeUnknownInv
  <2> QED  BY <1>3, <2>1, <2>2, ServerAlone, ProceedInv DEF HandlerStep, Handler
<1>4. CASE AroundStep
  BY <1>4, ServerAlone, ServerTells DEF AroundStep, Around
<1>5. CASE UNCHANGED vars
  <2>1. UNCHANGED <<clientVars, handlerVars, streamVars>>  BY <1>5 DEF vars
  <2>2. TypeOK'
    BY <2>1 DEF SessionInv, TypeOK, ClientTypeOK, HandlerTypeOK, clientVars, inputVars,
                handlerVars, streamVars
  <2>3. OneUnderWay' /\ ClientLoopInv'
    BY <2>1 DEF SessionInv, OneUnderWay, ClientLoopInv, Requests, Replies, ToSend, Up,
                clientVars, inputVars, handlerVars, streamVars
  <2>4. Agree' /\ ToServerInv' /\ ToClientInv'
    BY <2>1 DEF SessionInv, Agree, ToServerInv, ToClientInv, Told, Over, Up,
                clientVars, handlerVars, streamVars
  <2> QED  BY <2>2, <2>3, <2>4 DEF SessionInv
<1> QED  BY <1>1, <1>2, <1>3, <1>4, <1>5 DEF Next, Quiet

LEMMA AlwaysInv == Spec => []SessionInv
BY InitInv, StepInv, PTL DEF Spec

\* The variables of the two ends (run_tcp's locals, tcp.c:28; a handler's, handle_tcp.c:20)
\* and the streams between them keep their types; no more lines are waiting or
\* read ahead than were typed.
THEOREM TypeCorrect == Spec => []TypeOK
<1>1. SessionInv => TypeOK  BY DEF SessionInv
<1> QED  BY <1>1, AlwaysInv, PTL

\* Whatever REPLY unlocks the client's input (tcp.c:287) answers its last request.
THEOREM RightReplyHolds == Spec => []RightReply
<1>1. SessionInv => RightReply
  BY DEF SessionInv, OneUnderWay, RightReply
<1> QED  BY <1>1, AlwaysInv, PTL

\* What the client lets its user send in the state it is in (tcp.c), the handler
\* accepts in the state that it has come to by itself (tcp_receiver.c).
THEOREM NeverRefusedHolds == Spec => []NeverRefused
<1>1. ASSUME SessionInv PROVE NeverRefused
  <2>1. /\ client_state \in {"ACCEPT", "OPEN", "END"}
        /\ \A i \in DOMAIN toServer : client_state # "END"
    BY <1>1, EmptySeq, LenProperties DEF SessionInv, TypeOK, HandlerTypeOK, Agree
  <2>2. \A i \in DOMAIN toServer :
          /\ toServer[i].op = "AUTH" => client_state = "ACCEPT"
          /\ toServer[i].op \in {"JOIN", "MSG"} => client_state = "OPEN"
    BY <1>1 DEF SessionInv, ToServerInv
  <2> QED  BY <2>1, <2>2 DEF NeverRefused, Accepted
<1> QED  BY <1>1, AlwaysInv, PTL

\* The handler says ERR only in the answer to a client's last word, and the client
\* is out of its loop before it could read it: its ERR branch (tcp.c:242) never runs
\* against this server.
THEOREM NeverTakesErr == Spec => [][\A n \in 1 .. Len(toClient) : ~GotErr(n)]_vars
<1>1. SessionInv => \A n \in 1 .. Len(toClient) : ~GotErr(n)  BY NoErr
<1> QED  BY <1>1, AlwaysInv, PTL
=============================================================================
