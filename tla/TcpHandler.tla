----------------------------- MODULE TcpHandler -----------------------------
(***************************************************************************)
(* The server's side of one TCP connection: handle_tcp with the parser     *)
(* (tcp_receiver.c), and of the rest of the server what reaches this       *)
(* client: the messages other handlers forward to it and the shutdown.     *)
(***************************************************************************)
EXTENDS TcpStream

CONSTANTS MaxSaid,   \* how often others speak while the client is listed
          Stopping   \* the server may be stopped
ASSUME TcpHandlerAssumption == MaxSaid \in Nat /\ Stopping \in BOOLEAN

VARIABLES
  sigint, passed,    \* C-c was pressed; send_bye_to_all is over
  client_state,
  run,               \* of the handler: "new", "running", "ended"
  todo,              \* what it still does about the message it has received
  listed,            \* the client is in a channel
  said               \* how often others have spoken

handlerVars == <<sigint, passed, client_state, run, todo, listed, said>>

\* A REPLY names the request it answers; the others say n = 0.
ToClient == [op : {"REPLY", "MSG", "ERR", "BYE"}, n : Nat, ok : BOOLEAN]
Sends(op, n, ok) == [do |-> "send", msg |-> [op |-> op, n |-> n, ok |-> ok]]
Calls(what)      == [do |-> what, msg |-> [op |-> "MSG", n |-> 0, ok |-> TRUE]]
Todo == [do : {"send", "add", "remove", "quit"}, msg : ToClient]

HandlerTypeOK ==
  /\ sigint \in BOOLEAN /\ passed \in BOOLEAN /\ listed \in BOOLEAN
  /\ client_state \in {"ACCEPT", "AUTH_failed", "OPEN", "END"}
  /\ run \in {"new", "running", "ended"}
  /\ todo \in Seq(Todo) /\ toClient \in Seq(ToClient)
  /\ said \in 0 .. MaxSaid

HandlerInit ==
  /\ sigint = FALSE /\ passed = FALSE
  /\ client_state = "ACCEPT" /\ run = "new" /\ todo = << >>
  /\ listed = FALSE /\ said = 0

-----------------------------------------------------------------------------
(* Receiving.                                                              *)

Up == "server" \notin closed

Accept ==
  /\ Up /\ run = "new" /\ ~sigint
  /\ run' = "running"
  /\ UNCHANGED <<sigint, passed, client_state, todo, listed, said, streamVars>>

\* The handler receives n messages and handles them as the first, an op.
Receive(n, op) ==
  /\ Up /\ run = "running" /\ todo = << >> /\ ~sigint
  /\ n \in Batches(toServer) /\ Head(toServer).op = op
  /\ toServer' = Rest(toServer, n) /\ Noted(n)
  /\ UNCHANGED <<sigint, passed, run, listed, said, toClient, closed>>

Answer(ok) == Sends("REPLY", Head(toServer).n, ok)

\* What follows an AUTH or a JOIN becomes part of its last word, if it is one
\* word: BYE.  More words are too many.
Parses(n) == \A i \in 2 .. n : toServer[i].op = "BYE"

TakeAuth(n) ==
  /\ Receive(n, "AUTH")
  /\ client_state' = IF client_state # "ACCEPT" THEN client_state
                     ELSE IF Parses(n) THEN "OPEN" ELSE "AUTH_failed"
  /\ todo' = IF client_state = "ACCEPT" /\ Parses(n)
             THEN <<Answer(TRUE), Calls("add")>> ELSE <<Answer(FALSE)>>

\* Variant: a JOIN is not answered.
TakeJoin_unanswered(n) ==
  /\ Receive(n, "JOIN") /\ UNCHANGED client_state
  /\ todo' = <<Calls("remove"), Calls("add")>>

TakeJoin(n) ==
  /\ Receive(n, "JOIN") /\ UNCHANGED client_state
  /\ todo' = IF client_state = "OPEN" /\ Parses(n)
             THEN <<Calls("remove"), Calls("add"), Answer(TRUE)>>
             ELSE <<Answer(FALSE)>>

\* A message is forwarded, with all that follows it; ERR, with all that follows
\* it, changes nothing.
TakeOther(n) ==
  /\ Receive(n, "MSG") \/ Receive(n, "ERR")
  /\ UNCHANGED <<client_state, todo>>

\* Variant: the client is not taken out of its channel.
TakeBye_keeps(n) ==
  /\ Receive(n, "BYE") /\ Alone(n) /\ UNCHANGED client_state
  /\ todo' = <<Calls("quit")>>

TakeBye(n) ==
  /\ Receive(n, "BYE") /\ Alone(n) /\ UNCHANGED client_state
  /\ todo' = <<Calls("remove"), Calls("quit")>>

\* BYE with more behind it is no BYE.
TakeUnknown(n) ==
  /\ Receive(n, "UNKNOWN") \/ (Receive(n, "BYE") /\ ~Alone(n))
  /\ client_state' = "END"
  /\ todo' = <<Sends("ERR", 0, TRUE), Sends("BYE", 0, TRUE), Calls("remove"), Calls("quit")>>

\* The client has closed; its entry stays.
Eof ==
  /\ Up /\ run = "running" /\ todo = << >> /\ ~sigint
  /\ toServer = << >> /\ "client" \in closed
  /\ run' = "ended"
  /\ UNCHANGED <<sigint, passed, client_state, todo, listed, said, streamVars>>

\* The next thing the handler does about the message.
Reaches(m) == toClient' = IF "client" \in closed THEN toClient ELSE Append(toClient, m)

Proceed ==
  /\ Up /\ todo # << >>
  /\ todo' = Tail(todo)
  /\ IF Head(todo).do = "send" THEN Reaches(Head(todo).msg) ELSE UNCHANGED toClient
  /\ listed' = (Head(todo).do = "add" \/ (listed /\ Head(todo).do # "remove"))
  /\ run' = IF Head(todo).do = "quit" THEN "ended" ELSE run
  /\ UNCHANGED <<sigint, passed, client_state, said, toServer, closed, merged>>

-----------------------------------------------------------------------------
(* The rest of the server.                                                 *)

\* Another handler's send_all.
OthersSay ==
  /\ Up /\ listed /\ said < MaxSaid
  /\ said' = said + 1
  /\ Reaches([op |-> "MSG", n |-> 0, ok |-> TRUE])
  /\ UNCHANGED <<sigint, passed, client_state, run, todo, listed, toServer, closed, merged>>

stop_listening ==
  /\ Stopping /\ Up /\ ~sigint
  /\ sigint' = TRUE
  /\ UNCHANGED <<passed, client_state, run, todo, listed, said, streamVars>>

Stops ==
  /\ Up /\ run = "running" /\ todo = << >> /\ sigint
  /\ run' = "ended"
  /\ UNCHANGED <<sigint, passed, client_state, todo, listed, said, streamVars>>

send_bye_to_all ==
  /\ Up /\ sigint /\ ~passed
  /\ passed' = TRUE
  /\ IF listed THEN Reaches([op |-> "BYE", n |-> 0, ok |-> TRUE]) ELSE UNCHANGED toClient
  /\ UNCHANGED <<sigint, client_state, run, todo, listed, said, toServer, closed, merged>>

\* The process ends: after the pass, whether or not this handler was the one
\* that is waited for; or because a send, or the recv, fails on a connection
\* that the client has closed.
Exit ==
  /\ Up
  /\ \/ passed
     \/ "client" \in closed /\ \/ run = "running" /\ toClient # << >>
                               \/ todo # << >> /\ Head(todo).do = "send"
                               \/ listed /\ said < MaxSaid
                               \/ listed /\ sigint /\ ~passed
  /\ closed' = closed \cup {"server"}
  /\ UNCHANGED <<handlerVars, toServer, toClient, merged>>

Take == \E n \in 1 .. Len(toServer) :
          TakeAuth(n) \/ TakeJoin(n) \/ TakeOther(n) \/ TakeBye(n) \/ TakeUnknown(n)

Handler == Accept \/ Take \/ Eof \/ Proceed \/ Stops
Around  == OthersSay \/ stop_listening \/ send_bye_to_all \/ Exit
=============================================================================
