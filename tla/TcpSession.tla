----------------------------- MODULE TcpSession -----------------------------
(***************************************************************************)
(* A TCP client of proj1 and its handler in proj2, and what holds between  *)
(* the two.                                                                *)
(***************************************************************************)
EXTENDS TcpClient, TcpHandler

vars == <<clientVars, handlerVars, streamVars>>

TypeOK ==
  /\ ClientTypeOK /\ HandlerTypeOK
  /\ closed \subseteq {"client", "server"} /\ merged \in BOOLEAN

Init ==
  /\ ClientInit /\ HandlerInit
  /\ toServer = << >> /\ toClient = << >> /\ closed = {} /\ merged = FALSE

ClientLoop   == Loop /\ UNCHANGED handlerVars
UserStep     == User /\ UNCHANGED handlerVars
HandlerStep  == Handler /\ UNCHANGED clientVars
AroundStep   == Around /\ UNCHANGED clientVars

\* The client is gone and the server does not notice, has noticed, or is gone
\* too; or everybody waits for the user.
Quiet ==
  /\ \/ Over
     \/ pc = "select" /\ waiting = 0 /\ ~eof /\ toClient = << >> /\ Up
  /\ ~Up \/ (todo = << >> /\ (toServer = << >> \/ run = "ended" \/ sigint))
  /\ UNCHANGED vars

Next == ClientLoop \/ UserStep \/ HandlerStep \/ AroundStep \/ Quiet
Spec == Init /\ [][Next]_vars

-----------------------------------------------------------------------------
(* Safety.                                                                 *)

Replies(s) == {i \in DOMAIN s : s[i].op = "REPLY"}
ToSend(s)  == {i \in DOMAIN s : s[i].do = "send" /\ s[i].msg.op = "REPLY"}

\* The client unlocks its input by the first REPLY that comes, which says nothing
\* of the request it answers (tcp.c:287).  It is the right one all the same: a
\* REPLY on its way, or still to be sent, answers the last request, the user is
\* still waiting for it, and there is no second one behind it.
RightReply ==
  /\ \A i \in Replies(toClient) : toClient[i].n = asked /\ ~gotReply
  /\ \A i \in ToSend(todo) : todo[i].msg.n = asked /\ ~gotReply
  /\ \A i, j \in Replies(toClient) : i = j
  /\ Replies(toClient) = {} \/ ToSend(todo) = {}

\* The states in which the handler accepts a message.
Accepted(op) == CASE op = "AUTH"            -> {"ACCEPT"}
                  [] op \in {"JOIN", "MSG"} -> {"OPEN"}
                  [] OTHER                  -> {"ACCEPT", "OPEN"}

\* Client and handler keep the state of the session separately (TCPpresent_state,
\* client_state).  They agree: what the client lets its user send, the handler
\* does not refuse, for as long as it handles anything.
NeverRefused ==
  \A i \in DOMAIN toServer : run = "ended" \/ client_state \in Accepted(toServer[i].op)

-----------------------------------------------------------------------------
(* Progress: the two processes run, and what was sent arrives in the end   *)
(* (the client may pass through select before it has).                     *)

Fairness ==
  /\ WF_vars(ClientLoop) /\ WF_vars(HandlerStep)
  /\ SF_vars(Select(TRUE) /\ UNCHANGED handlerVars)

FairSpec == Spec /\ Fairness

\* The lock on the input is taken back, or the session ends: as long as recv
\* returns one message at a time and the server is not stopped (tcp.c:195, 287).
UnlocksAgain == ~gotReply ~> (gotReply \/ Over \/ ~Up \/ sigint \/ merged)

\* A client that says BYE is taken out of its channel and its handler ends, under
\* the same conditions, whether it was typed or sent on C-c (tcp.c:128).
ByeTakesOut ==
  (\E i \in DOMAIN toServer : toServer[i].op = "BYE")
     ~> ((run = "ended" /\ ~listed) \/ ~Up \/ sigint \/ merged)
=============================================================================
