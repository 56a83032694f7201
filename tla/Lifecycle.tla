----------------------------- MODULE Lifecycle -----------------------------
(***************************************************************************)
(* How the server starts and ends: concrete_connection (socket.c) starts   *)
(* the UDP thread, the main thread goes on to the pipe, the signal handler *)
(* and the accept loop (tcp_listener.c); on C-c it joins what it can and   *)
(* frees the channels.  What the handlers do between is in ChatServer.     *)
(***************************************************************************)
EXTENDS Integers

CONSTANTS MaxConnections,  \* how many connections come
          MaxPresses,      \* how often C-c is pressed
          StdinSpeaks,     \* whether the standard input may be readable
          AcceptFails      \* whether accept may fail

ASSUME LifecycleAssumption ==
  /\ MaxConnections \in Nat /\ MaxPresses \in Nat
  /\ {StdinSpeaks, AcceptFails} \subseteq BOOLEAN

VARIABLES
  process,  \* "up"; "exited" by return from main; "killed", or "error": dead before
  main,     \* where the main thread is: the call it makes next
  udp,      \* the UDP thread: "none", before and in "select", its BYE "pass", "ended"
  watches,  \* the descriptor it takes for the pipe's: 0, "stdin", until there is a pipe
  heard,    \* a datagram came, which sets the thread's current user
  piped,    \* pipe() has been called
  writeEnd, \* of the pipe: "none", "open", "closed", or the number is a connection's: "taken"
  wrote,    \* how often the pipe has been written to
  sigint,   \* enable_listening is 0
  presses,
  run,      \* of each connection's handler: "none", "running", "ended"
  tid,      \* the handler started last; 0: the variable was never set
  late,     \* history: how many connections were accepted after C-c
  freed     \* free_channels has been called

vars == <<process, main, udp, watches, heard, piped, writeEnd, wrote, sigint, presses, run, tid, late, freed>>
pipeVars == <<piped, writeEnd, wrote>>
handlerVars == <<run, tid, late>>
udpVars == <<udp, watches, heard>>

TypeOK ==
  /\ process \in {"up", "exited", "killed", "error"}
  /\ main \in {"udp_thread", "pipe", "sigaction", "check", "accept", "client_handler",
               "join_tid", "join_udp", "free", "return"}
  /\ udp \in {"none", "before", "select", "pass", "ended"}
  /\ watches \in {"stdin", "pipe"} /\ writeEnd \in {"none", "open", "closed", "taken"}
  /\ {heard, piped, sigint, freed} \subseteq BOOLEAN
  /\ wrote \in 0 .. 1 /\ presses \in 0 .. MaxPresses
  /\ run \in [1 .. MaxConnections -> {"none", "running", "ended"}]
  /\ tid \in 0 .. MaxConnections /\ late \in 0 .. MaxConnections

Init ==
  /\ process = "up" /\ main = "udp_thread" /\ udp = "none" /\ watches = "stdin" /\ heard = FALSE
  /\ piped = FALSE /\ writeEnd = "none" /\ wrote = 0 /\ sigint = FALSE /\ presses = 0
  /\ run = [c \in 1 .. MaxConnections |-> "none"] /\ tid = 0 /\ late = 0 /\ freed = FALSE

Up == process = "up"
Goes(from, to) == Up /\ main = from /\ main' = to

-----------------------------------------------------------------------------
(* The main thread.                                                        *)

concrete_connection ==
  /\ Goes("udp_thread", "pipe") /\ udp' = "before"
  /\ UNCHANGED <<process, watches, heard, pipeVars, sigint, presses, handlerVars, freed>>

listener ==
  /\ Goes("pipe", "sigaction") /\ piped' = TRUE /\ writeEnd' = "open"
  /\ UNCHANGED <<process, udpVars, wrote, sigint, presses, handlerVars, freed>>

\* From here on C-c is caught.
Sigaction ==
  /\ Goes("sigaction", "check")
  /\ UNCHANGED <<process, udpVars, pipeVars, sigint, presses, handlerVars, freed>>

\* Variant: the loop has no condition.
Check_always ==
  /\ Goes("check", "accept")
  /\ UNCHANGED <<process, udpVars, pipeVars, sigint, presses, handlerVars, freed>>

Check ==
  /\ Goes("check", IF sigint THEN "join_tid" ELSE "accept")
  /\ UNCHANGED <<process, udpVars, pipeVars, sigint, presses, handlerVars, freed>>

\* The connection's descriptor is a free one: after C-c, it may be the pipe's.
Accept ==
  /\ Goes("accept", "client_handler") /\ tid < MaxConnections
  /\ writeEnd' \in IF writeEnd = "closed" THEN {"closed", "taken"} ELSE {writeEnd}
  /\ late' = IF sigint THEN late + 1 ELSE late
  /\ UNCHANGED <<process, udpVars, piped, wrote, sigint, presses, run, tid, freed>>

AcceptFailed ==
  /\ AcceptFails /\ Goes("accept", "join_tid")
  /\ UNCHANGED <<process, udpVars, pipeVars, sigint, presses, handlerVars, freed>>

StartHandler ==
  /\ Goes("client_handler", "check")
  /\ tid' = tid + 1 /\ run' = [run EXCEPT ![tid + 1] = "running"]
  /\ UNCHANGED <<process, udpVars, pipeVars, sigint, presses, late, freed>>

\* Variant: nobody is waited for.
JoinHandler_not ==
  /\ Goes("join_tid", "join_udp")
  /\ UNCHANGED <<process, udpVars, pipeVars, sigint, presses, handlerVars, freed>>

\* Only the last handler is waited for; if there was none, for what the variable
\* happens to name: an error that nobody looks at, or the end.
JoinHandler ==
  /\ Up /\ main = "join_tid"
  /\ \/ tid # 0 /\ run[tid] = "ended" /\ main' = "join_udp" /\ UNCHANGED process
     \/ tid = 0 /\ main' = "join_udp" /\ UNCHANGED process
     \/ tid = 0 /\ process' = "error" /\ UNCHANGED main
  /\ UNCHANGED <<udpVars, pipeVars, sigint, presses, handlerVars, freed>>

JoinUdp ==
  /\ Goes("join_udp", "free") /\ udp = "ended"
  /\ UNCHANGED <<process, udpVars, pipeVars, sigint, presses, handlerVars, freed>>

free_channels ==
  /\ Goes("free", "return") /\ freed' = TRUE
  /\ UNCHANGED <<process, udpVars, pipeVars, sigint, presses, handlerVars>>

Return ==
  /\ Up /\ main = "return" /\ process' = "exited"
  /\ UNCHANGED <<main, udpVars, pipeVars, sigint, presses, handlerVars, freed>>

-----------------------------------------------------------------------------
(* The UDP thread.                                                         *)

Select ==
  /\ Up /\ udp = "before" /\ udp' = "select"
  /\ watches' = IF piped THEN "pipe" ELSE "stdin"
  /\ UNCHANGED <<process, main, heard, pipeVars, sigint, presses, handlerVars, freed>>

GotDatagram ==
  /\ Up /\ udp = "select" /\ udp' = "before" /\ heard' = TRUE
  /\ UNCHANGED <<process, main, watches, pipeVars, sigint, presses, handlerVars, freed>>

GotPipe ==
  /\ Up /\ udp = "select" /\ watches = "pipe" /\ wrote > 0
  /\ udp' = "pass"
  /\ UNCHANGED <<process, main, watches, heard, pipeVars, sigint, presses, handlerVars, freed>>

\* The standard input is taken for the pipe; or, if there is a pipe by now, for
\* nothing: then the cleared buffer is a CONFIRM of the current user, if one is set.
GotStdin ==
  /\ StdinSpeaks /\ Up /\ udp = "select" /\ watches = "stdin"
  /\ \/ ~piped /\ udp' = "pass" /\ UNCHANGED process
     \/ piped /\ heard /\ udp' = "before" /\ UNCHANGED process
     \/ piped /\ ~heard /\ process' = "error" /\ UNCHANGED udp
  /\ UNCHANGED <<main, watches, heard, pipeVars, sigint, presses, handlerVars, freed>>

\* send_bye_to_all, which may wait for ever for a handler (ChatServer), is over.
PassEnds ==
  /\ Up /\ udp = "pass" /\ udp' = "ended"
  /\ UNCHANGED <<process, main, watches, heard, pipeVars, sigint, presses, handlerVars, freed>>

-----------------------------------------------------------------------------
(* The handlers and the user.                                              *)

\* By BYE, or the end of the connection.
HandlerEnds(c) ==
  /\ Up /\ run[c] = "running"
  /\ run' = [run EXCEPT ![c] = "ended"]
  /\ UNCHANGED <<process, main, udpVars, pipeVars, sigint, presses, tid, late, freed>>

HandlerStops(c) == sigint /\ HandlerEnds(c)

\* accept is interrupted, if it has been called.
Wakes == UNCHANGED main \/ (main = "accept" /\ main' = "join_tid")

\* Variant: the pipe is not written to.
stop_listening_silent ==
  /\ Up /\ main \notin {"udp_thread", "pipe", "sigaction"} /\ presses < MaxPresses
  /\ presses' = presses + 1 /\ sigint' = TRUE
  /\ Wakes
  /\ UNCHANGED <<process, udpVars, pipeVars, handlerVars, freed>>

\* Variant: the pipe is not closed.
stop_listening_keeps_open ==
  /\ Up /\ main \notin {"udp_thread", "pipe", "sigaction"} /\ presses < MaxPresses
  /\ presses' = presses + 1 /\ sigint' = TRUE
  /\ Wakes
  /\ wrote' = wrote + 1
  /\ UNCHANGED <<process, udpVars, piped, writeEnd, handlerVars, freed>>

\* C-c, on the main thread: the pipe is written to and closed.  A second time the
\* descriptor is closed, or is a client's.
stop_listening ==
  /\ Up /\ main \notin {"udp_thread", "pipe", "sigaction"} /\ presses < MaxPresses
  /\ presses' = presses + 1 /\ sigint' = TRUE
  /\ \/ /\ writeEnd = "open" /\ wrote' = wrote + 1
        /\ Wakes
        /\ UNCHANGED process
     \/ /\ writeEnd = "taken" /\ Wakes
        /\ UNCHANGED <<process, wrote>>
     \/ writeEnd = "closed" /\ process' = "error" /\ UNCHANGED <<main, wrote>>
  /\ writeEnd' = "closed"
  /\ UNCHANGED <<udpVars, piped, handlerVars, freed>>

\* C-c before it is caught.
Killed ==
  /\ Up /\ main \in {"udp_thread", "pipe", "sigaction"} /\ presses < MaxPresses
  /\ presses' = presses + 1 /\ process' = "killed"
  /\ UNCHANGED <<main, udpVars, pipeVars, sigint, handlerVars, freed>>

\* The process is gone; or accept waits for connections that do not come.
Quiet ==
  /\ ~Up \/ (udp = "ended" /\ main = "accept")
  /\ UNCHANGED vars

Starting == concrete_connection \/ listener \/ Sigaction
Ending   == JoinHandler \/ JoinUdp \/ free_channels \/ Return

Next ==
  \/ Starting \/ Ending
  \/ Check \/ Accept \/ AcceptFailed \/ StartHandler
  \/ Select \/ GotDatagram \/ GotPipe \/ GotStdin \/ PassEnds
  \/ \E c \in 1 .. MaxConnections : HandlerEnds(c)
  \/ stop_listening \/ Killed \/ Quiet

Spec == Init /\ [][Next]_vars

-----------------------------------------------------------------------------
(* Properties.                                                             *)

\* When the channels are freed, nobody uses them but handlers that were not the
\* last to be started: the BYE pass is over, and so is the last handler, in every
\* order in which connections, their ends and C-c come (tcp_listener.c:120,
\* socket.c:163).
FreedLast ==
  freed => /\ udp = "ended"
           /\ \A c \in 1 .. MaxConnections : run[c] = "running" => c < tid

\* After C-c at most one more connection is accepted, the one for which accept
\* was about to be called (tcp_listener.c:68, 73).
OneLateAtMost == late <= 1

\* The threads run, select returns when the pipe is readable, and a handler whose
\* loop sees C-c ends (it does not block).  Not assumed: that a connection comes,
\* that a datagram does, that the pass ends.
Fairness ==
  /\ WF_vars(Starting) /\ WF_vars(Check) /\ WF_vars(StartHandler)
  /\ WF_vars(JoinHandler) /\ WF_vars(JoinUdp) /\ WF_vars(free_channels) /\ WF_vars(Return)
  /\ WF_vars(Select) /\ SF_vars(GotPipe)
  /\ \A c \in 1 .. MaxConnections : WF_vars(HandlerStops(c))

FairSpec == Spec /\ Fairness

\* What can keep the server from its end for ever: C-c came between the loop's
\* condition and accept, and no connection does (tcp_listener.c:68, 73); the UDP
\* thread's select was called before the pipe was made, and nothing comes on the
\* descriptors it watches (handle_udp.c:163); the pass waits for a handler.
HeldUp ==
  /\ Up
  /\ \/ main = "accept"
     \/ udp = "select" /\ watches = "stdin"
     \/ udp = "pass"

\* What can end it early: a second C-c on the closed pipe, the join of a thread
\* that was never started, or the standard input taken for a datagram.
EndsEarly ==
  /\ process = "error"
  /\ \/ presses > 1
     \/ main = "join_tid" /\ tid = 0
     \/ udp = "select" /\ watches = "stdin" /\ ~heard

\* C-c ends the server: the last handler and the UDP thread are joined, the channels
\* are freed and main returns (tcp_listener.c:120, socket.c:163-165), unless one of
\* the above holds it up for good or ends it early.
ShutdownEnds ==
  <>sigint => <>(process = "exited" /\ freed) \/ <>[]HeldUp \/ <>EndsEarly
=============================================================================
