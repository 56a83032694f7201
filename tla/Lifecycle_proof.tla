-------------------------- MODULE Lifecycle_proof --------------------------
(***************************************************************************)
(* Proofs about Lifecycle, for any number of connections and presses.      *)
(***************************************************************************)
EXTENDS Lifecycle, TLAPS

\* A connection accepted after C-c is the last: the loop is then left.
LateOnce == late \in {0, 1} /\ (late = 1 => sigint /\ main # "accept")

\* The pipe is made once, and written to only while its end is open.
OnePipe ==
  /\ main \in {"udp_thread", "pipe"} => writeEnd = "none"
  /\ writeEnd \in {"none", "open"} => wrote = 0

\* Handlers are started in turn, and there is room for the one to be started.
InTurn ==
  /\ main = "client_handler" => tid < MaxConnections
  /\ \A c \in 1 .. MaxConnections : run[c] = "running" => c <= tid

\* What has been joined is over.
Joined ==
  /\ main \in {"join_udp", "free", "return"} => \A c \in 1 .. MaxConnections : c = tid => run[c] # "running"
  /\ main \in {"free", "return"} => udp = "ended"
  /\ freed => main = "return"

IInv == TypeOK /\ LateOnce /\ OnePipe /\ InTurn /\ Joined

LEMMA InitInv == Init => IInv
<1> SUFFICES ASSUME Init PROVE IInv  OBVIOUS
<1>1. TypeOK
  <2>1. run \in [1 .. MaxConnections -> {"none", "running", "ended"}]  BY DEF Init
  <2>2. {heard, piped, sigint, freed} \subseteq BOOLEAN  BY DEF Init
  <2> QED  BY <2>1, <2>2, LifecycleAssumption DEF Init, TypeOK
<1>2. \A c \in 1 .. MaxConnections : run[c] = "none"  BY DEF Init
<1> QED  BY <1>1, <1>2 DEF Init, IInv, LateOnce, OnePipe, InTurn, Joined

\* The steps of the main thread.
LEMMA MainInv ==
  ASSUME IInv, Starting \/ Ending \/ Check \/ Accept \/ AcceptFailed \/ StartHandler
  PROVE  IInv'
<1> USE LifecycleAssumption
<1> USE DEF IInv, TypeOK, LateOnce, OnePipe, InTurn, Joined, Up, Goes, pipeVars, handlerVars, udpVars
<1>1. CASE concrete_connection  BY <1>1 DEF concrete_connection
<1>2. CASE listener             BY <1>2 DEF listener
<1>3. CASE Sigaction            BY <1>3 DEF Sigaction
<1>4. CASE JoinHandler
  <2>1. main = "join_tid" /\ main' \in {"join_tid", "join_udp"} /\ process' \in {"up", "error"}
    BY <1>4 DEF JoinHandler
  <2>2. main' = "join_udp" => \A c \in 1 .. MaxConnections : c = tid => run[c] # "running"
    BY <1>4 DEF JoinHandler
  <2> QED  BY <1>4, <2>1, <2>2 DEF JoinHandler
<1>5. CASE JoinUdp              BY <1>5 DEF JoinUdp
<1>6. CASE free_channels        BY <1>6 DEF free_channels
<1>7. CASE Return               BY <1>7 DEF Return
<1>8. CASE Check                BY <1>8 DEF Check
<1>9. CASE Accept
  <2>1. main = "accept" /\ main' = "client_handler" /\ late = 0 /\ late' \in {0, 1}
    BY <1>9 DEF Accept
  <2>2. late' = 1 => sigint'
    BY <1>9, <2>1 DEF Accept
  <2>3. writeEnd' \in {"none", "open", "closed", "taken"}
        /\ (writeEnd' \in {"none", "open"} => writeEnd' = writeEnd)
    BY <1>9 DEF Accept
  <2> QED  BY <1>9, <2>1, <2>2, <2>3 DEF Accept
<1>10. CASE AcceptFailed        BY <1>10 DEF AcceptFailed
<1>11. CASE StartHandler
  <2>1. tid' = tid + 1 /\ tid' \in 1 .. MaxConnections /\ main' = "check"
    BY <1>11 DEF StartHandler
  <2>2. run' \in [1 .. MaxConnections -> {"none", "running", "ended"}]
    BY <1>11 DEF StartHandler
  <2>3. \A c \in 1 .. MaxConnections : run'[c] = "running" => c <= tid'
    BY <1>11, <2>1 DEF StartHandler
  <2> QED  BY <1>11, <2>1, <2>2, <2>3 DEF StartHandler
<1> QED
  BY <1>1, <1>2, <1>3, <1>4, <1>5, <1>6, <1>7, <1>8, <1>9, <1>10, <1>11 DEF Starting, Ending

\* The steps of the UDP thread.
LEMMA UdpInv ==
  ASSUME IInv, Select \/ GotDatagram \/ GotPipe \/ GotStdin \/ PassEnds
  PROVE  IInv'
<1> USE LifecycleAssumption
<1> USE DEF IInv, TypeOK, LateOnce, OnePipe, InTurn, Joined, Up, pipeVars, handlerVars, udpVars
<1>1. CASE Select       BY <1>1 DEF Select
<1>2. CASE GotDatagram  BY <1>2 DEF GotDatagram
<1>3. CASE GotPipe      BY <1>3 DEF GotPipe
<1>4. CASE GotStdin     BY <1>4 DEF GotStdin
<1>5. CASE PassEnds     BY <1>5 DEF PassEnds
<1> QED  BY <1>1, <1>2, <1>3, <1>4, <1>5

\* The ends of handlers, and C-c.
LEMMA OtherInv ==
  ASSUME IInv,
         (\E c \in 1 .. MaxConnections : HandlerEnds(c)) \/ stop_listening \/ Killed \/ Quiet
  PROVE  IInv'
<1> USE LifecycleAssumption
<1> USE DEF IInv, TypeOK, LateOnce, OnePipe, InTurn, Joined, Up, pipeVars, handlerVars, udpVars
<1>1. CASE \E c \in 1 .. MaxConnections : HandlerEnds(c)
  <2>1. PICK c \in 1 .. MaxConnections : HandlerEnds(c)  BY <1>1
  <2>2. run' \in [1 .. MaxConnections -> {"none", "running", "ended"}]
        /\ \A d \in 1 .. MaxConnections : run'[d] = "running" => run[d] = "running"
    BY <2>1 DEF HandlerEnds
  <2> QED  BY <2>1, <2>2 DEF HandlerEnds
<1>2. CASE stop_listening
  <2>1. main' = main \/ (main = "accept" /\ main' = "join_tid")
    BY <1>2 DEF stop_listening, Wakes
  <2>2. main \notin {"udp_thread", "pipe"} /\ sigint' /\ writeEnd' = "closed"
    BY <1>2 DEF stop_listening
  <2>3. wrote' \in 0 .. 1 /\ process' \in {"up", "error"} /\ presses' \in 0 .. MaxPresses
    BY <1>2 DEF stop_listening
  <2> QED  BY <1>2, <2>1, <2>2, <2>3 DEF stop_listening
<1>3. CASE Killed  BY <1>3 DEF Killed
<1>4. CASE Quiet   BY <1>4 DEF Quiet, vars
<1> QED  BY <1>1, <1>2, <1>3, <1>4

LEMMA StepInv == IInv /\ [Next]_vars => IInv'
<1> SUFFICES ASSUME IInv, [Next]_vars PROVE IInv'  OBVIOUS
<1>1. CASE Next
  BY <1>1, MainInv, UdpInv, OtherInv DEF Next
<1>2. CASE UNCHANGED vars
  BY <1>2 DEF vars, pipeVars, handlerVars, udpVars, IInv, TypeOK, LateOnce, OnePipe, InTurn, Joined
<1> QED  BY <1>1, <1>2

LEMMA AlwaysInv == Spec => []IInv
  BY InitInv, StepInv, PTL DEF Spec

\* The variables of the start and the end keep their types, however many
\* connections come and however often C-c is pressed: in particular the pipe is
\* written to once (tcp_listener.c:21).
THEOREM TypeCorrect == Spec => []TypeOK
  BY AlwaysInv, PTL DEF IInv

\* After C-c at most one more connection is accepted (tcp_listener.c:68, 73).
THEOREM OneLate == Spec => []OneLateAtMost
<1>1. IInv => OneLateAtMost  BY DEF IInv, LateOnce, OneLateAtMost
<1> QED  BY <1>1, AlwaysInv, PTL

\* When the channels are freed, the UDP thread is over and only handlers that
\* were not the last to be started still run (tcp_listener.c:120, socket.c:163).
THEOREM FreedAfterJoins == Spec => []FreedLast
<1>1. ASSUME IInv PROVE FreedLast
  <2> SUFFICES ASSUME freed
               PROVE  udp = "ended" /\ \A c \in 1 .. MaxConnections : run[c] = "running" => c < tid
    BY DEF FreedLast
  <2>1. main = "return"  BY <1>1 DEF IInv, Joined
  <2>2. udp = "ended"  BY <1>1, <2>1 DEF IInv, Joined
  <2>3. ASSUME NEW c \in 1 .. MaxConnections, run[c] = "running" PROVE c < tid
    <3>1. c <= tid /\ c # tid  BY <1>1, <2>1, <2>3 DEF IInv, InTurn, Joined
    <3> QED  BY <1>1, <3>1, LifecycleAssumption DEF IInv, TypeOK
  <2> QED  BY <2>2, <2>3
<1> QED  BY <1>1, AlwaysInv, PTL
=============================================================================
