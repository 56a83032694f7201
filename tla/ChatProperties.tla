--------------------------- MODULE ChatProperties ---------------------------
(***************************************************************************)
(* The correctness properties of the server: what its shared structures    *)
(* keep under any interleaving of the handler threads, what the handlers   *)
(* promise their clients, and the properties the repository states that    *)
(* the code does not have.                                                 *)
(***************************************************************************)
EXTENDS ChatServer, FiniteSets

Thread(c)  == IF c \in TcpClients THEN c ELSE UdpThread

\* No handler is at work for the client.
Settled(c) == server = "up" /\ (Idle(Thread(c)) \/ c # Client(Thread(c)))

Rooms(c) == {k \in Chans : c \in Members(chan[k])}

-----------------------------------------------------------------------------
(* Shared structures.                                                      *)

\* The mutexes a thread may hold, given the call it is in.
Wanted(t) ==
  (IF Locks(t) THEN {Outer(t), Inner(t)} ELSE {})
    \cup (IF Doing(t, "byeAll") THEN ListMutexes ELSE {})

\* Every mutex that is held is one its holder is using: no path through
\* add_client, remove_client_from_channel, create_channel, send_all or
\* send_bye_to_all, early returns included, leaves one locked behind it.
HoldersWork ==
  server = "up" => \A m \in Mutex : mutex[m] # Free => m \in Wanted(mutex[m])

\* While a broadcast is between two members of a channel, no other thread
\* changes the channel (send_all holds both mutexes around its loop).
MembersStable ==
  [][\A t \in Threads : (Doing(t, "send") /\ idx[t] > 0)
        => chan'[Where(t)] = chan[Where(t)]]_vars

\* Two JOINs of one new name create one channel, however their searches of
\* the list interleave (create_channel).
UniqueNames ==
  \A i, j \in 1 .. Len(channels) : channels[i] = channels[j] => i = j

\* The shutdown pass sees one list: no channel is added between the first
\* channel it says BYE to and the last (send_bye_to_all keeps the list locked).
ListFrozen ==
  [][Doing(UdpThread, "byeAll") => channels' = channels]_vars

\* No client is in two entries of one channel, whatever it sends and in whatever
\* state its record is: it would be sent every message of the channel twice
\* (add_client looks for the socket first).
ListedOnce == \A k \in Chans : Distinct(chan[k])

\* Whoever stays in one channel while the shutdown pass goes through the list is
\* sent BYE, whatever the handlers that are still at work do to this channel and
\* to others.  (Who is between two channels is missed, handle_tcp.c:234; and so may be
\* everybody when the list of channels was overrun.)
ByeToAllWhoStay ==
  \A c \in Sockets, k \in Chans :
    [](sigint /\ run[UdpThread] = "running" => ~Overrun /\ c \in Members(chan[k]))
      => [](run[UdpThread] = "ended" /\ server = "up" => c \in byed)

-----------------------------------------------------------------------------
(* Clients and channels.                                                   *)

\* Between messages a connected client is listed in exactly its current channel
\* if it is authenticated, and in none if it is not: a JOIN of another thread,
\* or the removal of another member, never loses or doubles it.
RightRoom ==
  \A c \in Sockets :
    (Settled(c) /\ run[Thread(c)] = "running") =>
       Rooms(c) = IF client_state[c] = "OPEN" THEN {cur[c]} ELSE {}

\* A client whose handler has finished with BYE (it did not just vanish, the
\* server was not interrupted) is listed nowhere.
Departed ==
  \A c \in TcpClients :
    (Settled(c) /\ run[c] = "ended" /\ c \notin closed /\ ~sigint) => Rooms(c) = {}

\* The handlers implement the abstract rooms.  Three rooms at once is no room
\* number of the abstract specification.
TheRoom(c) == IF Rooms(c) = {} THEN 0
              ELSE IF Cardinality(Rooms(c)) = 1 THEN CHOOSE k \in Rooms(c) : TRUE
              ELSE LastChan + 1

Abstract == INSTANCE ChatRooms WITH
              Clients  <- Sockets,
              MaxRooms <- LastChan,
              room     <- [c \in Sockets |-> TheRoom(c)],
              opened   <- Len(channels),
              admitted <- {c \in Sockets : client_state[c] = "OPEN"}

\* Every step of the threads is a step of ChatRooms or leaves it alone.
ImplementsRooms == Abstract!RoomsSpec

-----------------------------------------------------------------------------
(* Progress.  Each thread that can go on does; a thread that waits for a   *)
(* mutex that is free again and again gets it in the end.                  *)

Fairness ==
  \A t \in Threads : /\ WF_vars(Step(t)) /\ WF_vars(MustDie(t) /\ Die(t))
                     /\ SF_vars(LockOuter(t)) /\ WF_vars(LockInner(t))

Interrupts == WF_vars(UdpInterrupted) /\ \A c \in TcpClients : WF_vars(TcpInterrupted(c))

FairSpec == Spec /\ Fairness /\ Interrupts

\* A handler that has taken a message finishes with it: no broadcast, JOIN or
\* BYE of other clients can keep it waiting for ever.
Answered == \A t \in Threads : ~Idle(t) ~> (Idle(t) \/ server = "down")

-----------------------------------------------------------------------------
(* What the repository says and the code does not do.                      *)

\* README.md:37, handle_udp.c:372: on C-c BYE is sent to all users and the
\* server ends its communication with them.
ByeAfterSigint == sigint ~> (run[UdpThread] = "ended" \/ server = "down")

\* handle_tcp.c:129, "Forward this message to all users in this channel": what
\* send_all sends is the message its own handler put into the shared buffer.
SendsItsOwn ==
  \A t \in Threads : (Doing(t, "send") /\ Serving(t) # {}) => shared = Head(script[t]).text
=============================================================================
