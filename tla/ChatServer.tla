----------------------------- MODULE ChatServer -----------------------------
(***************************************************************************)
(* The IPK24-CHAT server of proj2: one thread per TCP connection           *)
(* (handle_tcp.c), one thread for all UDP clients (handle_udp.c), and what *)
(* they share: the channel list and its channels under pthread mutexes     *)
(* (socket.c) and one message buffer under none (converter.c).             *)
(*                                                                         *)
(* Receiving a message gives a thread a script: the calls its handler      *)
(* makes for that message, in the handler's order.  A call that takes      *)
(* mutexes is several steps (lock, lock, loop, unlock), so the scripts of  *)
(* all threads interleave as the calls of the program do.                  *)
(***************************************************************************)
EXTENDS ChannelStore, Sequences

CONSTANTS TcpClients, UdpClients,  \* a client is named by its socket on the server
          UdpThread,               \* the thread of udp_handler
          Names, General, NoName,  \* channel names; "General"; an unset pointer
          MaxChannels,             \* the length of the channel array (100 in socket.h)
          Blank,                   \* the cleared shared message
          Free,                    \* the holder of an unlocked mutex
          Kinds,                   \* the message kinds the clients of a run send
          Early,                   \* those they send without being in state OPEN
          Interruptible,           \* whether the user may press C-c
          Leaving                  \* whether TCP clients may drop the connection

AllKinds == {"AUTH", "JOIN", "MSG", "BYE", "ERR", "CONFIRM", "UNKNOWN"}

ASSUME ServerAssumption ==
  /\ Sockets = TcpClients \cup UdpClients
  /\ TcpClients \cap UdpClients = {}
  /\ UdpThread \notin Sockets
  /\ Free \notin Sockets \cup {UdpThread}
  /\ General \in Names /\ NoName \notin Names
  /\ MaxChannels \in Nat \ {0}
  /\ Early \subseteq Kinds /\ Kinds \subseteq AllKinds
  /\ Interruptible \in BOOLEAN /\ Leaving \in BOOLEAN

Threads == TcpClients \cup {UdpThread}

\* create_channel has no check: the channel after the last the array has room for
\* is made, listed and returned, and nothing good can come of the next one.
LastChan == MaxChannels + 1
Chans    == 1 .. LastChan

Text  == [what : {"joined", "left", "said"}, who : Sockets]
Joined(c) == [what |-> "joined", who |-> c]
Left(c)   == [what |-> "left", who |-> c]
Said(c)   == [what |-> "said", who |-> c]
ASSUME BlankAssumption == Blank \notin Text

\* One call of a handler: what it does, and the channel name or the text it is about.
Verbs == {"answer", "add", "addGeneral", "remove", "create", "clear", "fill",
          "send", "forget", "quit", "lockList", "byeAll"}
Op == [do : Verbs, name : Names \cup {NoName}, text : Text \cup {Blank}]

Call(v)         == [do |-> v, name |-> NoName, text |-> Blank]
Create(n)       == [do |-> "create", name |-> n, text |-> Blank]
Fill(x)         == [do |-> "fill", name |-> NoName, text |-> x]
Send(x)         == [do |-> "send", name |-> NoName, text |-> x]
\* get_udp_msg followed by send_all: the buffers are cleared, then written.
Announce(x)     == <<Call("clear"), Fill(x), Send(x)>>

Mutex == ({"clients_mutex", "num_users_mutex"} \X Chans)
           \cup ({"channels_mutex", "num_of_channel_mutex"} \X {0})
ListMutexes == {<<"channels_mutex", 0>>, <<"num_of_channel_mutex", 0>>}

VARIABLES
  server,        \* "up", or "down" once the process has died
  sigint,        \* C-c was pressed: enable_listening is 0, the pipe is readable
  channels,      \* the names of the channels in the list, in order of creation
  chan,          \* the channel structures by position in the list
  client_state,  \* of each client; "NONE": not in the list of UDP users
  cur,           \* the position of each client's current channel, 0: unset
  channel_name,  \* of a UDP user: the name its last JOIN gave
  named,         \* the TCP clients whose display name is set
  closed,        \* the TCP clients that closed their end
  run,           \* of each thread: "new", "running", "ended"
  who,           \* current_user of the UDP thread
  got,           \* of each thread: the kind of message it is handling
  script,        \* of each thread: the calls it still has to make
  idx,           \* of each thread: the loop variable of the call it is in
  mutex,         \* the holder of each mutex
  shared,        \* shared_msg
  byed           \* the clients the shutdown pass sent BYE to

storeVars  == <<channels, chan>>
userVars   == <<client_state, cur, channel_name, named>>
envVars    == <<sigint, closed>>
threadVars == <<run, who>>
callVars   == <<got, script, idx, mutex>>
vars == <<server, storeVars, userVars, envVars, threadVars, callVars, shared, byed>>

States == {"NONE", "ACCEPT", "AUTH_failed", "OPEN", "ERROR", "END"}

TypeOK ==
  /\ server \in {"up", "down"}
  /\ sigint \in BOOLEAN
  /\ channels \in Seq(Names) /\ Len(channels) \in Chans
  /\ chan \in [Chans -> Channel]
  /\ client_state \in [Sockets -> States]
  /\ cur \in [Sockets -> 0 .. LastChan]
  /\ channel_name \in [Sockets -> Names \cup {NoName}]
  /\ named \subseteq TcpClients
  /\ closed \subseteq TcpClients
  /\ run \in [Threads -> {"new", "running", "ended"}]
  /\ who \in UdpClients \cup {NoSocket}
  /\ got \in [Threads -> AllKinds \cup {"none"}]
  /\ script \in [Threads -> Seq(Op)]
  /\ idx \in [Threads -> Nat]
  /\ mutex \in [Mutex -> Threads \cup {Free}]
  /\ shared \in Text \cup {Blank}
  /\ byed \subseteq Sockets \cup {NoSocket}

Init ==
  /\ server = "up" /\ sigint = FALSE
  /\ channels = <<General>>
  /\ chan = [k \in Chans |-> EmptyChannel]
  /\ client_state = [c \in Sockets |-> IF c \in TcpClients THEN "ACCEPT" ELSE "NONE"]
  /\ cur = [c \in Sockets |-> IF c \in TcpClients THEN 1 ELSE 0]
  /\ channel_name = [c \in Sockets |-> NoName]
  /\ named = {} /\ closed = {} /\ byed = {}
  /\ run = [t \in Threads |-> IF t = UdpThread THEN "running" ELSE "new"]
  /\ who = NoSocket
  /\ got = [t \in Threads |-> "none"]
  /\ script = [t \in Threads |-> << >>]
  /\ idx = [t \in Threads |-> 0]
  /\ mutex = [m \in Mutex |-> Free]
  /\ shared = Blank

-----------------------------------------------------------------------------
(* Threads and the call each is in.                                        *)

Idle(t)     == script[t] = << >>
Listens(t)  == server = "up" /\ run[t] = "running" /\ Idle(t) /\ ~sigint
Doing(t, v) == /\ server = "up" /\ ~Idle(t)
               /\ Head(script[t]).do = v
Client(t)   == IF t = UdpThread THEN who ELSE t

ChannelCalls == {"add", "addGeneral", "remove", "send"}
ListCalls    == {"create", "lockList"}

\* The channel a call works on: the default channel, the one the shutdown pass
\* has come to, or the current channel of the thread's client.
Where(t) == CASE Head(script[t]).do = "addGeneral" -> 1
              [] Head(script[t]).do = "byeAll"     -> idx[t] + 1
              [] OTHER                             -> cur[Client(t)]

\* The mutexes of a call in the order it locks them.  send_bye_to_all locks
\* num_users_mutex first, every other function clients_mutex.
Outer(t) == CASE Head(script[t]).do \in ListCalls -> <<"channels_mutex", 0>>
              [] Head(script[t]).do = "byeAll"    -> <<"num_users_mutex", Where(t)>>
              [] OTHER                            -> <<"clients_mutex", Where(t)>>
Inner(t) == CASE Head(script[t]).do \in ListCalls -> <<"num_of_channel_mutex", 0>>
              [] Head(script[t]).do = "byeAll"    -> <<"clients_mutex", Where(t)>>
              [] OTHER                            -> <<"num_users_mutex", Where(t)>>

Locks(t)  == /\ server = "up" /\ ~Idle(t)
             /\ \/ Head(script[t]).do \in ChannelCalls /\ Where(t) # 0
                \/ Head(script[t]).do \in ListCalls
                \/ Head(script[t]).do = "byeAll" /\ idx[t] < Len(channels)
Locked(t) == Locks(t) /\ mutex[Outer(t)] = t /\ mutex[Inner(t)] = t

\* The array was overrun: the pointer to the last channel lies over num_of_channels,
\* which now is its low 32 bits.  If they are negative a loop over the list visits
\* nothing; if not, it visits the channels there are, of which the last is this
\* pointer, and faults at what lies behind (the list's mutex, locked, read as a
\* pointer).  The sign is chosen anew by each loop.
Overrun == Len(channels) > MaxChannels

\* The clients a send of the channel's broadcast loop fails for.  add_client
\* stores the size of a pointer as the length of a UDP member's address, which
\* sendto refuses; what a closed TCP connection does depends on how far the
\* close has come.
Refuses(c) == c \in UdpClients
MayRefuse(c) == c \in closed

Serving(t) == IF Doing(t, "send") /\ Locked(t) /\ idx[t] < chan[Where(t)].num_users
              THEN {chan[Where(t)].address[idx[t] + 1].socket} \ {Client(t)}
              ELSE IF Doing(t, "byeAll") /\ Locked(t)
                   THEN Members(chan[Where(t)])
                   ELSE {}

\* exit(ERROR) or a fault: an unset channel or channel name is used, a loop over an
\* overrun list gets past its channels, a send of a broadcast fails.
MustDie(t) ==
  \/ /\ server = "up" /\ ~Idle(t)
     /\ Head(script[t]).do \in {"add", "remove", "send", "clear"}
     /\ cur[Client(t)] = 0
  \/ Doing(t, "create") /\ Head(script[t]).name = NoName
  \/ Doing(t, "create") /\ Locked(t) /\ Overrun /\ idx[t] = Len(channels)
  \/ Doing(t, "byeAll") /\ Overrun /\ idx[t] = Len(channels)
  \/ \E c \in Serving(t) : Refuses(c)

\* The same where the outcome is not determined: a display name that was never
\* set, a connection the peer has closed, an address freed twice, a channel
\* stored at a negative index.
MayDie(t) ==
  \/ Doing(t, "fill") /\ t \in TcpClients /\ t \notin named
  \/ \E c \in Serving(t) : MayRefuse(c)
  \/ t \in closed /\ run[t] = "running" /\ (Idle(t) \/ Doing(t, "answer"))
  \/ Doing(t, "remove") /\ Locked(t) /\ FreesTwice(chan[Where(t)], Client(t))
  \/ Doing(t, "create") /\ Locked(t) /\ Overrun /\ idx[t] = 0

Die(t) ==
  /\ server = "up" /\ (MustDie(t) \/ MayDie(t))
  /\ server' = "down"
  /\ UNCHANGED <<storeVars, userVars, envVars, threadVars, callVars, shared, byed>>

\* The thread has made its call and goes on to the next; Return is the end of a
\* function that unlocks the two mutexes it locked.
GoOn(t) ==
  /\ script' = [script EXCEPT ![t] = Tail(@)]
  /\ got' = IF Len(script[t]) = 1 THEN [got EXCEPT ![t] = "none"] ELSE got
  /\ idx' = [idx EXCEPT ![t] = 0]
Unlocked(S) == [m \in Mutex |-> IF m \in S THEN Free ELSE mutex[m]]
Return(t) == GoOn(t) /\ mutex' = Unlocked({Outer(t), Inner(t)})

-----------------------------------------------------------------------------
(* Steps of a call.                                                        *)

LockOuter(t) ==
  /\ Locks(t) /\ ~MustDie(t)
  /\ mutex[Outer(t)] = Free
  /\ mutex' = [mutex EXCEPT ![Outer(t)] = t]
  /\ UNCHANGED <<server, storeVars, userVars, envVars, threadVars, got, script, idx, shared, byed>>

LockInner(t) ==
  /\ Locks(t)
  /\ mutex[Outer(t)] = t /\ mutex[Inner(t)] = Free
  /\ mutex' = [mutex EXCEPT ![Inner(t)] = t]
  /\ UNCHANGED <<server, storeVars, userVars, envVars, threadVars, got, script, idx, shared, byed>>

\* add_client returns in three places.  The client is there already ...
AlreadyListed(t) ==
  /\ Doing(t, "add") \/ Doing(t, "addGeneral")
  /\ Locked(t) /\ Client(t) \in Members(chan[Where(t)])
  /\ cur' = [cur EXCEPT ![Client(t)] = Where(t)]
  /\ Return(t)
  /\ UNCHANGED <<server, storeVars, client_state, channel_name, named, envVars, threadVars, shared, byed>>

\* ... or the array is full, of which nobody is told ...
ChannelFull(t) ==
  /\ Doing(t, "add") \/ Doing(t, "addGeneral")
  /\ Locked(t) /\ Client(t) \notin Members(chan[Where(t)])
  /\ chan[Where(t)].num_users >= MaxUsers
  /\ cur' = [cur EXCEPT ![Client(t)] = Where(t)]
  /\ Return(t)
  /\ UNCHANGED <<server, storeVars, client_state, channel_name, named, envVars, threadVars, shared, byed>>

\* Variant: nobody looks whether the client is there already.
ClientAdded_twice(t) ==
  /\ Doing(t, "add") \/ Doing(t, "addGeneral")
  /\ Locked(t) /\ chan[Where(t)].num_users < MaxUsers
  /\ chan' = [chan EXCEPT ![Where(t)] = AddClient(@, Client(t), t = UdpThread)]
  /\ cur' = [cur EXCEPT ![Client(t)] = Where(t)]
  /\ Return(t)
  /\ UNCHANGED <<server, channels, client_state, channel_name, named, envVars, threadVars, shared, byed>>

\* ... or there is room for it.
ClientAdded(t) ==
  /\ Doing(t, "add") \/ Doing(t, "addGeneral")
  /\ Locked(t) /\ Client(t) \notin Members(chan[Where(t)])
  /\ chan[Where(t)].num_users < MaxUsers
  /\ chan' = [chan EXCEPT ![Where(t)] = AddClient(@, Client(t), t = UdpThread)]
  /\ cur' = [cur EXCEPT ![Client(t)] = Where(t)]
  /\ Return(t)
  /\ UNCHANGED <<server, channels, client_state, channel_name, named, envVars, threadVars, shared, byed>>

add_client(t) == AlreadyListed(t) \/ ChannelFull(t) \/ ClientAdded(t)

\* Variant: the channel is changed without its mutexes.
remove_client_unlocked(t) ==
  /\ Doing(t, "remove") /\ Where(t) # 0
  /\ chan' = [chan EXCEPT ![Where(t)] = RemoveClient(@, Client(t))]
  /\ GoOn(t)
  /\ UNCHANGED <<server, channels, userVars, envVars, threadVars, mutex, shared, byed>>

remove_client_from_channel(t) ==
  /\ Doing(t, "remove") /\ Locked(t)
  /\ chan' = [chan EXCEPT ![Where(t)] = RemoveClient(@, Client(t))]
  /\ Return(t)
  /\ UNCHANGED <<server, channels, userVars, envVars, threadVars, shared, byed>>

\* Variant: the sender's own entry is skipped without going on to the next.
SendNext_stays_at_sender(t) ==
  /\ Doing(t, "send") /\ Locked(t) /\ ~MustDie(t)
  /\ idx[t] < chan[Where(t)].num_users
  /\ idx' = [idx EXCEPT ![t] = IF chan[Where(t)].address[@ + 1].socket = Client(t)
                               THEN @ ELSE @ + 1]
  /\ UNCHANGED <<server, storeVars, userVars, envVars, threadVars, got, script, mutex, shared, byed>>

\* send_all visits one entry of the channel.
SendNext(t) ==
  /\ Doing(t, "send") /\ Locked(t) /\ ~MustDie(t)
  /\ idx[t] < chan[Where(t)].num_users
  /\ idx' = [idx EXCEPT ![t] = @ + 1]
  /\ UNCHANGED <<server, storeVars, userVars, envVars, threadVars, got, script, mutex, shared, byed>>

SendDone(t) ==
  /\ Doing(t, "send") /\ Locked(t)
  /\ idx[t] >= chan[Where(t)].num_users
  /\ Return(t)
  /\ UNCHANGED <<server, storeVars, userVars, envVars, threadVars, shared, byed>>

\* create_channel compares the name with one channel of the list.
NameDiffers(t) ==
  /\ Doing(t, "create") /\ Locked(t)
  /\ idx[t] < Len(channels) /\ channels[idx[t] + 1] # Head(script[t]).name
  /\ idx' = [idx EXCEPT ![t] = @ + 1]
  /\ UNCHANGED <<server, storeVars, userVars, envVars, threadVars, got, script, mutex, shared, byed>>

\* Variant: the early return leaves the inner mutex locked.
ChannelFound_leaks(t) ==
  /\ Doing(t, "create") /\ Locked(t)
  /\ idx[t] < Len(channels) /\ channels[idx[t] + 1] = Head(script[t]).name
  /\ cur' = [cur EXCEPT ![Client(t)] = idx[t] + 1]
  /\ GoOn(t) /\ mutex' = [mutex EXCEPT ![Outer(t)] = Free]
  /\ UNCHANGED <<server, storeVars, client_state, channel_name, named, envVars, threadVars, shared, byed>>

ChannelFound(t) ==
  /\ Doing(t, "create") /\ Locked(t)
  /\ idx[t] < Len(channels) /\ channels[idx[t] + 1] = Head(script[t]).name
  /\ cur' = [cur EXCEPT ![Client(t)] = idx[t] + 1]
  /\ Return(t)
  /\ UNCHANGED <<server, storeVars, client_state, channel_name, named, envVars, threadVars, shared, byed>>

\* Variant: the search ends one channel early.
NewChannel_short_search(t) ==
  /\ Doing(t, "create") /\ Locked(t) /\ ~MustDie(t)
  /\ idx[t] + 1 = Len(channels)
  /\ channels' = Append(channels, Head(script[t]).name)
  /\ cur' = [cur EXCEPT ![Client(t)] = Len(channels) + 1]
  /\ Return(t)
  /\ UNCHANGED <<server, chan, client_state, channel_name, named, envVars, threadVars, shared, byed>>

NewChannel(t) ==
  /\ Doing(t, "create") /\ Locked(t) /\ ~MustDie(t)
  /\ idx[t] = Len(channels)
  /\ channels' = Append(channels, Head(script[t]).name)
  /\ cur' = [cur EXCEPT ![Client(t)] = Len(channels) + 1]
  /\ Return(t)
  /\ UNCHANGED <<server, chan, client_state, channel_name, named, envVars, threadVars, shared, byed>>

\* send_to_client, send_to_udp_client, send_confirm, send_err, send_bye: the
\* answers to the thread's own client that the handler sends one after another.
send_to_client(t) ==
  /\ Doing(t, "answer")
  /\ GoOn(t)
  /\ UNCHANGED <<server, storeVars, userVars, envVars, threadVars, mutex, shared, byed>>

\* get_udp_msg clears both variants of the shared message ...
get_udp_msg_clear(t) ==
  /\ Doing(t, "clear") /\ ~MustDie(t)
  /\ shared' = Blank
  /\ GoOn(t)
  /\ UNCHANGED <<server, storeVars, userVars, envVars, threadVars, mutex, byed>>

\* ... and writes the new text.
get_udp_msg_write(t) ==
  /\ Doing(t, "fill")
  /\ shared' = Head(script[t]).text
  /\ GoOn(t)
  /\ UNCHANGED <<server, storeVars, userVars, envVars, threadVars, mutex, byed>>

\* The user's record is freed; what it held stays in the freed memory.
remove_udp_user(t) ==
  /\ Doing(t, "forget")
  /\ client_state' = [client_state EXCEPT ![who] = "NONE"]
  /\ GoOn(t)
  /\ UNCHANGED <<server, storeVars, cur, channel_name, named, envVars, threadVars, mutex, shared, byed>>

\* The thread's function returns.
Quit(t) ==
  /\ Doing(t, "quit")
  /\ run' = [run EXCEPT ![t] = "ended"]
  /\ GoOn(t)
  /\ UNCHANGED <<server, storeVars, userVars, envVars, who, mutex, shared, byed>>

\* Variant: the list is unlocked before the channels are visited.
ListLocked_released(t) ==
  /\ Doing(t, "lockList") /\ Locked(t)
  /\ Return(t)
  /\ UNCHANGED <<server, storeVars, userVars, envVars, threadVars, shared, byed>>

\* send_bye_to_all: the list stays locked while the channels are visited.
ListLocked(t) ==
  /\ Doing(t, "lockList") /\ Locked(t)
  /\ GoOn(t)
  /\ UNCHANGED <<server, storeVars, userVars, envVars, threadVars, mutex, shared, byed>>

\* Variant: the channel's inner mutex stays locked.
ByeToChannel_leaks(t) ==
  /\ Doing(t, "byeAll") /\ Locked(t) /\ ~MustDie(t)
  /\ byed' = byed \cup Members(chan[Where(t)])
  /\ mutex' = [mutex EXCEPT ![Outer(t)] = Free]
  /\ idx' = [idx EXCEPT ![t] = @ + 1]
  /\ UNCHANGED <<server, storeVars, userVars, envVars, threadVars, got, script, shared>>

\* Variant: the last entry of each channel is not reached.
ByeToChannel_short(t) ==
  /\ Doing(t, "byeAll") /\ Locked(t) /\ ~MustDie(t)
  /\ byed' = byed \cup {chan[Where(t)].address[i].socket : i \in 1 .. chan[Where(t)].num_users - 1}
  /\ mutex' = [mutex EXCEPT ![Outer(t)] = Free, ![Inner(t)] = Free]
  /\ idx' = [idx EXCEPT ![t] = @ + 1]
  /\ UNCHANGED <<server, storeVars, userVars, envVars, threadVars, got, script, shared>>

ByeToChannel(t) ==
  /\ Doing(t, "byeAll") /\ Locked(t) /\ ~MustDie(t)
  /\ byed' = byed \cup Members(chan[Where(t)])
  /\ mutex' = [mutex EXCEPT ![Outer(t)] = Free, ![Inner(t)] = Free]
  /\ idx' = [idx EXCEPT ![t] = @ + 1]
  /\ UNCHANGED <<server, storeVars, userVars, envVars, threadVars, got, script, shared>>

\* The loop is over (an overrun list may look empty to it): the list is unlocked.
ByeDone(t) ==
  /\ Doing(t, "byeAll") /\ ~MustDie(t)
  /\ \/ ~Locks(t)
     \/ Overrun /\ idx[t] = 0 /\ t \notin {mutex[Outer(t)], mutex[Inner(t)]}
  /\ GoOn(t) /\ mutex' = Unlocked(ListMutexes)
  /\ UNCHANGED <<server, storeVars, userVars, envVars, threadVars, shared, byed>>

Step(t) ==
  \/ add_client(t) \/ remove_client_from_channel(t) \/ SendNext(t) \/ SendDone(t)
  \/ NameDiffers(t) \/ ChannelFound(t) \/ NewChannel(t)
  \/ send_to_client(t) \/ get_udp_msg_clear(t) \/ get_udp_msg_write(t)
  \/ remove_udp_user(t) \/ Quit(t)
  \/ ListLocked(t) \/ ByeToChannel(t) \/ ByeDone(t)

-----------------------------------------------------------------------------
(* A message arrives.  A client sends the kinds of the run, those outside  *)
(* Early only while the server has it in state OPEN.                       *)

Sends(c, kind) == kind \in Kinds /\ (kind \in Early \/ client_state[c] = "OPEN")

Handle(t, kind, calls) ==
  /\ script' = [script EXCEPT ![t] = calls]
  /\ got' = [got EXCEPT ![t] = kind]
  /\ UNCHANGED <<server, storeVars, envVars, run, idx, mutex, shared, byed>>

TcpGets(c, kind) == Listens(c) /\ c \notin closed /\ Sends(c, kind)

TcpAuth(c) ==
  /\ TcpGets(c, "AUTH") /\ client_state[c] = "ACCEPT"
  /\ client_state' = [client_state EXCEPT ![c] = "OPEN"]
  /\ named' = named \cup {c}
  /\ Handle(c, "AUTH", <<Call("answer"), Call("add")>> \o Announce(Joined(c)))
  /\ UNCHANGED <<cur, channel_name, who>>

\* An AUTH that cannot be parsed, which may have set the display name.
TcpAuthBad(c) ==
  /\ TcpGets(c, "AUTH") /\ client_state[c] = "ACCEPT"
  /\ client_state' = [client_state EXCEPT ![c] = "AUTH_failed"]
  /\ Handle(c, "AUTH", <<Call("answer")>>)
  /\ UNCHANGED <<cur, channel_name, named, who>>

\* receive_message fails: AUTH twice, JOIN or MSG outside OPEN or malformed.
TcpRefuse(c, kind) ==
  /\ TcpGets(c, kind)
  /\ \/ kind = "AUTH" /\ client_state[c] # "ACCEPT"
     \/ kind \in {"JOIN", "MSG"}
  /\ Handle(c, kind, <<Call("answer")>>)
  /\ UNCHANGED <<userVars, who>>

\* Neither of the two announcements of a JOIN sets the shared message up.
TcpJoin(c, n) ==
  /\ TcpGets(c, "JOIN") /\ client_state[c] = "OPEN"
  /\ Handle(c, "JOIN", <<Call("remove"), Send(Left(c)), Create(n), Call("add"),
                         Call("answer"), Send(Joined(c))>>)
  /\ UNCHANGED <<userVars, who>>

TcpMsg(c) ==
  /\ TcpGets(c, "MSG") /\ client_state[c] = "OPEN"
  /\ Handle(c, "MSG", Announce(Said(c)))
  /\ UNCHANGED <<userVars, who>>

\* Variant: the leaving client stays listed.
TcpBye_keeps_entry(c) ==
  /\ TcpGets(c, "BYE")
  /\ Handle(c, "BYE", Announce(Left(c)) \o <<Call("quit")>>)
  /\ UNCHANGED <<userVars, who>>

TcpBye(c) ==
  /\ TcpGets(c, "BYE")
  /\ Handle(c, "BYE", <<Call("remove")>> \o Announce(Left(c)) \o <<Call("quit")>>)
  /\ UNCHANGED <<userVars, who>>

TcpUnknown(c) ==
  /\ TcpGets(c, "UNKNOWN")
  /\ client_state' = [client_state EXCEPT ![c] = "END"]
  /\ Handle(c, "UNKNOWN", <<Call("answer"), Call("remove")>>
                            \o Announce(Left(c)) \o <<Call("quit")>>)
  /\ UNCHANGED <<cur, channel_name, named, who>>

\* recv returns 0: the handler returns without touching the channel.
TcpEof(c) ==
  /\ Listens(c) /\ c \in closed
  /\ Handle(c, "none", <<Call("quit")>>)
  /\ UNCHANGED <<userVars, who>>

TcpInterrupted(c) ==
  /\ server = "up" /\ run[c] = "running" /\ Idle(c) /\ sigint
  /\ Handle(c, "none", <<Call("quit")>>)
  /\ UNCHANGED <<userVars, who>>

\* A datagram arrives.  A sender that is not in the list of users gets a record
\* there; its memory is fresh or that of a user who left (of whom the channel
\* and the channel name are still in it).
UdpGets(c, kind) == Listens(UdpThread) /\ Sends(c, kind) /\ who' = c

Record(c) ==
  IF client_state[c] # "NONE"
  THEN {[channel |-> cur[c], channel_name |-> channel_name[c]]}
  ELSE {[channel |-> 0, channel_name |-> NoName]}
         \cup {[channel |-> cur[d], channel_name |-> channel_name[d]] :
                 d \in {d \in UdpClients : client_state[d] = "NONE"}}

UserState(c) == IF client_state[c] = "NONE" THEN "ACCEPT" ELSE client_state[c]

Keep(c, user, st) ==
  /\ client_state' = [client_state EXCEPT ![c] = st]
  /\ cur' = [cur EXCEPT ![c] = user.channel]
  /\ channel_name' = [channel_name EXCEPT ![c] = user.channel_name]
  /\ UNCHANGED named

UdpAuth(c) ==
  /\ UdpGets(c, "AUTH") /\ UserState(c) = "ACCEPT"
  /\ \E user \in Record(c) : Keep(c, user, "OPEN")
  /\ Handle(UdpThread, "AUTH", <<Call("answer"), Call("addGeneral")>>
                                 \o Announce(Joined(c)))

\* Variant: the user joins without leaving.
JoinCalls_no_remove(c, n) ==
  <<Call("answer")>> \o Announce(Left(c)) \o <<Create(n), Call("answer"), Call("add")>>

\* The calls of the JOIN branch, for the channel name n of the user's record.
JoinCalls(c, n) ==
  <<Call("answer")>> \o Announce(Left(c))
    \o <<Call("remove"), Create(n), Call("answer"), Call("add")>>

UdpJoin(c, n) ==
  /\ UdpGets(c, "JOIN") /\ UserState(c) = "OPEN"
  /\ Keep(c, [channel |-> cur[c], channel_name |-> n], "OPEN")
  /\ Handle(UdpThread, "JOIN", JoinCalls(c, n))

\* ERROR_STATE is 3, the opcode of JOIN: a message the parser refuses for the
\* user's state runs the JOIN branch with whatever the record holds.
UdpErrorState(c, kind) ==
  /\ UdpGets(c, kind)
  /\ \/ kind = "AUTH" /\ UserState(c) # "ACCEPT"
     \/ kind \in {"JOIN", "MSG"} /\ UserState(c) # "OPEN"
  /\ \E user \in Record(c) :
       /\ Keep(c, user, UserState(c))
       /\ Handle(UdpThread, kind, JoinCalls(c, user.channel_name))

UdpMsg(c) ==
  /\ UdpGets(c, "MSG") /\ UserState(c) = "OPEN"
  /\ Handle(UdpThread, "MSG", <<Call("answer")>> \o Announce(Said(c)))
  /\ UNCHANGED userVars

UdpBye(c) ==
  /\ UdpGets(c, "BYE")
  /\ \E user \in Record(c) : Keep(c, user, UserState(c))
  /\ Handle(UdpThread, "BYE", <<Call("answer")>> \o Announce(Left(c))
                                \o <<Call("remove"), Call("forget")>>)

\* ERR, or an opcode that is none of the protocol's: END, and out.
UdpEnd(c, kind) ==
  /\ kind \in {"ERR", "UNKNOWN"} /\ UdpGets(c, kind)
  /\ \E user \in Record(c) : Keep(c, user, "END")
  /\ Handle(UdpThread, kind, <<Call("answer"), Call("remove"), Call("forget")>>)

UdpConfirm(c) ==
  /\ UdpGets(c, "CONFIRM")
  /\ \E user \in Record(c) : Keep(c, user, UserState(c))
  /\ Handle(UdpThread, "none", << >>)

\* The pipe is readable: the loop ends, everybody is sent BYE.
UdpInterrupted ==
  /\ server = "up" /\ run[UdpThread] = "running" /\ Idle(UdpThread) /\ sigint
  /\ Handle(UdpThread, "none", <<Call("lockList"), Call("byeAll"), Call("quit")>>)
  /\ UNCHANGED <<userVars, who>>

-----------------------------------------------------------------------------
(* The environment.                                                        *)

\* accept_connection starts a thread for a connection.
Connect(c) ==
  /\ server = "up" /\ run[c] = "new" /\ ~sigint
  /\ run' = [run EXCEPT ![c] = "running"]
  /\ UNCHANGED <<server, storeVars, userVars, envVars, who, callVars, shared, byed>>

Disconnect(c) ==
  /\ Leaving /\ server = "up" /\ run[c] = "running" /\ c \notin closed
  /\ closed' = closed \cup {c}
  /\ UNCHANGED <<server, storeVars, userVars, sigint, threadVars, callVars, shared, byed>>

\* stop_listening, on C-c.
stop_listening ==
  /\ Interruptible /\ server = "up" /\ ~sigint
  /\ sigint' = TRUE
  /\ UNCHANGED <<server, storeVars, userVars, closed, threadVars, callVars, shared, byed>>

\* Nothing is under way: the threads wait for input, or the process is gone.
Quiet ==
  /\ server = "down" \/ \A t \in Threads : Idle(t)
  /\ UNCHANGED vars

TcpInput(c) ==
  \/ TcpAuth(c) \/ TcpAuthBad(c) \/ TcpMsg(c) \/ TcpBye(c) \/ TcpUnknown(c)
  \/ \E kind \in Kinds : TcpRefuse(c, kind)
  \/ \E n \in Names : TcpJoin(c, n)

UdpInput(c) ==
  \/ UdpAuth(c) \/ UdpMsg(c) \/ UdpBye(c) \/ UdpConfirm(c)
  \/ \E kind \in Kinds : UdpErrorState(c, kind) \/ UdpEnd(c, kind)
  \/ \E n \in Names : UdpJoin(c, n)

Next ==
  \/ \E t \in Threads : LockOuter(t) \/ LockInner(t) \/ Step(t) \/ Die(t)
  \/ \E c \in TcpClients : \/ TcpInput(c) \/ TcpEof(c) \/ TcpInterrupted(c)
                           \/ Connect(c) \/ Disconnect(c)
  \/ \E c \in UdpClients : UdpInput(c)
  \/ UdpInterrupted \/ stop_listening
  \/ Quiet

Spec == Init /\ [][Next]_vars
=============================================================================
