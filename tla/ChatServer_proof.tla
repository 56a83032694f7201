-------------------------- MODULE ChatServer_proof --------------------------
(***************************************************************************)
(* What every step of ChatServer does to the types of its variables, for   *)
(* any number of clients, channels and entries, and what the arrival of a  *)
(* message does to the thread that takes it.                               *)
(***************************************************************************)
EXTENDS ChatInvariant, ChannelStore_proof, SequenceTheorems

\* The calls handlers make for a client; the shutdown pass makes the others.
UserOp == {o \in Op : o.do \notin {"lockList", "byeAll"}}
ByeCalls == <<Call("lockList"), Call("byeAll"), Call("quit")>>

-----------------------------------------------------------------------------
(* Scripts.                                                                *)

LEMMA CallsAreUserOps ==
  /\ \A v \in Verbs \ {"lockList", "byeAll"} : Call(v) \in UserOp
  /\ \A n \in Names \cup {NoName} : Create(n) \in UserOp
  /\ \A x \in Text : Fill(x) \in UserOp /\ Send(x) \in UserOp
  /\ \A c \in Sockets : Joined(c) \in Text /\ Left(c) \in Text /\ Said(c) \in Text
BY DEF Call, Create, Fill, Send, Joined, Left, Said, Text, Op, UserOp, Verbs

LEMMA ShortScripts ==
  ASSUME NEW S
  PROVE  /\ << >> \in Seq(S)
         /\ \A a1 \in S : <<a1>> \in Seq(S)
         /\ \A a1, a2 \in S : <<a1, a2>> \in Seq(S)
         /\ \A a1, a2, a3 \in S : <<a1, a2, a3>> \in Seq(S)
         /\ \A a1, a2, a3, a4 \in S : <<a1, a2, a3, a4>> \in Seq(S)
         /\ \A a1, a2, a3, a4, a5, a6 \in S : <<a1, a2, a3, a4, a5, a6>> \in Seq(S)
OBVIOUS

LEMMA AnnounceScript ==
  ASSUME NEW x \in Text  PROVE Announce(x) \in Seq(UserOp)
BY CallsAreUserOps, ShortScripts DEF Announce, Verbs

LEMMA UserScripts ==
  ASSUME NEW c \in Sockets, NEW n \in Names \cup {NoName}
  PROVE  /\ <<Call("answer")>> \in Seq(UserOp)
         /\ <<Call("quit")>> \in Seq(UserOp)
         /\ <<Call("answer"), Call("add")>> \o Announce(Joined(c)) \in Seq(UserOp)
         /\ <<Call("remove"), Send(Left(c)), Create(n), Call("add"),
              Call("answer"), Send(Joined(c))>> \in Seq(UserOp)
         /\ Announce(Said(c)) \in Seq(UserOp)
         /\ <<Call("remove")>> \o Announce(Left(c)) \o <<Call("quit")>> \in Seq(UserOp)
         /\ <<Call("answer"), Call("remove")>> \o Announce(Left(c)) \o <<Call("quit")>>
              \in Seq(UserOp)
         /\ <<Call("answer"), Call("addGeneral")>> \o Announce(Joined(c)) \in Seq(UserOp)
         /\ JoinCalls(c, n) \in Seq(UserOp)
         /\ <<Call("answer")>> \o Announce(Said(c)) \in Seq(UserOp)
         /\ <<Call("answer")>> \o Announce(Left(c)) \o <<Call("remove"), Call("forget")>>
              \in Seq(UserOp)
         /\ <<Call("answer"), Call("remove"), Call("forget")>> \in Seq(UserOp)
<1> DEFINE T == Seq(UserOp)
<1>1. /\ Announce(Joined(c)) \in T /\ Announce(Left(c)) \in T /\ Announce(Said(c)) \in T
  BY AnnounceScript, CallsAreUserOps
<1>2. \A v \in {"answer", "add", "addGeneral", "remove", "forget", "quit"} : Call(v) \in UserOp
  BY CallsAreUserOps DEF Verbs
<1>3. /\ Create(n) \in UserOp /\ Send(Left(c)) \in UserOp /\ Send(Joined(c)) \in UserOp
  BY CallsAreUserOps
<1>4. \A s1, s2 \in T : s1 \o s2 \in T
  BY ConcatProperties
<1>5. /\ <<Call("answer")>> \in T /\ <<Call("quit")>> \in T /\ <<Call("remove")>> \in T
      /\ <<Call("answer"), Call("add")>> \in T
      /\ <<Call("answer"), Call("addGeneral")>> \in T
      /\ <<Call("answer"), Call("remove")>> \in T
      /\ <<Call("remove"), Call("forget")>> \in T
      /\ <<Call("answer"), Call("remove"), Call("forget")>> \in T
      /\ <<Call("remove"), Create(n), Call("answer"), Call("add")>> \in T
      /\ <<Call("remove"), Send(Left(c)), Create(n), Call("add"),
           Call("answer"), Send(Joined(c))>> \in T
  BY <1>2, <1>3, ShortScripts
<1> HIDE DEF T
<1>6. JoinCalls(c, n) \in T
  BY <1>1, <1>4, <1>5 DEF JoinCalls
<1>7. /\ <<Call("answer"), Call("add")>> \o Announce(Joined(c)) \in T
      /\ <<Call("answer"), Call("addGeneral")>> \o Announce(Joined(c)) \in T
      /\ <<Call("answer")>> \o Announce(Said(c)) \in T
      /\ (<<Call("answer")>> \o Announce(Left(c))) \o <<Call("remove"), Call("forget")>> \in T
      /\ (<<Call("remove")>> \o Announce(Left(c))) \o <<Call("quit")>> \in T
      /\ (<<Call("answer"), Call("remove")>> \o Announce(Left(c))) \o <<Call("quit")>> \in T
  BY <1>1, <1>4, <1>5
<1> QED  BY <1>1, <1>5, <1>6, <1>7 DEF T

-----------------------------------------------------------------------------
(* Messages.  What the proofs need to know of the arrival of a message, a  *)
(* closed connection or C-c at an idle thread t.                           *)

Input(t, calls) ==
  /\ server = "up" /\ Idle(t)
  /\ script' = [script EXCEPT ![t] = calls]
  /\ \/ calls \in Seq(UserOp) /\ (t = UdpThread => who' \in UdpClients)
     \/ calls = ByeCalls /\ t = UdpThread /\ who' = who
  /\ (t # UdpThread => who' = who)
  /\ \A c \in TcpClients : cur'[c] = cur[c]
  /\ (t # UdpThread => cur' = cur)
  /\ UNCHANGED <<server, storeVars, idx, mutex>>

LEMMA UserOpsAreOps == Seq(UserOp) \subseteq Seq(Op) /\ ByeCalls \in Seq(Op)
<1>1. UserOp \subseteq Op
  BY DEF UserOp
<1>2. \A v \in Verbs : Call(v) \in Op
  BY DEF Call, Op
<1>3. ByeCalls \in Seq(Op)
  BY <1>2, ShortScripts DEF ByeCalls, Verbs
<1> QED  BY <1>1, <1>3, SeqMonotonic

LEMMA HandleTypes ==
  ASSUME TypeOK, NEW t \in Threads, NEW kind \in AllKinds \cup {"none"},
         NEW calls \in Seq(Op), Handle(t, kind, calls),
         client_state' \in [Sockets -> States],
         cur' \in [Sockets -> 0 .. LastChan],
         channel_name' \in [Sockets -> Names \cup {NoName}],
         named' \subseteq TcpClients,
         who' \in UdpClients \cup {NoSocket}
  PROVE  TypeOK'
BY DEF TypeOK, Handle, storeVars, envVars

LEMMA TcpInputStep ==
  ASSUME TypeOK, NEW c \in TcpClients,
         TcpInput(c) \/ TcpEof(c) \/ TcpInterrupted(c)
  PROVE  TypeOK' /\ \E calls \in Seq(Op) : Input(c, calls)
<1> USE ServerAssumption
<1>0. /\ c \in Sockets /\ c \in Threads /\ c # UdpThread /\ NoName \in Names \cup {NoName}
      /\ Seq(UserOp) \subseteq Seq(Op) /\ AllKinds # {}
  BY UserOpsAreOps DEF Threads, AllKinds
<1> DEFINE Same == who' = who /\ cur' = cur /\ channel_name' = channel_name
<1>1. ASSUME NEW calls \in Seq(UserOp), NEW kind \in AllKinds \cup {"none"},
             server = "up", Idle(c), Handle(c, kind, calls), Same,
             client_state' \in [Sockets -> States], named' \subseteq TcpClients
      PROVE  TypeOK' /\ \E s \in Seq(Op) : Input(c, s)
  <2>1. TypeOK'
    BY <1>0, <1>1, HandleTypes DEF TypeOK
  <2>2. Input(c, calls)
    BY <1>0, <1>1 DEF Input, Handle
  <2> QED  BY <1>0, <2>1, <2>2
<1>2. CASE TcpAuth(c)
  <2>1. <<Call("answer"), Call("add")>> \o Announce(Joined(c)) \in Seq(UserOp)
    BY <1>0, UserScripts
  <2>2. client_state' \in [Sockets -> States] /\ named' \subseteq TcpClients
    BY <1>2 DEF TcpAuth, TypeOK, States
  <2> QED  BY <1>1, <1>2, <2>1, <2>2 DEF TcpAuth, TcpGets, Listens, AllKinds
<1>3. CASE TcpAuthBad(c)
  BY <1>0, <1>1, <1>3, UserScripts DEF TcpAuthBad, TcpGets, Listens, AllKinds, TypeOK, States
<1>4. CASE TcpMsg(c)
  BY <1>0, <1>1, <1>4, UserScripts DEF TcpMsg, TcpGets, Listens, AllKinds, TypeOK, userVars
<1>5. CASE TcpBye(c)
  BY <1>0, <1>1, <1>5, UserScripts DEF TcpBye, TcpGets, Listens, AllKinds, TypeOK, userVars
<1>6. CASE TcpUnknown(c)
  BY <1>0, <1>1, <1>6, UserScripts DEF TcpUnknown, TcpGets, Listens, AllKinds, TypeOK, States
<1>7. CASE \E kind \in Kinds : TcpRefuse(c, kind)
  <2>1. <<Call("answer")>> \in Seq(UserOp)
    BY <1>0, UserScripts
  <2> QED  BY <1>0, <1>1, <1>7, <2>1 DEF TcpRefuse, TcpGets, Listens, TypeOK, userVars
<1>8. CASE \E n \in Names : TcpJoin(c, n)
  <2>1. PICK n \in Names : TcpJoin(c, n)
    BY <1>8
  <2>2. <<Call("remove"), Send(Left(c)), Create(n), Call("add"), Call("answer"),
          Send(Joined(c))>> \in Seq(UserOp)
    BY <1>0, UserScripts
  <2> QED  BY <1>1, <2>1, <2>2 DEF TcpJoin, TcpGets, Listens, AllKinds, TypeOK, userVars
<1>9. CASE TcpEof(c) \/ TcpInterrupted(c)
  BY <1>0, <1>1, <1>9, UserScripts DEF TcpEof, TcpInterrupted, Listens, TypeOK, userVars
<1> QED  BY <1>2, <1>3, <1>4, <1>5, <1>6, <1>7, <1>8, <1>9 DEF TcpInput

LEMMA UdpInputStep ==
  ASSUME TypeOK, NEW c \in UdpClients, UdpInput(c)
  PROVE  TypeOK' /\ \E calls \in Seq(Op) : Input(UdpThread, calls)
<1> USE ServerAssumption
<1>0. /\ c \in Sockets /\ UdpThread \in Threads
      /\ Seq(UserOp) \subseteq Seq(Op) /\ \A d \in TcpClients : d # c
  BY UserOpsAreOps DEF Threads
<1> DEFINE Users == [channel : 0 .. LastChan, channel_name : Names \cup {NoName}]
<1>1. Record(c) \subseteq Users
  BY <1>0 DEF Record, LastChan, TypeOK
<1>2. UserState(c) \in States
  BY <1>0 DEF UserState, TypeOK, States
<1>3. ASSUME NEW calls \in Seq(UserOp), NEW kind \in AllKinds \cup {"none"},
             NEW user \in Users, NEW st \in States,
             server = "up", Idle(UdpThread), Handle(UdpThread, kind, calls),
             Keep(c, user, st), who' = c
      PROVE  TypeOK' /\ \E s \in Seq(Op) : Input(UdpThread, s)
  <2>1. TypeOK'
    <3>1. /\ client_state' \in [Sockets -> States]
          /\ cur' \in [Sockets -> 0 .. LastChan]
          /\ channel_name' \in [Sockets -> Names \cup {NoName}]
          /\ named' \subseteq TcpClients
      BY <1>3 DEF Keep, TypeOK
    <3> QED  BY <1>0, <1>3, <3>1, HandleTypes
  <2>2. \A d \in TcpClients : cur'[d] = cur[d]
    BY <1>0, <1>3 DEF Keep, TypeOK
  <2>3. Input(UdpThread, calls)
    BY <1>3, <2>2 DEF Input, Handle
  <2> QED  BY <1>0, <2>1, <2>3
<1>4. CASE UdpAuth(c)
  BY <1>0, <1>1, <1>3, <1>4, UserScripts DEF UdpAuth, UdpGets, Listens, AllKinds, States
<1>5. CASE UdpMsg(c)
  <2>1. <<Call("answer")>> \o Announce(Said(c)) \in Seq(UserOp)
    BY <1>0, UserScripts
  <2>2. Handle(UdpThread, "MSG", <<Call("answer")>> \o Announce(Said(c)))
    BY <1>5 DEF UdpMsg
  <2>3. TypeOK'
    BY <1>0, <1>5, <2>1, <2>2, HandleTypes DEF UdpMsg, UdpGets, AllKinds, TypeOK, userVars
  <2>4. Input(UdpThread, <<Call("answer")>> \o Announce(Said(c)))
    BY <1>5, <2>1, <2>2 DEF UdpMsg, UdpGets, Listens, userVars, Input, Handle
  <2> QED  BY <1>0, <2>1, <2>3, <2>4
<1>6. CASE UdpBye(c)
  BY <1>0, <1>1, <1>2, <1>3, <1>6, UserScripts DEF UdpBye, UdpGets, Listens, AllKinds
<1>7. CASE UdpConfirm(c)
  BY <1>0, <1>1, <1>2, <1>3, <1>7, ShortScripts DEF UdpConfirm, UdpGets, Listens
<1>8. CASE \E kind \in Kinds : UdpErrorState(c, kind)
  <2>1. PICK kind \in Kinds, user \in Record(c) :
          /\ UdpGets(c, kind) /\ Keep(c, user, UserState(c))
          /\ Handle(UdpThread, kind, JoinCalls(c, user.channel_name))
    BY <1>8 DEF UdpErrorState
  <2>2. JoinCalls(c, user.channel_name) \in Seq(UserOp)
    BY <1>0, <1>1, UserScripts
  <2> QED  BY <1>1, <1>2, <1>3, <2>1, <2>2 DEF UdpGets, Listens
<1>9. CASE \E kind \in Kinds : UdpEnd(c, kind)
  BY <1>0, <1>1, <1>3, <1>9, UserScripts DEF UdpEnd, UdpGets, Listens, States
<1>10. CASE \E n \in Names : UdpJoin(c, n)
  <2>1. PICK n \in Names : UdpJoin(c, n)
    BY <1>10
  <2>2. [channel |-> cur[c], channel_name |-> n] \in Users
    BY <1>0 DEF TypeOK
  <2>3. JoinCalls(c, n) \in Seq(UserOp)
    BY <1>0, UserScripts
  <2> QED  BY <1>3, <2>1, <2>2, <2>3 DEF UdpJoin, UdpGets, Listens, AllKinds, States
<1> QED  BY <1>4, <1>5, <1>6, <1>7, <1>8, <1>9, <1>10 DEF UdpInput

LEMMA UdpInterruptedStep ==
  ASSUME TypeOK, UdpInterrupted
  PROVE  TypeOK' /\ \E calls \in Seq(Op) : Input(UdpThread, calls)
<1>1. TypeOK'
  BY UserOpsAreOps, HandleTypes DEF UdpInterrupted, ByeCalls, Threads, TypeOK, userVars
<1>2. Input(UdpThread, ByeCalls)
  BY DEF UdpInterrupted, Handle, Input, ByeCalls, userVars
<1> QED  BY <1>1, <1>2, UserOpsAreOps

-----------------------------------------------------------------------------
(* Calls.                                                                  *)

\* A thread goes on to the next call of its script.
LEMMA GoOnTypes ==
  ASSUME TypeOK, NEW t \in Threads, ~Idle(t), GoOn(t)
  PROVE  /\ script' \in [Threads -> Seq(Op)]
         /\ got' \in [Threads -> AllKinds \cup {"none"}]
         /\ idx' \in [Threads -> Nat]
         /\ idx'[t] = 0 /\ script'[t] = Tail(script[t])
         /\ \A u \in Threads \ {t} : idx'[u] = idx[u] /\ script'[u] = script[u]
<1>1. script[t] \in Seq(Op) /\ script[t] # << >>
  BY DEF TypeOK, Idle
<1>2. Tail(script[t]) \in Seq(Op)
  BY <1>1, HeadTailProperties
<1> QED  BY <1>1, <1>2 DEF GoOn, TypeOK

LEMMA UnlockedType ==
  ASSUME TypeOK, NEW S
  PROVE  /\ Unlocked(S) \in [Mutex -> Threads \cup {Free}]
         /\ \A m \in Mutex : Unlocked(S)[m] = IF m \in S THEN Free ELSE mutex[m]
BY DEF Unlocked, TypeOK

LEMMA HeadOp ==
  ASSUME TypeOK, NEW t \in Threads, ~Idle(t)
  PROVE  /\ script[t] \in Seq(Op) /\ script[t] # << >>
         /\ Head(script[t]) \in Op /\ Head(script[t]) = script[t][1]
         /\ Len(script[t]) \in Nat \ {0}
<1>1. script[t] \in Seq(Op) /\ script[t] # << >>
  BY DEF TypeOK, Idle
<1> QED  BY <1>1, HeadTailProperties, EmptySeq

LEMMA ClientKnown ==
  ASSUME TypeOK, UserKnown, NEW t \in Threads, ~Idle(t),
         Head(script[t]).do \notin {"lockList", "byeAll", "quit"}
  PROVE  Client(t) \in Sockets
<1> USE ServerAssumption
<1>1. CASE t = UdpThread
  <2>1. script[t][1].do \notin {"lockList", "byeAll", "quit"} /\ 1 \in 1 .. Len(script[t])
    BY HeadOp
  <2>2. who # NoSocket
    BY <1>1, <2>1 DEF UserKnown
  <2> QED  BY <1>1, <2>2 DEF Client, TypeOK
<1>2. CASE t # UdpThread
  BY <1>2 DEF Client, Threads
<1> QED  BY <1>1, <1>2

LEMMA WhereType ==
  ASSUME TypeOK, UserKnown, NEW t \in Threads, Locks(t), Head(script[t]).do \notin ListCalls
  PROVE  Where(t) \in Chans
<1> USE ServerAssumption
<1>1. CASE Head(script[t]).do = "byeAll"
  BY <1>1 DEF Locks, Where, ChannelCalls, ListCalls, Chans, LastChan, TypeOK
<1>2. CASE Head(script[t]).do = "addGeneral"
  BY <1>2 DEF Where, Chans, LastChan
<1>3. CASE Head(script[t]).do \in {"add", "remove", "send"}
  <2>1. Client(t) \in Sockets
    <3>1. ~Idle(t)
      BY DEF Locks
    <3> QED  BY <1>3, <3>1, ClientKnown
  <2>2. Where(t) = cur[Client(t)] /\ Where(t) # 0
    BY <1>3 DEF Where, Locks, ChannelCalls, ListCalls
  <2> QED  BY <2>1, <2>2 DEF TypeOK, Chans, LastChan
<1> QED  BY <1>1, <1>2, <1>3 DEF Locks, ChannelCalls, ListCalls

\* Whichever way add_client ends, it is one update of the channel and of the
\* client's current channel.
Adding(t) ==
  /\ Doing(t, "add") \/ Doing(t, "addGeneral")
  /\ Locked(t)
  /\ chan' = [chan EXCEPT ![Where(t)] = AfterAdd(@, Client(t), t = UdpThread)]
  /\ cur' = [cur EXCEPT ![Client(t)] = Where(t)]
  /\ Return(t)
  /\ UNCHANGED <<server, channels, client_state, channel_name, named, envVars, threadVars, shared, byed>>

LEMMA AddClientAdds ==
  ASSUME TypeOK, UserKnown, NEW t \in Threads, add_client(t)
  PROVE  Adding(t) /\ Where(t) \in Chans
<1> DEFINE k == Where(t)
           new == AfterAdd(chan[k], Client(t), t = UdpThread)
<1>1. (Doing(t, "add") \/ Doing(t, "addGeneral")) /\ Locked(t)
  BY DEF add_client, AlreadyListed, ChannelFull, ClientAdded
<1>2. k \in Chans
  BY <1>1, WhereType DEF Locked, Doing, ListCalls
<1>3. /\ chan[k].num_users \in Nat /\ MaxUsers \in Nat
      /\ chan = [chan EXCEPT ![k] = chan[k]]
  BY <1>2, StoreAssumption DEF TypeOK, Channel
<1>4. chan' = [chan EXCEPT ![k] = new]
  <2>1. CASE AlreadyListed(t) \/ ChannelFull(t)
    <3>1. new = chan[k] /\ chan' = chan
      BY <2>1 DEF AlreadyListed, ChannelFull, AfterAdd, storeVars
    <3> QED  BY <1>3, <3>1
  <2>2. CASE ClientAdded(t)
    <3>1. new = AddClient(chan[k], Client(t), t = UdpThread)
      BY <1>3, <2>2 DEF ClientAdded, AfterAdd
    <3> HIDE DEF new
    <3> QED  BY <2>2, <3>1 DEF ClientAdded
  <2> QED  BY <2>1, <2>2 DEF add_client
<1>5. /\ cur' = [cur EXCEPT ![Client(t)] = k] /\ Return(t)
      /\ UNCHANGED <<server, channels, client_state, channel_name, named, envVars, threadVars, shared, byed>>
  BY DEF add_client, AlreadyListed, ChannelFull, ClientAdded, storeVars
<1> QED  BY <1>1, <1>2, <1>4, <1>5 DEF Adding

LEMMA StepType ==
  ASSUME TypeOK, UserKnown, NEW t \in Threads, Step(t)
  PROVE  TypeOK'
<1> USE ServerAssumption
<1>0. /\ ~Idle(t)
      /\ Client(t) \in Sockets \cup {NoSocket}
      /\ TcpClients \subseteq Sockets /\ UdpClients \subseteq Sockets
  BY DEF Step, add_client, AlreadyListed, ChannelFull, ClientAdded, remove_client_from_channel,
         SendNext, SendDone, NameDiffers, ChannelFound, NewChannel, send_to_client,
         get_udp_msg_clear, get_udp_msg_write, remove_udp_user, Quit, ListLocked, ByeToChannel,
         ByeDone, Doing, TypeOK, Client, Threads
<1>1. ASSUME GoOn(t)
      PROVE  /\ script' \in [Threads -> Seq(Op)]
             /\ got' \in [Threads -> AllKinds \cup {"none"}]
             /\ idx' \in [Threads -> Nat]
  BY <1>0, <1>1, GoOnTypes
<1>2. \A S : Unlocked(S) \in [Mutex -> Threads \cup {Free}]
  BY UnlockedType
<1>3. CASE add_client(t)
  <2>1. Adding(t) /\ Where(t) \in Chans
    BY <1>3, AddClientAdds
  <2>2. AfterAdd(chan[Where(t)], Client(t), t = UdpThread) \in Channel
    BY <1>0, <2>1, AddClientType DEF TypeOK
  <2>3. chan' \in [Chans -> Channel]
    BY <2>1, <2>2 DEF Adding, TypeOK
  <2>4. cur' \in [Sockets -> 0 .. LastChan]
    <3>1. cur' = [cur EXCEPT ![Client(t)] = Where(t)]
      BY <2>1 DEF Adding
    <3>2. cur \in [Sockets -> 0 .. LastChan] /\ Where(t) \in 0 .. LastChan
      BY <2>1 DEF TypeOK, Chans, LastChan
    <3> QED  BY <3>1, <3>2
  <2> QED  BY <1>1, <1>2, <2>1, <2>3, <2>4 DEF Adding, Return, TypeOK, envVars, threadVars
<1>4. CASE remove_client_from_channel(t)
  <2>1. Where(t) \in Chans
    BY <1>4, WhereType DEF remove_client_from_channel, Locked, Doing, ListCalls
  <2>2. RemoveClient(chan[Where(t)], Client(t)) \in Channel
    BY <2>1, RemoveClientType DEF TypeOK
  <2>3. chan' \in [Chans -> Channel]
    BY <1>4, <2>1, <2>2 DEF remove_client_from_channel, TypeOK
  <2> QED  BY <1>1, <1>2, <1>4, <2>3
           DEF remove_client_from_channel, Return, TypeOK, userVars, envVars, threadVars
<1>5. CASE SendNext(t) \/ NameDiffers(t)
  <2>1. idx' \in [Threads -> Nat]
    <3>1. idx' = [idx EXCEPT ![t] = idx[t] + 1]
      BY <1>5 DEF SendNext, NameDiffers
    <3>2. idx \in [Threads -> Nat] /\ idx[t] + 1 \in Nat
      BY DEF TypeOK
    <3> QED  BY <3>1, <3>2
  <2> QED  BY <1>5, <2>1 DEF SendNext, NameDiffers, TypeOK, storeVars, userVars, envVars, threadVars
<1>6. CASE SendDone(t) \/ ByeDone(t)
  BY <1>1, <1>2, <1>6
     DEF SendDone, ByeDone, Return, TypeOK, storeVars, userVars, envVars, threadVars
<1>7. CASE ChannelFound(t)
  <2>1. idx[t] + 1 \in 0 .. LastChan
    BY <1>7 DEF ChannelFound, TypeOK, Chans, LastChan
  <2>2. cur' \in [Sockets -> 0 .. LastChan]
    BY <1>7, <2>1 DEF ChannelFound, TypeOK
  <2> QED  BY <1>1, <1>2, <1>7, <2>2
           DEF ChannelFound, Return, TypeOK, storeVars, envVars, threadVars
<1>8. CASE NewChannel(t)
  <2>1. Len(channels) < LastChan
    BY <1>8 DEF NewChannel, MustDie, Overrun, TypeOK, Chans, LastChan
  <2>2. Head(script[t]).name \in Names
    <3>1. Head(script[t]) \in Op
      BY <1>0, HeadOp
    <3>2. Head(script[t]).name # NoName
      BY <1>8 DEF NewChannel, MustDie
    <3> QED  BY <3>1, <3>2 DEF Op
  <2>3. channels' \in Seq(Names) /\ Len(channels') = Len(channels) + 1
    BY <1>8, <2>2, AppendProperties DEF NewChannel, TypeOK
  <2>4. Len(channels') \in Chans /\ Len(channels) + 1 \in 0 .. LastChan
    BY <2>1, <2>3 DEF TypeOK, Chans, LastChan
  <2>5. cur' \in [Sockets -> 0 .. LastChan]
    BY <1>8, <2>4 DEF NewChannel, TypeOK
  <2> QED  BY <1>1, <1>2, <1>8, <2>3, <2>4, <2>5
           DEF NewChannel, Return, TypeOK, envVars, threadVars
<1>9. CASE send_to_client(t) \/ get_udp_msg_clear(t) \/ ListLocked(t)
  BY <1>1, <1>9 DEF send_to_client, get_udp_msg_clear, ListLocked, TypeOK,
                    storeVars, userVars, envVars, threadVars
<1>10. CASE get_udp_msg_write(t)
  <2>1. Head(script[t]).text \in Text \cup {Blank}
    BY <1>0, HeadOp DEF Op
  <2> QED  BY <1>1, <1>10, <2>1
           DEF get_udp_msg_write, TypeOK, storeVars, userVars, envVars, threadVars
<1>11. CASE remove_udp_user(t)
  <2>1. client_state' \in [Sockets -> States]
    BY <1>11 DEF remove_udp_user, TypeOK, States
  <2> QED  BY <1>1, <1>11, <2>1 DEF remove_udp_user, TypeOK, storeVars, envVars, threadVars
<1>12. CASE Quit(t)
  BY <1>1, <1>12 DEF Quit, TypeOK, storeVars, userVars, envVars
<1>13. CASE ByeToChannel(t)
  <2>1. Where(t) \in Chans
    BY <1>13, WhereType DEF ByeToChannel, Locked, Doing, ListCalls
  <2>2. Members(chan[Where(t)]) \subseteq Sockets \cup {NoSocket}
    BY <2>1, StoreAssumption DEF TypeOK, Channel, Slot, Members, InUse, Index
  <2>3. idx' \in [Threads -> Nat]
    BY <1>13 DEF ByeToChannel, TypeOK
  <2>4. mutex' \in [Mutex -> Threads \cup {Free}]
    BY <1>13 DEF ByeToChannel, TypeOK
  <2> QED  BY <1>13, <2>2, <2>3, <2>4 DEF ByeToChannel, TypeOK, storeVars, userVars, envVars, threadVars
<1> QED  BY <1>3, <1>4, <1>5, <1>6, <1>7, <1>8, <1>9, <1>10, <1>11, <1>12, <1>13 DEF Step

LEMMA LockType ==
  ASSUME TypeOK, NEW t \in Threads, LockOuter(t) \/ LockInner(t)
  PROVE  TypeOK'
<1>1. mutex' \in [Mutex -> Threads \cup {Free}]
  BY DEF LockOuter, LockInner, TypeOK
<1> QED  BY <1>1 DEF LockOuter, LockInner, TypeOK, storeVars, userVars, envVars, threadVars

LEMMA OutsideType ==
  ASSUME TypeOK,
         \/ \E t \in Threads : Die(t)
         \/ \E c \in TcpClients : Connect(c) \/ Disconnect(c)
         \/ stop_listening \/ Quiet \/ UNCHANGED vars
  PROVE  TypeOK'
<1>1. CASE \E t \in Threads : Die(t)
  BY <1>1 DEF Die, TypeOK, storeVars, userVars, envVars, threadVars, callVars
<1>2. CASE \E c \in TcpClients : Connect(c)
  BY <1>2 DEF Connect, TypeOK, storeVars, userVars, envVars, callVars
<1>3. CASE \E c \in TcpClients : Disconnect(c)
  BY <1>3 DEF Disconnect, TypeOK, storeVars, userVars, threadVars, callVars
<1>4. CASE stop_listening
  BY <1>4 DEF stop_listening, TypeOK, storeVars, userVars, threadVars, callVars
<1>5. CASE Quiet \/ UNCHANGED vars
  BY <1>5 DEF Quiet, TypeOK, vars, storeVars, userVars, envVars, threadVars, callVars
<1> QED  BY <1>1, <1>2, <1>3, <1>4, <1>5
=============================================================================
