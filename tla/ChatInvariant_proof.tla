------------------------ MODULE ChatInvariant_proof ------------------------
(***************************************************************************)
(* Inv of ChatInvariant is inductive, for any number of clients, channels  *)
(* and entries, and with it TypeOK, HoldersWork, UniqueNames, ListedOnce,  *)
(* MembersStable and ListFrozen hold in every behaviour.                   *)
(***************************************************************************)
EXTENDS ChatServer_proof

-----------------------------------------------------------------------------
(* Inv, thread by thread.                                                  *)

Holder(t) == \A m \in Mutex : mutex[m] = t => m \in Wanted(t)

Loop(t) == idx[t] # 0 => \/ Doing(t, "byeAll")
                         \/ (Doing(t, "send") \/ Doing(t, "create")) /\ Locked(t)

Search(t) == Doing(t, "create") =>
               /\ idx[t] <= Len(channels)
               /\ \A j \in 1 .. idx[t] : channels[j] # Head(script[t]).name

Bye(t) == Doing(t, "byeAll") => \A m \in ListMutexes : mutex[m] = t

\* What every step that thread t takes, or that is taken on its behalf, leaves
\* alone: the other threads' calls and mutexes, and the channels there are.
Only(t) ==
  /\ server = "up" /\ server' = "up"
  /\ \A u \in Threads \ {t} : /\ script'[u] = script[u] /\ idx'[u] = idx[u]
                              /\ Client(u)' = Client(u)
                              /\ Client(u) \in Sockets => cur'[Client(u)] = cur[Client(u)]
  /\ channels' = channels \/ \E n \in Names : channels' = Append(channels, n)
  /\ \A m \in Mutex : \/ mutex'[m] = mutex[m]
                      \/ mutex[m] \in {t, Free} /\ mutex'[m] \in {t, Free}

LEMMA ByThread ==
  ASSUME TypeOK, server = "up"
  PROVE  /\ HoldersWork <=> \A t \in Threads : Holder(t)
         /\ LoopsLocked <=> \A t \in Threads : Loop(t)
         /\ SearchSound <=> \A t \in Threads : Search(t)
         /\ ByeHoldsList <=> \A t \in Threads : Bye(t)
<1>1. Free \notin Threads
  BY ServerAssumption DEF Threads
<1>2. HoldersWork <=> \A t \in Threads : Holder(t)
  BY <1>1 DEF HoldersWork, Holder, TypeOK
<1> QED  BY <1>2 DEF LoopsLocked, SearchSound, ByeHoldsList, Loop, Search, Bye

\* A channel that is in the list stays at its position.
LEMMA ListGrows ==
  ASSUME TypeOK, NEW t, Only(t)
  PROVE  /\ Len(channels) \in Nat /\ Len(channels') \in Nat
         /\ Len(channels) <= Len(channels')
         /\ \A j \in 1 .. Len(channels) : channels'[j] = channels[j]
<1>1. channels \in Seq(Names) /\ Len(channels) \in Nat
  BY LenProperties DEF TypeOK
<1>2. CASE channels' = channels
  BY <1>1, <1>2
<1>3. ASSUME NEW n \in Names, channels' = Append(channels, n)
      PROVE  /\ Len(channels') = Len(channels) + 1
             /\ \A j \in 1 .. Len(channels) : channels'[j] = channels[j]
  BY <1>1, <1>3, AppendProperties
<1> QED  BY <1>1, <1>2, <1>3 DEF Only

\* The mutexes of a call are mutexes, and two of them.
LEMMA LockTypes ==
  ASSUME TypeOK, UserKnown, NEW t \in Threads, Locks(t)
  PROVE  Outer(t) \in Mutex /\ Inner(t) \in Mutex /\ Outer(t) # Inner(t)
<1>1. CASE Head(script[t]).do \in ListCalls
  <2>1. Outer(t) = <<"channels_mutex", 0>> /\ Inner(t) = <<"num_of_channel_mutex", 0>>
    BY <1>1 DEF Outer, Inner, ListCalls
  <2>2. <<"channels_mutex", 0>> \in Mutex /\ <<"num_of_channel_mutex", 0>> \in Mutex
    BY DEF Mutex
  <2> QED  BY <2>1, <2>2
<1>2. CASE Head(script[t]).do \notin ListCalls
  <2>1. Where(t) \in Chans
    BY <1>2, WhereType
  <2> QED  BY <1>2, <2>1 DEF Outer, Inner, Mutex
<1> QED  BY <1>1, <1>2

\* A thread that another thread's step leaves alone is in the same call.
LEMMA SameCall ==
  ASSUME TypeOK, UserKnown, NEW t \in Threads, Only(t), NEW u \in Threads \ {t}
  PROVE  /\ \A v : Doing(u, v)' = Doing(u, v)
         /\ Locks(u) => /\ Locks(u)'
                        /\ Outer(u)' = Outer(u) /\ Inner(u)' = Inner(u)
         /\ Locked(u) => Locked(u)'
         /\ Wanted(u) \subseteq Wanted(u)'
<1>1. /\ script'[u] = script[u] /\ idx'[u] = idx[u] /\ server = "up" /\ server' = "up"
      /\ Client(u)' = Client(u)
      /\ Client(u) \in Sockets => cur'[Client(u)] = cur[Client(u)]
  BY DEF Only
<1>2. ASSUME ~Idle(u), Head(script[u]).do \in ChannelCalls \cup {"byeAll"}
      PROVE  Where(u)' = Where(u)
  <2>1. CASE Head(script[u]).do \in {"byeAll", "addGeneral"}
    BY <1>1, <2>1 DEF Where
  <2>2. CASE Head(script[u]).do \notin {"byeAll", "addGeneral"}
    <3>1. Client(u) \in Sockets
      BY <1>2, <2>2, ClientKnown DEF ChannelCalls
    <3> QED  BY <1>1, <2>2, <3>1 DEF Where
  <2> QED  BY <2>1, <2>2
<1>3. Locks(u) => Outer(u)' = Outer(u) /\ Inner(u)' = Inner(u)
  <2>1. CASE Locks(u) /\ Head(script[u]).do \in ListCalls
    BY <1>1, <2>1 DEF Outer, Inner, ListCalls
  <2>2. CASE Locks(u) /\ Head(script[u]).do \in ChannelCalls \cup {"byeAll"}
    BY <1>1, <1>2, <2>2 DEF Outer, Inner, Locks
  <2> QED  BY <2>1, <2>2 DEF Locks
<1>4. \A v : Doing(u, v)' = Doing(u, v)
  BY <1>1 DEF Doing, Idle
<1>5. Locks(u) => Locks(u)'
  <2>1. idx[u] \in Nat
    BY DEF TypeOK
  <2> QED  BY <1>1, <1>2, <2>1, ListGrows DEF Locks, Idle
<1>6. \A m \in Mutex : mutex[m] = u => mutex'[m] = u
  BY ServerAssumption DEF Only, Threads
<1>7. Locked(u) => Locked(u)'
  BY <1>3, <1>5, <1>6, LockTypes DEF Locked
<1>8. Wanted(u) \subseteq Wanted(u)'
  BY <1>3, <1>4, <1>5 DEF Wanted
<1> QED  BY <1>3, <1>4, <1>5, <1>7, <1>8

\* So what holds of its call goes on to hold.
LEMMA OthersKeep ==
  ASSUME TypeOK, UserKnown, NEW t \in Threads, Only(t), NEW u \in Threads \ {t}
  PROVE  /\ Holder(u) => Holder(u)'
         /\ Loop(u) => Loop(u)'
         /\ Search(u) => Search(u)'
         /\ Bye(u) => Bye(u)'
<1>1. script'[u] = script[u] /\ idx'[u] = idx[u]
  BY DEF Only
<1>2. Holder(u) => Holder(u)'
  <2>1. \A m \in Mutex : mutex'[m] = u => mutex[m] = u
    BY ServerAssumption DEF Only, Threads
  <2> QED  BY <2>1, SameCall DEF Holder
<1>3. Loop(u) => Loop(u)'
  BY <1>1, SameCall DEF Loop
<1>4. Search(u) => Search(u)'
  <2>1. idx[u] \in Nat
    BY DEF TypeOK
  <2> QED  BY <1>1, <2>1, SameCall, ListGrows DEF Search
<1>5. Bye(u) => Bye(u)'
  <2>1. \A m \in Mutex : mutex[m] = u => mutex'[m] = u
    BY ServerAssumption DEF Only, Threads
  <2>2. ListMutexes \subseteq Mutex
    BY DEF ListMutexes, Mutex
  <2> QED  BY <2>1, <2>2, SameCall DEF Bye
<1> QED  BY <1>2, <1>3, <1>4, <1>5

-----------------------------------------------------------------------------
(* A thread's own steps.                                                   *)

LEMMA ClientsDiffer ==
  ASSUME TypeOK, NEW t \in Threads, NEW u \in Threads \ {t}, Client(u) \in Sockets
  PROVE  Client(u) # Client(t)
BY StoreAssumption, ServerAssumption DEF Client, Threads, TypeOK

LEMMA StepUp ==
  ASSUME NEW t \in Threads, Step(t)
  PROVE  server = "up" /\ server' = "up" /\ who' = who /\ ~Idle(t)
BY DEF Step, add_client, AlreadyListed, ChannelFull, ClientAdded, remove_client_from_channel,
         SendNext, SendDone, NameDiffers, ChannelFound, NewChannel, send_to_client,
         get_udp_msg_clear, get_udp_msg_write, remove_udp_user, Quit, ListLocked, ByeToChannel,
         ByeDone, Doing, threadVars

\* A step of a call returns from it, ends the shutdown pass, goes on without a
\* mutex, locks the list for the pass, or takes a loop one entry further.
LEMMA StepKinds ==
  ASSUME TypeOK, UserKnown, NEW t \in Threads, Step(t)
  PROVE  \/ Return(t) /\ Locked(t) /\ ~Doing(t, "lockList") /\ ~Doing(t, "byeAll")
         \/ ByeDone(t)
         \/ GoOn(t) /\ mutex' = mutex /\ ~Locks(t) /\ ~Doing(t, "byeAll")
         \/ ListLocked(t)
         \/ SendNext(t) \/ NameDiffers(t)
         \/ ByeToChannel(t)
<1>1. CASE \/ add_client(t) \/ remove_client_from_channel(t) \/ SendDone(t)
           \/ ChannelFound(t) \/ NewChannel(t)
  BY <1>1 DEF add_client, AlreadyListed, ChannelFull, ClientAdded, remove_client_from_channel,
              SendDone, ChannelFound, NewChannel, Doing
<1>2. CASE \/ send_to_client(t) \/ get_udp_msg_clear(t) \/ get_udp_msg_write(t)
           \/ remove_udp_user(t) \/ Quit(t)
  BY <1>2 DEF send_to_client, get_udp_msg_clear, get_udp_msg_write, remove_udp_user, Quit,
              Doing, Locks, ChannelCalls, ListCalls
<1> QED  BY <1>1, <1>2 DEF Step

LEMMA StepOnly ==
  ASSUME TypeOK, UserKnown, NEW t \in Threads, Step(t), Bye(t)
  PROVE  Only(t)
<1>1. server = "up" /\ server' = "up" /\ who' = who /\ ~Idle(t)
  BY StepUp
<1>2. \A u \in Threads \ {t} : Client(u)' = Client(u)
  BY <1>1 DEF Client
<1>3. \A u \in Threads \ {t} : script'[u] = script[u] /\ idx'[u] = idx[u]
  <2>1. CASE GoOn(t)
    BY <1>1, <2>1, GoOnTypes
  <2>2. CASE SendNext(t) \/ NameDiffers(t) \/ ByeToChannel(t)
    BY <2>2 DEF SendNext, NameDiffers, ByeToChannel, TypeOK
  <2> QED  BY <2>1, <2>2, StepKinds DEF Return, ByeDone, ListLocked
<1>4. \A u \in Threads \ {t} : Client(u) \in Sockets => cur'[Client(u)] = cur[Client(u)]
  <2>1. cur' = cur \/ \E k : cur' = [cur EXCEPT ![Client(t)] = k]
    BY DEF Step, add_client, AlreadyListed, ChannelFull, ClientAdded,
           remove_client_from_channel, SendNext, SendDone, NameDiffers, ChannelFound,
           NewChannel, send_to_client, get_udp_msg_clear, get_udp_msg_write, remove_udp_user,
           Quit, ListLocked, ByeToChannel, ByeDone, userVars
  <2> QED  BY <2>1, ClientsDiffer DEF TypeOK
<1>5. channels' = channels \/ \E n \in Names : channels' = Append(channels, n)
  <2>1. CASE NewChannel(t)
    <3>1. Head(script[t]).name \in Names
      BY <1>1, <2>1, HeadOp DEF NewChannel, MustDie, Op
    <3> QED  BY <2>1, <3>1 DEF NewChannel
  <2>2. CASE ~NewChannel(t)
    BY <2>2
       DEF Step, add_client, AlreadyListed, ChannelFull, ClientAdded,
           remove_client_from_channel, SendNext, SendDone, NameDiffers, ChannelFound,
           send_to_client, get_udp_msg_clear, get_udp_msg_write, remove_udp_user, Quit,
           ListLocked, ByeToChannel, ByeDone, storeVars
  <2> QED  BY <2>1, <2>2
<1>6. \A m \in Mutex : \/ mutex'[m] = mutex[m]
                       \/ mutex[m] \in {t, Free} /\ mutex'[m] \in {t, Free}
  <2>1. CASE Return(t) /\ Locked(t)
    BY <2>1, UnlockedType DEF Return, Locked
  <2>2. CASE ByeToChannel(t)
    BY <2>2 DEF ByeToChannel, Locked, TypeOK
  <2>3. CASE ByeDone(t)
    BY <2>3, UnlockedType DEF ByeDone, Bye
  <2> QED  BY <2>1, <2>2, <2>3, StepKinds DEF ListLocked, SendNext, NameDiffers
<1> QED  BY <1>1, <1>2, <1>3, <1>4, <1>5, <1>6 DEF Only

\* A thread that holds nothing is free of the invariants' demands at the start
\* of its next call.
LEMMA FreshCall ==
  ASSUME TypeOK, TypeOK', NEW t \in Threads, server' = "up",
         idx'[t] = 0, \A m \in Mutex : mutex'[m] # t, ~Doing(t, "byeAll")'
  PROVE  Holder(t)' /\ Loop(t)' /\ Search(t)' /\ Bye(t)'
<1>1. Len(channels') \in Nat
  BY LenProperties DEF TypeOK
<1> QED  BY <1>1 DEF Holder, Loop, Search, Bye

LEMMA HeadFirst ==
  ASSUME NEW S, NEW s \in Seq(S), s # << >>
  PROVE  Head(s) = s[1]
OBVIOUS

LEMMA StepOwn ==
  ASSUME TypeOK, TypeOK', UserKnown, ListThenBye, ByeAfterList, NEW t \in Threads, Step(t),
         Holder(t), Loop(t), Search(t), Bye(t)
  PROVE  Holder(t)' /\ Loop(t)' /\ Search(t)' /\ Bye(t)'
<1>0. Only(t) /\ server = "up" /\ server' = "up"
  BY StepOnly DEF Only
<1>a. ASSUME GoOn(t), ~Doing(t, "lockList"), ~Idle(t)
      PROVE  ~Doing(t, "byeAll")'
  <2>1. /\ script[t] \in Seq(Op) /\ script[t] # << >> /\ Len(script[t]) \in Nat \ {0}
        /\ script[t][1].do # "lockList" /\ script'[t] = Tail(script[t])
    BY <1>0, <1>a, HeadOp, GoOnTypes DEF Doing
  <2>2. CASE Len(script[t]) = 1
    <3>1. Tail(script[t]) \in Seq(Op) /\ Len(Tail(script[t])) = 0
      BY <2>1, <2>2, HeadTailProperties
    <3>2. Tail(script[t]) = << >>
      BY <3>1, EmptySeq
    <3> QED  BY <2>1, <3>2 DEF Doing, Idle
  <2>3. CASE Len(script[t]) > 1
    <3>1. /\ Tail(script[t]) \in Seq(Op) /\ Len(Tail(script[t])) = Len(script[t]) - 1
          /\ \A i \in 1 .. Len(script[t]) - 1 : Tail(script[t])[i] = script[t][i + 1]
      BY <2>1, HeadTailProperties
    <3>2. Len(Tail(script[t])) # 0 /\ Tail(script[t])[1] = script[t][2]
      BY <2>1, <2>3, <3>1
    <3>3. Head(Tail(script[t])) = script[t][2]
      BY <3>1, <3>2, EmptySeq, HeadFirst
    <3>4. 2 \in 2 .. Len(script[t]) /\ script[t][2 - 1].do # "lockList"
      BY <2>1, <2>3
    <3>5. script[t][2].do # "byeAll"
      BY <3>4 DEF ByeAfterList
    <3>6. Head(script'[t]).do # "byeAll"
      BY <2>1, <3>3, <3>5
    <3> QED  BY <3>6 DEF Doing
  <2>4. Len(script[t]) = 1 \/ Len(script[t]) > 1
    <3>1. \A n \in Nat \ {0} : n = 1 \/ n > 1
      OBVIOUS
    <3> QED  BY <2>1, <3>1, Zenon
  <2> QED  BY <2>2, <2>3, <2>4
<1>b. ~Idle(t)
  BY StepUp
<1>c. t # Free
  BY ServerAssumption DEF Threads
<1>1. CASE Return(t) /\ Locked(t) /\ ~Doing(t, "lockList") /\ ~Doing(t, "byeAll")
  <2>1. idx'[t] = 0
    BY <1>1 DEF Return, GoOn, TypeOK
  <2>2. \A m \in Mutex : mutex'[m] # t
    BY <1>1, <1>c, UnlockedType DEF Return, Holder, Wanted
  <2>3. ~Doing(t, "byeAll")'
    BY <1>1, <1>a, <1>b DEF Return
  <2> QED  BY <1>0, <2>1, <2>2, <2>3, FreshCall
<1>6. CASE ByeDone(t)
  <2>1. /\ idx'[t] = 0 /\ ~Doing(t, "lockList") /\ GoOn(t)
        /\ mutex' = Unlocked(ListMutexes)
        /\ ~Locks(t) \/ t \notin {mutex[Outer(t)], mutex[Inner(t)]}
    BY <1>6 DEF ByeDone, Doing, GoOn, TypeOK
  <2>2. \A m \in Mutex : mutex[m] = t => m \in ListMutexes
    BY <2>1 DEF Holder, Wanted
  <2>3. \A m \in Mutex : mutex'[m] # t
    BY <1>c, <2>1, <2>2, UnlockedType
  <2>4. ~Doing(t, "byeAll")'
    BY <2>1, <1>a, <1>b
  <2> QED  BY <1>0, <2>1, <2>3, <2>4, FreshCall
<1>2. CASE GoOn(t) /\ mutex' = mutex /\ ~Locks(t) /\ ~Doing(t, "byeAll")
  <2>1. idx'[t] = 0
    BY <1>2 DEF GoOn, TypeOK
  <2>2. \A m \in Mutex : mutex'[m] # t
    BY <1>2 DEF Holder, Wanted
  <2>3. ~Doing(t, "byeAll")'
    BY <1>0, <1>2, <1>a, <1>b DEF Locks, Doing, ListCalls
  <2> QED  BY <1>0, <2>1, <2>2, <2>3, FreshCall
<1>3. CASE ListLocked(t)
  <2>1. /\ ~Idle(t) /\ Head(script[t]).do = "lockList"
        /\ script'[t] = Tail(script[t]) /\ idx'[t] = 0 /\ mutex' = mutex
    BY <1>3, GoOnTypes DEF ListLocked, Doing
  <2>2. script[t] \in Seq(Op) /\ script[t] # << >> /\ Len(script[t]) \in Nat \ {0}
        /\ script[t][1].do = "lockList"
    BY <2>1, HeadOp
  <2>3. 1 < Len(script[t]) /\ script[t][2].do = "byeAll"
    BY <2>2 DEF ListThenBye
  <2>4. Tail(script[t]) # << >> /\ Head(Tail(script[t])) = script[t][2]
    <3>1. /\ Tail(script[t]) \in Seq(Op) /\ Len(Tail(script[t])) = Len(script[t]) - 1
          /\ \A i \in 1 .. Len(script[t]) - 1 : Tail(script[t])[i] = script[t][i + 1]
      BY <2>2, HeadTailProperties
    <3>2. Len(Tail(script[t])) # 0 /\ Tail(script[t])[1] = script[t][2]
      BY <2>2, <2>3, <3>1
    <3>3. Tail(script[t]) # << >>
      BY <3>2, EmptySeq
    <3>4. Head(Tail(script[t])) = Tail(script[t])[1]
      BY <3>1, <3>3, HeadFirst
    <3> QED  BY <3>2, <3>3, <3>4
  <2>5. script'[t] # << >> /\ Head(script'[t]).do = "byeAll"
    BY <2>1, <2>3, <2>4
  <2>6. Outer(t) \in ListMutexes /\ Inner(t) \in ListMutexes
    BY <2>1 DEF Outer, Inner, ListCalls, ListMutexes
  <2>7. Doing(t, "byeAll")' /\ ~Doing(t, "create")'
    BY <1>0, <2>5 DEF Doing, Idle
  <2>8. \A m \in Mutex : mutex[m] = t => m \in ListMutexes
    BY <2>6 DEF Holder, Wanted
  <2>9. Holder(t)'
    BY <2>1, <2>7, <2>8 DEF Holder, Wanted
  <2>10. Bye(t)'
    <3>1. \A m \in ListMutexes : m = Outer(t) \/ m = Inner(t)
      BY <2>1 DEF Outer, Inner, ListCalls, ListMutexes
    <3> QED  BY <1>3, <2>1, <3>1 DEF ListLocked, Locked, Bye
  <2> QED  BY <2>1, <2>7, <2>9, <2>10 DEF Loop, Search
<1>4. CASE SendNext(t) \/ NameDiffers(t)
  <2>1. /\ Doing(t, "send") \/ Doing(t, "create")
        /\ Locked(t) /\ ~Idle(t)
        /\ script' = script /\ mutex' = mutex /\ channels' = channels /\ cur' = cur
        /\ who' = who /\ idx' = [idx EXCEPT ![t] = @ + 1]
    BY <1>4 DEF SendNext, NameDiffers, Doing, storeVars, userVars, threadVars
  <2>2. Where(t)' = Where(t)
    BY <2>1 DEF Where, Doing, Client
  <2>3. Outer(t)' = Outer(t) /\ Inner(t)' = Inner(t)
    BY <2>1, <2>2 DEF Outer, Inner, Doing, ListCalls
  <2>4. \A v : Doing(t, v)' = Doing(t, v)
    BY <1>0, <2>1 DEF Doing, Idle
  <2>5. Locks(t)' /\ Locks(t)
    BY <1>0, <2>1, <2>2 DEF Locks, Locked, Doing, Idle, ChannelCalls, ListCalls
  <2>6. Locked(t)'
    BY <2>1, <2>3, <2>5 DEF Locked
  <2>7. Holder(t)'
    BY <2>1, <2>3, <2>4, <2>5 DEF Holder, Wanted
  <2>8. Search(t)'
    <3>1. CASE SendNext(t)
      BY <2>4, <3>1 DEF Search, SendNext, Doing
    <3>2. CASE NameDiffers(t)
      <4>1. /\ idx[t] \in Nat /\ idx'[t] = idx[t] + 1 /\ Len(channels) \in Nat
            /\ idx[t] < Len(channels) /\ channels[idx[t] + 1] # Head(script[t]).name
            /\ Doing(t, "create")
        BY <2>1, <3>2, LenProperties DEF NameDiffers, TypeOK
      <4>2. \A j \in 1 .. idx[t] : channels[j] # Head(script[t]).name
        BY <4>1 DEF Search
      <4> QED  BY <2>1, <4>1, <4>2 DEF Search
    <3> QED  BY <1>4, <3>1, <3>2
  <2>9. Bye(t)'
    BY <2>1, <2>4 DEF Bye
  <2> QED  BY <2>1, <2>4, <2>6, <2>7, <2>8, <2>9 DEF Loop
<1>5. CASE ByeToChannel(t)
  <2>1. /\ Doing(t, "byeAll") /\ Locked(t) /\ script' = script
        /\ mutex' = [mutex EXCEPT ![Outer(t)] = Free, ![Inner(t)] = Free]
    BY <1>5 DEF ByeToChannel
  <2>2. Doing(t, "byeAll")' /\ ~Doing(t, "create")'
    BY <1>0, <2>1 DEF Doing, Idle
  <2>3. Outer(t) \in Mutex /\ Inner(t) \in Mutex /\ t # Free
    BY <2>1, LockTypes, ServerAssumption DEF Locked, Threads
  <2>4. \A m \in Mutex : mutex'[m] = t => mutex[m] = t /\ m \notin {Outer(t), Inner(t)}
    BY <2>1, <2>3 DEF TypeOK
  <2>5. \A m \in Mutex : mutex'[m] = t => m \in ListMutexes
    BY <2>4 DEF Holder, Wanted
  <2>6. Holder(t)'
    BY <2>2, <2>5 DEF Holder, Wanted
  <2>7. \A m \in ListMutexes : m \in Mutex /\ m # Outer(t) /\ m # Inner(t)
    <3>1. Outer(t)[1] = "num_users_mutex" /\ Inner(t)[1] = "clients_mutex"
      BY <2>1 DEF Doing, Outer, Inner, ListCalls
    <3> QED  BY <3>1 DEF ListMutexes, Mutex
  <2>8. Bye(t)'
    BY <2>1, <2>7 DEF Bye, TypeOK
  <2> QED  BY <2>2, <2>6, <2>8 DEF Loop, Search
<1> QED  BY <1>1, <1>2, <1>3, <1>4, <1>5, <1>6, StepKinds

\* Scripts: what a thread has still to do is the end of what it had to do.
LEMMA StepScripts ==
  ASSUME TypeOK, TypeOK', UserKnown, ListThenBye, ByeAfterList, NEW t \in Threads, Step(t),
         Bye(t)
  PROVE  ListThenBye' /\ ByeAfterList' /\ UserKnown'
<1>1. /\ \A u \in Threads \ {t} : script'[u] = script[u]
      /\ ~Idle(t) /\ who' = who
  BY StepOnly, StepUp DEF Only
<1>2. script'[t] = script[t] \/ script'[t] = Tail(script[t])
  BY <1>1, StepKinds, GoOnTypes DEF Return, ByeDone, ListLocked, SendNext, NameDiffers, ByeToChannel
<1>3. CASE script'[t] = script[t]
  <2>1. \A u \in Threads : script'[u] = script[u]
    BY <1>1, <1>3
  <2> QED  BY <1>1, <2>1 DEF ListThenBye, ByeAfterList, UserKnown, Threads
<1>4. CASE script'[t] = Tail(script[t])
  <2>1. /\ Len(script[t]) \in Nat \ {0} /\ Len(script'[t]) = Len(script[t]) - 1
        /\ \A i \in 1 .. Len(script'[t]) : script'[t][i] = script[t][i + 1]
    BY <1>1, <1>4, HeadOp, HeadTailProperties
  <2>2. ListThenBye'
    <3> SUFFICES ASSUME NEW u \in Threads, NEW i \in 1 .. Len(script'[u]),
                        script'[u][i].do = "lockList"
                 PROVE  i < Len(script'[u]) /\ script'[u][i + 1].do = "byeAll"
      BY DEF ListThenBye
    <3>1. CASE u # t
      BY <1>1, <3>1 DEF ListThenBye
    <3>2. CASE u = t
      <4>1. i + 1 \in 1 .. Len(script[t]) /\ script[t][i + 1].do = "lockList"
        BY <2>1, <3>2
      <4>2. i + 1 < Len(script[t]) /\ script[t][(i + 1) + 1].do = "byeAll"
        BY <4>1 DEF ListThenBye
      <4>3. i \in Nat /\ i < Len(script'[t]) /\ i + 1 \in 1 .. Len(script'[t])
        BY <2>1, <3>2, <4>2
      <4>4. script'[t][i + 1] = script[t][(i + 1) + 1]
        BY <2>1, <4>3
      <4> QED  BY <3>2, <4>2, <4>3, <4>4
    <3> QED  BY <3>1, <3>2
  <2>3. UserKnown'
    <3>1. CASE UdpThread # t
      BY <1>1, <3>1 DEF UserKnown, Threads
    <3>2. CASE UdpThread = t
      <4>1. \A i \in 1 .. Len(script'[t]) : i + 1 \in 1 .. Len(script[t])
        BY <2>1
      <4> QED  BY <1>1, <2>1, <3>2, <4>1 DEF UserKnown
    <3> QED  BY <3>1, <3>2
  <2>4. ByeAfterList'
    <3> SUFFICES ASSUME NEW u \in Threads, NEW i \in 2 .. Len(script'[u]),
                        script'[u][i].do = "byeAll"
                 PROVE  script'[u][i - 1].do = "lockList"
      BY DEF ByeAfterList
    <3>1. CASE u # t
      BY <1>1, <3>1 DEF ByeAfterList
    <3>2. CASE u = t
      <4>1. /\ i + 1 \in 2 .. Len(script[t]) /\ script[t][i + 1].do = "byeAll"
            /\ i \in Nat /\ (i + 1) - 1 = i
            /\ i - 1 \in 1 .. Len(script'[t]) /\ (i - 1) + 1 = i
        BY <2>1, <3>2
      <4>2. script[t][i].do = "lockList"
        BY <4>1 DEF ByeAfterList
      <4> QED  BY <2>1, <3>2, <4>1, <4>2
    <3> QED  BY <3>1, <3>2
  <2> QED  BY <2>2, <2>3, <2>4
<1> QED  BY <1>2, <1>3, <1>4

-----------------------------------------------------------------------------
(* The channels.                                                           *)

\* Two channels get one name only if the search that precedes an Append missed
\* one of them.
LEMMA StepNames ==
  ASSUME TypeOK, NEW t \in Threads, Step(t), Search(t), UniqueNames
  PROVE  UniqueNames'
<1>1. CASE NewChannel(t)
  <2>1. /\ channels \in Seq(Names) /\ Len(channels) \in Nat
        /\ channels' = Append(channels, Head(script[t]).name)
        /\ idx[t] = Len(channels) /\ Doing(t, "create")
    BY <1>1, LenProperties DEF NewChannel, TypeOK
  <2>2. Head(script[t]).name \in Names
    BY <1>1, HeadOp DEF NewChannel, Doing, MustDie, Op
  <2>3. \A j \in 1 .. Len(channels) : channels[j] # Head(script[t]).name
    BY <2>1 DEF Search
  <2>4. /\ Len(channels') = Len(channels) + 1
        /\ channels'[Len(channels) + 1] = Head(script[t]).name
        /\ \A j \in 1 .. Len(channels) : channels'[j] = channels[j]
    BY <2>1, <2>2, AppendProperties
  <2> QED  BY <2>1, <2>3, <2>4 DEF UniqueNames
<1>2. CASE ~NewChannel(t)
  <2>1. channels' = channels
    BY <1>2
       DEF Step, add_client, AlreadyListed, ChannelFull, ClientAdded,
           remove_client_from_channel, SendNext, SendDone, NameDiffers, ChannelFound,
           send_to_client, get_udp_msg_clear, get_udp_msg_write, remove_udp_user, Quit,
           ListLocked, ByeToChannel, ByeDone, storeVars
  <2> QED  BY <2>1 DEF UniqueNames
<1> QED  BY <1>1, <1>2

LEMMA StepListed ==
  ASSUME TypeOK, UserKnown, NEW t \in Threads, Step(t), ListedOnce
  PROVE  ListedOnce'
<1>1. CASE add_client(t)
  <2>1. Adding(t) /\ Where(t) \in Chans
    BY <1>1, AddClientAdds
  <2>2. chan[Where(t)] \in Channel /\ Distinct(chan[Where(t)])
    BY <2>1 DEF TypeOK, ListedOnce
  <2>3. Distinct(AfterAdd(chan[Where(t)], Client(t), t = UdpThread))
    BY <2>2, AddClientDistinct
  <2> QED  BY <2>1, <2>3 DEF Adding, ListedOnce, TypeOK
<1>2. CASE remove_client_from_channel(t)
  <2>1. Where(t) \in Chans
    BY <1>2, WhereType DEF remove_client_from_channel, Locked, Doing, ListCalls
  <2>2. chan[Where(t)] \in Channel /\ Distinct(chan[Where(t)])
    BY <2>1 DEF TypeOK, ListedOnce
  <2>3. Distinct(RemoveClient(chan[Where(t)], Client(t)))
    BY <2>2, RemoveClientDistinct
  <2> QED  BY <1>2, <2>1, <2>3 DEF remove_client_from_channel, ListedOnce, TypeOK
<1>3. CASE ~add_client(t) /\ ~remove_client_from_channel(t)
  <2>1. chan' = chan
    BY <1>3
       DEF Step, SendNext, SendDone, NameDiffers, ChannelFound, NewChannel,
         send_to_client, get_udp_msg_clear, get_udp_msg_write,
         remove_udp_user, Quit, ListLocked, ByeToChannel, ByeDone, storeVars
  <2> QED  BY <2>1 DEF ListedOnce
<1> QED  BY <1>1, <1>2, <1>3

-----------------------------------------------------------------------------
(* Steps that are no step of a call.                                       *)

LEMMA LockStep ==
  ASSUME TypeOK, TypeOK', UserKnown, NEW t \in Threads, LockOuter(t) \/ LockInner(t),
         Holder(t), Loop(t), Search(t), Bye(t)
  PROVE  Only(t) /\ Holder(t)' /\ Loop(t)' /\ Search(t)' /\ Bye(t)'
<1>1. /\ server = "up" /\ server' = "up" /\ Locks(t)
      /\ script' = script /\ idx' = idx /\ channels' = channels /\ cur' = cur /\ who' = who
  BY DEF LockOuter, LockInner, Locks, storeVars, userVars, threadVars
<1>2. \E m \in {Outer(t), Inner(t)} : mutex[m] = Free /\ mutex' = [mutex EXCEPT ![m] = t]
  BY DEF LockOuter, LockInner
<1>3. \A m \in Mutex : /\ mutex[m] = t => mutex'[m] = t
                       /\ mutex'[m] = t => mutex[m] = t \/ m \in {Outer(t), Inner(t)}
                       /\ mutex'[m] = mutex[m] \/ (mutex[m] = Free /\ mutex'[m] = t)
  BY <1>2 DEF TypeOK
<1>4. Only(t)
  BY <1>1, <1>3 DEF Only, Client
<1>5. /\ Outer(t)' = Outer(t) /\ Inner(t)' = Inner(t) /\ Locks(t)'
      /\ \A v : Doing(t, v)' = Doing(t, v)
  BY <1>1 DEF Outer, Inner, Where, Client, Locks, Doing, Idle
<1>6. Wanted(t)' = Wanted(t)
  BY <1>1, <1>5 DEF Wanted
<1>7. Holder(t)'
  BY <1>1, <1>3, <1>6 DEF Holder, Wanted
<1>8. Locked(t) => Locked(t)'
  BY <1>1, <1>3, <1>5, LockTypes DEF Locked
<1>9. Loop(t)' /\ Search(t)'
  BY <1>1, <1>5, <1>8 DEF Loop, Search
<1>10. Bye(t)'
  <2>1. ListMutexes \subseteq Mutex
    BY DEF ListMutexes, Mutex
  <2> QED  BY <1>3, <1>5, <2>1 DEF Bye
<1> QED  BY <1>4, <1>7, <1>9, <1>10

LEMMA InputStep ==
  ASSUME TypeOK, TypeOK', UserKnown, ListThenBye, ByeAfterList, NEW t \in Threads, NEW calls,
         Input(t, calls), Holder(t), Loop(t), Search(t), Bye(t)
  PROVE  /\ Only(t) /\ Holder(t)' /\ Loop(t)' /\ Search(t)' /\ Bye(t)'
         /\ ListThenBye' /\ ByeAfterList' /\ UserKnown'
<1>1. /\ server = "up" /\ server' = "up" /\ Idle(t)
      /\ idx' = idx /\ mutex' = mutex /\ channels' = channels
      /\ \A u \in Threads \ {t} : script'[u] = script[u]
      /\ script'[t] = calls
  BY DEF Input, storeVars, TypeOK
<1>2. Only(t)
  <2>1. ASSUME NEW u \in Threads \ {t}
        PROVE  Client(u)' = Client(u) /\ cur'[Client(u)] = cur[Client(u)]
    BY DEF Input, Client, Threads
  <2> QED  BY <1>1, <2>1 DEF Only
<1>3. ASSUME ~Doing(t, "byeAll")'
      PROVE  Holder(t)' /\ Loop(t)' /\ Search(t)' /\ Bye(t)'
  <2>1. \A v : ~Doing(t, v)
    BY <1>1 DEF Doing
  <2>2. ~Locks(t)
    BY <1>1 DEF Locks
  <2>3. idx'[t] = 0 /\ \A m \in Mutex : mutex'[m] # t
    BY <1>1, <2>1, <2>2 DEF Holder, Loop, Wanted
  <2> QED  BY <1>1, <1>3, <2>3, FreshCall
<1>4. CASE calls \in Seq(UserOp) /\ (t = UdpThread => who' \in UdpClients)
  <2>1. \A i \in 1 .. Len(script'[t]) : script'[t][i].do \notin {"lockList", "byeAll"}
    BY <1>1, <1>4 DEF UserOp
  <2>2. ListThenBye' /\ ByeAfterList'
    <3>1. \A i \in 2 .. Len(script'[t]) : script'[t][i].do # "byeAll"
      <4>1. \A i \in 2 .. Len(script'[t]) : i \in 1 .. Len(script'[t])
        BY <1>1, <1>4, LenProperties
      <4> QED  BY <2>1, <4>1
    <3> QED  BY <1>1, <2>1, <3>1 DEF ListThenBye, ByeAfterList
  <2>3. UserKnown'
    <3>1. CASE t = UdpThread
      BY <1>4, <3>1, StoreAssumption, ServerAssumption DEF UserKnown
    <3>2. CASE t # UdpThread
      <4>1. who' = who /\ script'[UdpThread] = script[UdpThread]
        BY <1>1, <3>2 DEF Input, Threads
      <4> QED  BY <4>1 DEF UserKnown
    <3> QED  BY <3>1, <3>2
  <2>4. ~Doing(t, "byeAll")'
    <3>1. CASE calls = << >>
      BY <1>1, <3>1 DEF Doing, Idle
    <3>2. CASE calls # << >>
      BY <1>1, <1>4, <3>2, HeadTailProperties DEF Doing, UserOp
    <3> QED  BY <3>1, <3>2
  <2> QED  BY <1>2, <1>3, <2>2, <2>3, <2>4
<1>5. CASE calls = ByeCalls /\ t = UdpThread
  <2>1. /\ Len(ByeCalls) = 3
        /\ ByeCalls[1].do = "lockList" /\ ByeCalls[2].do = "byeAll" /\ ByeCalls[3].do = "quit"
    BY DEF ByeCalls, Call
  <2>2. ListThenBye'
    <3> SUFFICES ASSUME NEW u \in Threads, NEW i \in 1 .. Len(script'[u]),
                        script'[u][i].do = "lockList"
                 PROVE  i < Len(script'[u]) /\ script'[u][i + 1].do = "byeAll"
      BY DEF ListThenBye
    <3>1. CASE u # t
      BY <1>1, <3>1 DEF ListThenBye
    <3>2. CASE u = t
      <4>1. i = 1
        BY <1>1, <1>5, <2>1, <3>2
      <4> QED  BY <1>1, <1>5, <2>1, <3>2, <4>1
    <3> QED  BY <3>1, <3>2
  <2>3. UserKnown'
    BY <1>1, <1>5, <2>1 DEF UserKnown
  <2>4. ByeAfterList'
    <3> SUFFICES ASSUME NEW u \in Threads, NEW i \in 2 .. Len(script'[u]),
                        script'[u][i].do = "byeAll"
                 PROVE  script'[u][i - 1].do = "lockList"
      BY DEF ByeAfterList
    <3>1. CASE u # t
      BY <1>1, <3>1 DEF ByeAfterList
    <3>2. CASE u = t
      <4>1. i = 2
        BY <1>1, <1>5, <2>1, <3>2
      <4> QED  BY <1>1, <1>5, <2>1, <3>2, <4>1
    <3> QED  BY <3>1, <3>2
  <2>5. ~Doing(t, "byeAll")'
    BY <1>1, <1>5 DEF Doing, ByeCalls, Call
  <2> QED  BY <1>2, <1>3, <2>2, <2>3, <2>4, <2>5
<1> QED  BY <1>4, <1>5 DEF Input

\* What is left: the process dies, or a step changes nothing that Inv reads but
\* for the types of the variables.
LEMMA OutsideStep ==
  ASSUME Inv, TypeOK',
         \/ \E t \in Threads : Die(t)
         \/ \E c \in TcpClients : Connect(c) \/ Disconnect(c)
         \/ stop_listening \/ Quiet \/ UNCHANGED vars
  PROVE  Inv'
<1>1. /\ server' = server \/ server' = "down"
      /\ channels' = channels /\ chan' = chan /\ cur' = cur /\ who' = who
      /\ script' = script /\ idx' = idx /\ mutex' = mutex
  BY DEF Die, Connect, Disconnect, stop_listening, Quiet, vars, storeVars, userVars,
         threadVars, callVars
<1>2. ListThenBye' /\ ByeAfterList' /\ UserKnown' /\ UniqueNames' /\ ListedOnce'
  BY <1>1 DEF Inv, ListThenBye, ByeAfterList, UserKnown, UniqueNames, ListedOnce
<1>3. CASE server' = "down"
  BY <1>2, <1>3 DEF Inv, HoldersWork, LoopsLocked, SearchSound, ByeHoldsList
<1>4. CASE server' = server
  <2>1. \A t \in Threads : /\ Wanted(t)' = Wanted(t) /\ Locked(t)' = Locked(t)
                           /\ \A v : Doing(t, v)' = Doing(t, v)
    BY <1>1, <1>4 DEF Wanted, Locked, Locks, Outer, Inner, Where, Client, Doing, Idle
  <2>2. \A m \in Mutex : mutex[m] # Free => mutex[m] \in Threads
    BY DEF Inv, TypeOK
  <2>3. HoldersWork'
    BY <1>1, <1>4, <2>1, <2>2 DEF Inv, HoldersWork
  <2>4. LoopsLocked' /\ SearchSound' /\ ByeHoldsList'
    BY <1>1, <1>4, <2>1 DEF Inv, LoopsLocked, SearchSound, ByeHoldsList
  <2> QED  BY <1>2, <2>3, <2>4 DEF Inv
<1> QED  BY <1>1, <1>3, <1>4

-----------------------------------------------------------------------------
(* The invariant.                                                          *)

\* From the thread that took a step and the others to the invariants.
LEMMA AllThreads ==
  ASSUME Inv, TypeOK', NEW t \in Threads, Only(t),
         Holder(t)', Loop(t)', Search(t)', Bye(t)'
  PROVE  HoldersWork' /\ LoopsLocked' /\ SearchSound' /\ ByeHoldsList'
<1>1. server = "up" /\ server' = "up"
  BY DEF Only
<1>2. \A u \in Threads : Holder(u) /\ Loop(u) /\ Search(u) /\ Bye(u)
  BY <1>1, ByThread DEF Inv
<1>3. \A u \in Threads : Holder(u)' /\ Loop(u)' /\ Search(u)' /\ Bye(u)'
  BY <1>2, OthersKeep DEF Inv
<1>4. Free \notin Threads
  BY ServerAssumption DEF Threads
<1>5. HoldersWork'
  BY <1>3, <1>4 DEF HoldersWork, Holder, TypeOK
<1> QED  BY <1>3, <1>5 DEF LoopsLocked, SearchSound, ByeHoldsList, Loop, Search, Bye

LEMMA InitInv == Init => Inv
<1> SUFFICES ASSUME Init PROVE Inv
  OBVIOUS
<1>1. TypeOK
  <2>1. channels \in Seq(Names) /\ Len(channels) \in Chans
    BY ServerAssumption DEF Init, Chans, LastChan
  <2>2. EmptyChannel \in Channel
    BY StoreAssumption DEF EmptyChannel, Channel, Slot, Index
  <2>3. client_state \in [Sockets -> States] /\ cur \in [Sockets -> 0 .. LastChan]
    BY ServerAssumption DEF Init, States, LastChan
  <2>4. script \in [Threads -> Seq(Op)]
    BY ShortScripts DEF Init
  <2> QED  BY <2>1, <2>2, <2>3, <2>4 DEF Init, TypeOK
<1>2. \A t \in Threads : Len(script[t]) = 0 /\ Idle(t) /\ idx[t] = 0
  BY DEF Init, Idle
<1>3. /\ HoldersWork /\ ListThenBye /\ ByeAfterList /\ ByeHoldsList
      /\ UserKnown /\ LoopsLocked /\ SearchSound
  BY <1>2 DEF Init, HoldersWork, ListThenBye, ByeAfterList, ByeHoldsList, UserKnown,
              LoopsLocked, SearchSound, Doing, Threads
<1>4. UniqueNames
  BY DEF Init, UniqueNames
<1>5. ListedOnce
  BY DEF Init, ListedOnce, Distinct, EmptyChannel, InUse
<1> QED  BY <1>1, <1>3, <1>4, <1>5 DEF Inv

\* Every step keeps the invariant.
LEMMA NextInv == Inv /\ [Next]_vars => Inv'
<1> SUFFICES ASSUME Inv, [Next]_vars PROVE Inv'
  OBVIOUS
<1> USE DEF Inv
<1>1. ASSUME NEW t \in Threads, Step(t)
      PROVE  Inv'
  <2>2. Holder(t) /\ Loop(t) /\ Search(t) /\ Bye(t)
    BY <1>1, StepUp, ByThread
  <2>1. TypeOK' /\ Only(t)
    BY <1>1, <2>2, StepType, StepOnly
  <2>3. HoldersWork' /\ LoopsLocked' /\ SearchSound' /\ ByeHoldsList'
    BY <1>1, <2>1, <2>2, StepOwn, AllThreads
  <2>4. ListThenBye' /\ ByeAfterList' /\ UserKnown'
    BY <1>1, <2>1, <2>2, StepScripts
  <2>5. UniqueNames' /\ ListedOnce'
    BY <1>1, <2>2, StepNames, StepListed
  <2> QED  BY <2>1, <2>3, <2>4, <2>5
<1>2. ASSUME NEW t \in Threads, LockOuter(t) \/ LockInner(t)
      PROVE  Inv'
  <2>1. TypeOK' /\ server = "up"
    BY <1>2, LockType DEF LockOuter, LockInner, Locks
  <2>2. Holder(t) /\ Loop(t) /\ Search(t) /\ Bye(t)
    BY <2>1, ByThread
  <2>3. HoldersWork' /\ LoopsLocked' /\ SearchSound' /\ ByeHoldsList'
    BY <1>2, <2>1, <2>2, LockStep, AllThreads
  <2>4. script' = script /\ who' = who /\ channels' = channels /\ chan' = chan
    BY <1>2 DEF LockOuter, LockInner, storeVars, threadVars
  <2>5. ListThenBye' /\ ByeAfterList' /\ UserKnown' /\ UniqueNames' /\ ListedOnce'
    BY <2>4 DEF ListThenBye, ByeAfterList, UserKnown, UniqueNames, ListedOnce
  <2> QED  BY <2>1, <2>3, <2>5
<1>3. ASSUME NEW t \in Threads, NEW calls, TypeOK', Input(t, calls)
      PROVE  Inv'
  <2>1. Holder(t) /\ Loop(t) /\ Search(t) /\ Bye(t)
    BY <1>3, ByThread DEF Input
  <2>2. /\ Only(t) /\ Holder(t)' /\ Loop(t)' /\ Search(t)' /\ Bye(t)'
        /\ ListThenBye' /\ ByeAfterList' /\ UserKnown'
    BY <1>3, <2>1, InputStep
  <2>3. HoldersWork' /\ LoopsLocked' /\ SearchSound' /\ ByeHoldsList'
    BY <1>3, <2>2, AllThreads
  <2>4. UniqueNames' /\ ListedOnce'
    BY <1>3 DEF Input, storeVars, UniqueNames, ListedOnce
  <2> QED  BY <1>3, <2>2, <2>3, <2>4
<1>4. ASSUME NEW c \in TcpClients, TcpInput(c) \/ TcpEof(c) \/ TcpInterrupted(c)
      PROVE  Inv'
  BY <1>3, <1>4, TcpInputStep DEF Threads
<1>5. ASSUME NEW c \in UdpClients, UdpInput(c)
      PROVE  Inv'
  BY <1>3, <1>5, UdpInputStep DEF Threads
<1>6. CASE UdpInterrupted
  BY <1>3, <1>6, UdpInterruptedStep DEF Threads
<1>7. CASE \/ \E t \in Threads : Die(t)
           \/ \E c \in TcpClients : Connect(c) \/ Disconnect(c)
           \/ stop_listening \/ Quiet \/ UNCHANGED vars
  BY <1>7, OutsideType, OutsideStep
<1> HIDE DEF Inv
<1> QED  BY <1>1, <1>2, <1>4, <1>5, <1>6, <1>7 DEF Next

-----------------------------------------------------------------------------
(* The theorems.                                                           *)

\* Inv holds in every behaviour of the server.
THEOREM InvHolds == Spec => []Inv
BY InitInv, NextInv, PTL DEF Spec

\* The variables keep their types: no count of a channel passes the length of
\* its array, none goes below zero, no list position is past the list's end.
THEOREM TypesHold == Spec => []TypeOK
<1>1. Inv => TypeOK
  BY DEF Inv
<1> QED  BY <1>1, InvHolds, PTL

\* No handler, on any path, leaves a mutex locked that it no longer needs.
THEOREM NoMutexLeaks == Spec => []HoldersWork
<1>1. Inv => HoldersWork
  BY DEF Inv
<1> QED  BY <1>1, InvHolds, PTL

\* No two channels of the list have one name, however JOINs race.
THEOREM ChannelNamesUnique == Spec => []UniqueNames
<1>1. Inv => UniqueNames
  BY DEF Inv
<1> QED  BY <1>1, InvHolds, PTL

\* No client is twice in one channel.
THEOREM NobodyTwice == Spec => []ListedOnce
<1>1. Inv => ListedOnce
  BY DEF Inv
<1> QED  BY <1>1, InvHolds, PTL

\* A step that changes a channel is add_client's or remove_client_from_channel's,
\* one that changes the list is create_channel's.
LEMMA StoreChange ==
  ASSUME Inv, [Next]_vars
  PROVE  /\ \/ chan' = chan
            \/ \E s \in Threads : \E ch :
                 /\ Doing(s, "add") \/ Doing(s, "addGeneral") \/ Doing(s, "remove")
                 /\ Locked(s)
                 /\ chan' = [chan EXCEPT ![Where(s)] = ch]
         /\ \/ channels' = channels
            \/ \E s \in Threads : Doing(s, "create") /\ Locked(s)
<1> USE DEF Inv
<1>1. ASSUME NEW t \in Threads, Step(t), chan' # chan
      PROVE  \E s \in Threads : \E ch :
                 /\ Doing(s, "add") \/ Doing(s, "addGeneral") \/ Doing(s, "remove")
                 /\ Locked(s)
                 /\ chan' = [chan EXCEPT ![Where(s)] = ch]
  <2>1. add_client(t) \/ remove_client_from_channel(t)
    BY <1>1 DEF Step, SendNext, SendDone, NameDiffers, ChannelFound, NewChannel,
         send_to_client, get_udp_msg_clear, get_udp_msg_write,
         remove_udp_user, Quit, ListLocked, ByeToChannel, ByeDone, storeVars
  <2> QED  BY <2>1, AddClientAdds DEF Adding, remove_client_from_channel
<1>2. ASSUME NEW t \in Threads, Step(t), channels' # channels
      PROVE  Doing(t, "create") /\ Locked(t)
  BY <1>2 DEF Step, add_client, AlreadyListed, ChannelFull, ClientAdded,
              remove_client_from_channel, SendNext, SendDone, NameDiffers, ChannelFound,
              NewChannel, send_to_client, get_udp_msg_clear, get_udp_msg_write, remove_udp_user,
              Quit, ListLocked, ByeToChannel, ByeDone, storeVars
<1>3. ASSUME \A t \in Threads : ~Step(t)
      PROVE  chan' = chan /\ channels' = channels
  <2>1. CASE \/ \E t \in Threads : LockOuter(t) \/ LockInner(t) \/ Die(t)
             \/ \E c \in TcpClients : Connect(c) \/ Disconnect(c)
             \/ stop_listening \/ Quiet \/ UNCHANGED vars
    BY <2>1 DEF LockOuter, LockInner, Die, Connect, Disconnect, stop_listening, Quiet, vars,
                storeVars
  <2>2. CASE \E t \in Threads, calls \in Seq(Op) : Input(t, calls)
    BY <2>2 DEF Input, storeVars
  <2>3. CASE \E c \in TcpClients : TcpInput(c) \/ TcpEof(c) \/ TcpInterrupted(c)
    BY <2>2, <2>3, TcpInputStep DEF Threads
  <2>4. CASE \E c \in UdpClients : UdpInput(c)
    BY <2>2, <2>4, UdpInputStep DEF Threads
  <2>5. CASE UdpInterrupted
    BY <2>2, <2>5, UdpInterruptedStep DEF Threads
  <2> QED  BY <1>3, <2>1, <2>3, <2>4, <2>5 DEF Next
<1> QED  BY <1>1, <1>2, <1>3

\* A channel is changed by a thread that holds its mutexes, and a broadcast in
\* progress holds them too: so its channel stays as it is.
LEMMA StableStep ==
  ASSUME Inv, [Next]_vars, NEW t \in Threads, Doing(t, "send"), idx[t] > 0
  PROVE  chan'[Where(t)] = chan[Where(t)]
<1>1. Locked(t) /\ Where(t) \in Chans /\ Outer(t) = <<"clients_mutex", Where(t)>>
  <2>1. server = "up" /\ ~Doing(t, "byeAll") /\ ~Doing(t, "create")
    BY DEF Doing
  <2>2. idx[t] # 0
    OBVIOUS
  <2>3. Locked(t)
    BY <2>1, <2>2 DEF Inv, LoopsLocked
  <2>4. ~Idle(t) /\ Head(script[t]).do = "send"
    BY DEF Doing
  <2>5. Outer(t) = <<"clients_mutex", Where(t)>>
    BY <2>4 DEF Outer, ListCalls
  <2> QED  BY <2>3, <2>4, <2>5, WhereType DEF Inv, Locked, ListCalls
<1>2. ASSUME NEW s \in Threads, NEW ch, Locked(s),
             Doing(s, "add") \/ Doing(s, "addGeneral") \/ Doing(s, "remove"),
             chan' = [chan EXCEPT ![Where(s)] = ch]
      PROVE  chan'[Where(t)] = chan[Where(t)]
  <2>1. s # t
    BY <1>2 DEF Doing
  <2>2. Outer(s) = <<"clients_mutex", Where(s)>>
    BY <1>2 DEF Outer, Doing, ListCalls
  <2>3. Where(s) # Where(t)
    BY <1>1, <1>2, <2>1, <2>2 DEF Locked
  <2> QED  BY <1>1, <1>2, <2>3 DEF Inv, TypeOK
<1> QED  BY <1>2, StoreChange

THEOREM BroadcastUndisturbed == Spec => MembersStable
<1>1. Inv /\ [Next]_vars =>
        [\A t \in Threads : (Doing(t, "send") /\ idx[t] > 0)
              => chan'[Where(t)] = chan[Where(t)]]_vars
  BY StableStep
<1> QED  BY <1>1, InvHolds, PTL DEF Spec, MembersStable

\* The shutdown pass visits one list: no channel is created while it runs.
THEOREM ListFrozenAtShutdown == Spec => ListFrozen
<1>1. ASSUME Inv, [Next]_vars, Doing(UdpThread, "byeAll")
      PROVE  channels' = channels
  <2>1. mutex[<<"channels_mutex", 0>>] = UdpThread
    BY <1>1 DEF Inv, ByeHoldsList, ListMutexes, Doing, Threads
  <2>2. \A s \in Threads : Doing(s, "create") /\ Locked(s) => s = UdpThread
    BY <2>1 DEF Doing, Locked, Outer, ListCalls
  <2>3. ~Doing(UdpThread, "create")
    BY <1>1 DEF Doing
  <2> QED  BY <1>1, <2>2, <2>3, StoreChange
<1>2. Inv /\ [Next]_vars => [Doing(UdpThread, "byeAll") => channels' = channels]_vars
  BY <1>1
<1> QED  BY <1>2, InvHolds, PTL DEF Spec, ListFrozen
=============================================================================
