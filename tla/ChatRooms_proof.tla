--------------------------- MODULE ChatRooms_proof ---------------------------
(***************************************************************************)
(* Clients and channels: RightRoom and Departed hold in every behaviour of *)
(* the server, its handlers implement ChatRooms, and whoever stays in a    *)
(* channel while the shutdown pass goes by is sent BYE.  What RightRoom    *)
(* and the refinement need of the UDP clients and of the size of a channel *)
(* are hypotheses of their theorems.                                       *)
(***************************************************************************)
EXTENDS ChatInvariant_proof, FiniteSetTheorems, FunctionTheorems

-----------------------------------------------------------------------------
(* Scripts: what a handler still has to do about its client's channel.     *)

RoomCalls == {"remove", "create", "add", "addGeneral", "forget", "quit"}

\* Those of them that may come after a call.
After(v) == CASE v = "remove" -> {"create", "add", "forget", "quit"}
              [] v = "create" -> {"add"}
              [] v \in {"add", "addGeneral", "forget", "quit"} -> {}
              [] OTHER -> RoomCalls

ToCome(s)  == {s[i].do : i \in 1 .. Len(s)} \cap RoomCalls
Ordered(s) == \A i, j \in 1 .. Len(s) :
                 i < j => s[j].do \notin RoomCalls \/ s[j].do \in After(s[i].do)

\* Who is taken out of a channel is put into one, forgotten, or gone; a channel
\* is looked for to be entered.
Complete(V) == /\ "remove" \in V => V \cap {"add", "forget", "quit"} # {}
               /\ "create" \in V => "add" \in V

Scripts == \A t \in Threads : /\ Ordered(script[t]) /\ Complete(ToCome(script[t]))
                              /\ "forget" \in ToCome(script[t]) => t = UdpThread

\* What is still to come for a client.
ToDo(c) == IF Client(Thread(c)) = c THEN ToCome(script[Thread(c)]) ELSE {}

-----------------------------------------------------------------------------
(* Clients and their channels.                                             *)

\* The clients whose handler never runs the JOIN branch for them unless they
\* are in state OPEN: the TCP clients, and the UDP clients if none of them sends
\* JOIN or MSG before (its parser's error code is JOIN's opcode).
Tame(c) == c \in TcpClients \/ {"JOIN", "MSG"} \cap Early = {}

\* Every client fits into every channel.
Roomy == IsFiniteSet(Sockets) /\ Cardinality(Sockets) <= MaxUsers

\* A client's channel, while its handler can still do something about it.
InPlace(c) ==
  /\ Rooms(c) \subseteq {cur[c]}
  /\ client_state[c] # "OPEN" => "remove" \in ToDo(c) \/ Rooms(c) = {}
  /\ ToDo(c) \cap {"create", "add", "addGeneral"} # {} => client_state[c] = "OPEN"
  /\ ToDo(c) \cap {"create", "add", "addGeneral", "forget"} # {} =>
       "remove" \in ToDo(c) \/ Rooms(c) = {}
  /\ Roomy /\ client_state[c] = "OPEN" /\ ToDo(c) = {} => Rooms(c) = {cur[c]}
  /\ c \in UdpClients => client_state[c] \in {"NONE", "ACCEPT", "OPEN"} \/ "forget" \in ToDo(c)

Placed == \A c \in Sockets : Tame(c) => run[Thread(c)] = "ended" \/ InPlace(c)

\* A handler that ends has taken its client out, unless it just stopped.
Gone == \A c \in TcpClients :
          ("quit" \in ToDo(c) \/ run[c] = "ended") =>
             "remove" \in ToDo(c) \/ c \in closed \/ sigint \/ Rooms(c) = {}

\* A thread that has ended calls nothing.
Over == \A t \in Threads : run[t] = "ended" => ToCome(script[t]) = {}

\* Current channels are in the list, and channels hold clients.
Listings == /\ \A c \in Sockets : cur[c] <= Len(channels)
            /\ \A k \in Chans : Members(chan[k]) \subseteq Sockets

RoomsInv == Scripts /\ Placed /\ Gone /\ Over /\ Listings
-----------------------------------------------------------------------------
(* The scripts of the handlers.                                            *)

LEMMA Concatenated ==
  ASSUME NEW s \in Seq(Op), NEW r \in Seq(Op), Ordered(s), Ordered(r),
         \A v \in ToCome(s) : ToCome(r) \subseteq After(v)
  PROVE  /\ s \o r \in Seq(Op) /\ Ordered(s \o r)
         /\ ToCome(s \o r) = ToCome(s) \cup ToCome(r)
<1> DEFINE m == Len(s)
           n == Len(r)
           q == s \o r
<1>1. /\ m \in Nat /\ n \in Nat /\ q \in Seq(Op) /\ Len(q) = m + n
      /\ \A i \in 1 .. m : q[i] = s[i]
      /\ \A i \in m + 1 .. m + n : i - m \in 1 .. n /\ q[i] = r[i - m]
  BY LenProperties, ConcatProperties
<1> HIDE DEF q, m, n
<1>2. \A i \in 1 .. m + n : i \in 1 .. m \/ i \in m + 1 .. m + n
  BY <1>1
<1>3. \A i \in 1 .. m : i \in 1 .. m + n
  BY <1>1
<1>4. \A i \in 1 .. n : m + i \in m + 1 .. m + n /\ m + i \in 1 .. m + n /\ q[m + i] = r[i]
  <2>1. \A i \in 1 .. n : m + i \in m + 1 .. m + n /\ m + i \in 1 .. m + n /\ (m + i) - m = i
    BY <1>1
  <2> QED  BY <1>1, <2>1
<1>5. ToCome(q) = ToCome(s) \cup ToCome(r)
  <2>1. ASSUME NEW v \in ToCome(q)  PROVE v \in ToCome(s) \cup ToCome(r)
    <3>1. PICK i \in 1 .. m + n : v = q[i].do /\ v \in RoomCalls
      BY <1>1 DEF ToCome
    <3> QED  BY <1>1, <1>2, <3>1 DEF ToCome, m, n
  <2>2. ASSUME NEW v \in ToCome(s) \cup ToCome(r)  PROVE v \in ToCome(q)
    <3>1. CASE v \in ToCome(s)
      <4>1. PICK i \in 1 .. m : v = s[i].do /\ v \in RoomCalls
        BY <3>1 DEF ToCome, m
      <4> QED  BY <1>1, <1>3, <4>1 DEF ToCome
    <3>2. CASE v \in ToCome(r)
      <4>1. PICK i \in 1 .. n : v = r[i].do /\ v \in RoomCalls
        BY <3>2 DEF ToCome, n
      <4> QED  BY <1>1, <1>4, <4>1 DEF ToCome
    <3> QED  BY <3>1, <3>2
  <2> QED  BY <2>1, <2>2
<1>6. Ordered(q)
  <2> SUFFICES ASSUME NEW i \in 1 .. m + n, NEW j \in 1 .. m + n, i < j, q[j].do \in RoomCalls
               PROVE  q[j].do \in After(q[i].do)
    BY <1>1 DEF Ordered
  <2>1. CASE j \in 1 .. m
    <3>1. i \in 1 .. m
      BY <1>1, <2>1
    <3> QED  BY <1>1, <2>1, <3>1 DEF Ordered, m
  <2>2. CASE i \in 1 .. m /\ j \in m + 1 .. m + n
    <3>1. q[j].do \in ToCome(r)
      BY <1>1, <2>2 DEF ToCome, n
    <3>2. CASE q[i].do \in RoomCalls
      <4>1. q[i].do \in ToCome(s)
        BY <1>1, <2>2, <3>2 DEF ToCome, m
      <4> QED  BY <3>1, <4>1
    <3>3. CASE q[i].do \notin RoomCalls
      BY <3>3 DEF After, RoomCalls
    <3> QED  BY <3>2, <3>3
  <2>3. CASE i \in m + 1 .. m + n /\ j \in m + 1 .. m + n
    <3>1. i - m \in 1 .. n /\ j - m \in 1 .. n /\ i - m < j - m
      BY <1>1, <2>3
    <3> QED  BY <1>1, <2>3, <3>1 DEF Ordered, n
  <2> QED
    <3>1. i \in m + 1 .. m + n => j \in m + 1 .. m + n
      BY <1>1
    <3> QED  BY <1>2, <2>1, <2>2, <2>3, <3>1
<1> QED  BY <1>1, <1>5, <1>6 DEF q

\* The call that is made next is the first of those to come.
LEMMA Remaining ==
  ASSUME NEW s \in Seq(Op), s # << >>, Ordered(s)
  PROVE  /\ Ordered(Tail(s))
         /\ ToCome(s) = ToCome(Tail(s)) \cup ({Head(s).do} \cap RoomCalls)
         /\ Head(s).do \in RoomCalls => ToCome(Tail(s)) \subseteq After(Head(s).do)
<1> DEFINE n == Len(s)
           r == Tail(s)
<1>1. /\ n \in Nat \ {0} /\ r \in Seq(Op) /\ Len(r) = n - 1
      /\ \A i \in 1 .. n - 1 : r[i] = s[i + 1]
      /\ Head(s) = s[1]
  BY HeadTailProperties, EmptySeq, LenProperties
<1> HIDE DEF n, r
<1>2. \A i \in 1 .. n - 1 : i + 1 \in 1 .. n /\ 1 < i + 1
  BY <1>1
<1>3. \A i \in 1 .. n : i = 1 \/ (i - 1 \in 1 .. n - 1 /\ r[i - 1] = s[i])
  <2>1. \A i \in 1 .. n : i = 1 \/ (i - 1 \in 1 .. n - 1 /\ (i - 1) + 1 = i)
    BY <1>1
  <2> QED  BY <1>1, <2>1
<1>4. 1 \in 1 .. n
  BY <1>1
<1>5. Ordered(r)
  <2> SUFFICES ASSUME NEW i \in 1 .. n - 1, NEW j \in 1 .. n - 1, i < j
               PROVE  r[j].do \notin RoomCalls \/ r[j].do \in After(r[i].do)
    BY <1>1 DEF Ordered
  <2>1. i + 1 \in 1 .. n /\ j + 1 \in 1 .. n /\ i + 1 < j + 1
    BY <1>1
  <2> QED  BY <1>1, <2>1 DEF Ordered, n
<1>6. ToCome(s) = ToCome(r) \cup ({Head(s).do} \cap RoomCalls)
  <2>1. ASSUME NEW v \in ToCome(s)  PROVE v \in ToCome(r) \cup ({Head(s).do} \cap RoomCalls)
    <3>1. PICK i \in 1 .. n : v = s[i].do /\ v \in RoomCalls
      BY DEF ToCome, n
    <3> QED  BY <1>1, <1>3, <3>1 DEF ToCome
  <2>2. ASSUME NEW v \in ToCome(r)  PROVE v \in ToCome(s)
    <3>1. PICK i \in 1 .. n - 1 : v = r[i].do /\ v \in RoomCalls
      BY <1>1 DEF ToCome
    <3> QED  BY <1>1, <1>2, <3>1 DEF ToCome, n
  <2>3. Head(s).do \in RoomCalls => Head(s).do \in ToCome(s)
    BY <1>1, <1>4 DEF ToCome, n
  <2> QED  BY <2>1, <2>2, <2>3
<1>7. ASSUME Head(s).do \in RoomCalls, NEW v \in ToCome(r)  PROVE v \in After(Head(s).do)
  <2>1. PICK i \in 1 .. n - 1 : v = r[i].do /\ v \in RoomCalls
    BY <1>1, <1>7 DEF ToCome
  <2>2. i + 1 \in 1 .. n /\ 1 < i + 1 /\ v = s[i + 1].do
    BY <1>1, <1>2, <2>1
  <2> QED  BY <1>1, <1>4, <2>1, <2>2 DEF Ordered, n
<1> QED  BY <1>5, <1>6, <1>7 DEF r

\* The scripts a message, the end of a connection or C-c gives a thread: which
\* calls about channels are in them.
Good(s, V) == s \in Seq(Op) /\ Ordered(s) /\ ToCome(s) = V

LEMMA Scripted ==
  ASSUME NEW c \in Sockets, NEW n \in Names \cup {NoName}
  PROVE  /\ Good(<< >>, {})
         /\ Good(<<Call("answer")>>, {})
         /\ Good(<<Call("quit")>>, {"quit"})
         /\ Good(ByeCalls, {"quit"})
         /\ Good(<<Call("answer"), Call("add")>> \o Announce(Joined(c)), {"add"})
         /\ Good(<<Call("remove"), Send(Left(c)), Create(n), Call("add"),
                   Call("answer"), Send(Joined(c))>>, {"remove", "create", "add"})
         /\ Good(Announce(Said(c)), {})
         /\ Good(<<Call("remove")>> \o Announce(Left(c)) \o <<Call("quit")>>, {"remove", "quit"})
         /\ Good(<<Call("answer"), Call("remove")>> \o Announce(Left(c)) \o <<Call("quit")>>,
                 {"remove", "quit"})
         /\ Good(<<Call("answer"), Call("addGeneral")>> \o Announce(Joined(c)), {"addGeneral"})
         /\ Good(JoinCalls(c, n), {"remove", "create", "add"})
         /\ Good(<<Call("answer")>> \o Announce(Said(c)), {})
         /\ Good(<<Call("answer")>> \o Announce(Left(c)) \o <<Call("remove"), Call("forget")>>,
                 {"remove", "forget"})
         /\ Good(<<Call("answer"), Call("remove"), Call("forget")>>, {"remove", "forget"})
<1>0. /\ Joined(c) \in Text /\ Left(c) \in Text /\ Said(c) \in Text
      /\ Call("answer") \in Op /\ Call("quit") \in Op /\ Call("add") \in Op
      /\ Call("addGeneral") \in Op /\ Call("remove") \in Op /\ Call("forget") \in Op
      /\ Create(n) \in Op
      /\ \A x \in Text : Fill(x) \in Op /\ Send(x) \in Op
      /\ Call("clear") \in Op
  BY CallsAreUserOps DEF UserOp, Verbs
<1> USE DEF Ordered, ToCome, RoomCalls, After, Call, Fill, Send, Create
<1>1. /\ Ordered(<< >>) /\ ToCome(<< >>) = {}
  OBVIOUS
<1>2. /\ Ordered(<<Call("answer")>>) /\ ToCome(<<Call("answer")>>) = {}
  OBVIOUS
<1>3. /\ Ordered(<<Call("quit")>>) /\ ToCome(<<Call("quit")>>) = {"quit"}
  OBVIOUS
<1>4. /\ Ordered(ByeCalls) /\ ToCome(ByeCalls) = {"quit"}
  BY DEF ByeCalls
<1>5. /\ Ordered(<<Call("answer"), Call("add")>>)
      /\ ToCome(<<Call("answer"), Call("add")>>) = {"add"}
  OBVIOUS
<1>6. LET s == <<Call("remove"), Send(Left(c)), Create(n), Call("add"), Call("answer"),
                 Send(Joined(c))>>
      IN  Ordered(s) /\ ToCome(s) = {"remove", "create", "add"}
  OBVIOUS
<1>7. ASSUME NEW x
      PROVE  Ordered(Announce(x)) /\ ToCome(Announce(x)) = {}
  BY DEF Announce
<1>8. /\ Ordered(<<Call("remove")>>) /\ ToCome(<<Call("remove")>>) = {"remove"}
  OBVIOUS
<1>9. /\ Ordered(<<Call("answer"), Call("remove")>>)
      /\ ToCome(<<Call("answer"), Call("remove")>>) = {"remove"}
  OBVIOUS
<1>10. /\ Ordered(<<Call("answer"), Call("addGeneral")>>)
       /\ ToCome(<<Call("answer"), Call("addGeneral")>>) = {"addGeneral"}
  OBVIOUS
<1>11. LET s == <<Call("remove"), Create(n), Call("answer"), Call("add")>>
       IN  Ordered(s) /\ ToCome(s) = {"remove", "create", "add"}
  OBVIOUS
<1>12. LET s == <<Call("remove"), Call("forget")>>
       IN  Ordered(s) /\ ToCome(s) = {"remove", "forget"}
  OBVIOUS
<1>13. LET s == <<Call("answer"), Call("remove"), Call("forget")>>
       IN  Ordered(s) /\ ToCome(s) = {"remove", "forget"}
  OBVIOUS
<1> USE DEF Good
<1>14. /\ << >> \in Seq(Op) /\ ByeCalls \in Seq(Op)
       /\ <<Call("answer")>> \in Seq(Op) /\ <<Call("quit")>> \in Seq(Op)
       /\ <<Call("remove")>> \in Seq(Op)
       /\ <<Call("answer"), Call("add")>> \in Seq(Op)
       /\ <<Call("answer"), Call("addGeneral")>> \in Seq(Op)
       /\ <<Call("answer"), Call("remove")>> \in Seq(Op)
       /\ <<Call("remove"), Call("forget")>> \in Seq(Op)
       /\ <<Call("answer"), Call("remove"), Call("forget")>> \in Seq(Op)
       /\ <<Call("remove"), Create(n), Call("answer"), Call("add")>> \in Seq(Op)
       /\ <<Call("remove"), Send(Left(c)), Create(n), Call("add"), Call("answer"),
            Send(Joined(c))>> \in Seq(Op)
       /\ \A x \in Text : Announce(x) \in Seq(Op)
  <2> HIDE DEF Ordered, ToCome, RoomCalls, After, Call, Fill, Send, Create
  <2>1. Announce(Joined(c)) \in Seq(Op) /\ \A x \in Text : Announce(x) \in Seq(Op)
    BY <1>0, ShortScripts DEF Announce
  <2> QED  BY <1>0, <2>1, ShortScripts, UserOpsAreOps
<1> HIDE DEF Ordered, ToCome, RoomCalls, Call, Fill, Send, Create, Good
<1>15. \A x \in Text : Good(Announce(x), {})
  BY <1>7, <1>14 DEF Good
<1>16. ASSUME NEW s, NEW V, Good(s, V), NEW x \in Text
       PROVE  Good(s \o Announce(x), V)
  BY <1>15, <1>16, Concatenated DEF Good
<1>17. ASSUME NEW s, NEW r, NEW V, NEW W, Good(s, V), Good(r, W),
              \A v \in V : W \subseteq After(v)
       PROVE  Good(s \o r, V \cup W)
  BY <1>17, Concatenated DEF Good
<1>18. /\ Good(<< >>, {}) /\ Good(<<Call("answer")>>, {})
       /\ Good(<<Call("quit")>>, {"quit"}) /\ Good(ByeCalls, {"quit"})
       /\ Good(<<Call("remove")>>, {"remove"})
       /\ Good(<<Call("answer"), Call("add")>>, {"add"})
       /\ Good(<<Call("answer"), Call("addGeneral")>>, {"addGeneral"})
       /\ Good(<<Call("answer"), Call("remove")>>, {"remove"})
       /\ Good(<<Call("remove"), Call("forget")>>, {"remove", "forget"})
       /\ Good(<<Call("answer"), Call("remove"), Call("forget")>>, {"remove", "forget"})
       /\ Good(<<Call("remove"), Create(n), Call("answer"), Call("add")>>,
               {"remove", "create", "add"})
       /\ Good(<<Call("remove"), Send(Left(c)), Create(n), Call("add"), Call("answer"),
                 Send(Joined(c))>>, {"remove", "create", "add"})
  BY <1>1, <1>2, <1>3, <1>4, <1>5, <1>6, <1>8, <1>9, <1>10, <1>11, <1>12, <1>13, <1>14 DEF Good
<1>19. /\ Good(<<Call("answer"), Call("add")>> \o Announce(Joined(c)), {"add"})
       /\ Good(<<Call("answer"), Call("addGeneral")>> \o Announce(Joined(c)), {"addGeneral"})
       /\ Good(<<Call("answer")>> \o Announce(Said(c)), {})
       /\ Good(<<Call("answer")>> \o Announce(Left(c)), {})
       /\ Good(<<Call("remove")>> \o Announce(Left(c)), {"remove"})
       /\ Good(<<Call("answer"), Call("remove")>> \o Announce(Left(c)), {"remove"})
  BY <1>0, <1>16, <1>18
<1>20. {"quit"} \subseteq After("remove")
  BY DEF After
<1>21. /\ {"remove"} \cup {"quit"} = {"remove", "quit"}
       /\ {} \cup {"remove", "create", "add"} = {"remove", "create", "add"}
       /\ {} \cup {"remove", "forget"} = {"remove", "forget"}
  OBVIOUS
<1>22. \A v \in {"remove"} : {"quit"} \subseteq After(v)
  BY <1>20
<1>23. /\ Good(<<Call("remove")>> \o Announce(Left(c)) \o <<Call("quit")>>, {"remove", "quit"})
       /\ Good(<<Call("answer"), Call("remove")>> \o Announce(Left(c)) \o <<Call("quit")>>,
               {"remove", "quit"})
  <2>1. /\ Good(<<Call("remove")>> \o Announce(Left(c)) \o <<Call("quit")>>,
                {"remove"} \cup {"quit"})
        /\ Good(<<Call("answer"), Call("remove")>> \o Announce(Left(c)) \o <<Call("quit")>>,
                {"remove"} \cup {"quit"})
    BY <1>17, <1>18, <1>19, <1>22
  <2> QED  BY <2>1, <1>21, Zenon
<1>24. /\ Good(JoinCalls(c, n), {"remove", "create", "add"})
       /\ Good(<<Call("answer")>> \o Announce(Left(c)) \o <<Call("remove"), Call("forget")>>,
               {"remove", "forget"})
  <2>1. /\ Good(<<Call("answer")>> \o Announce(Left(c))
                  \o <<Call("remove"), Create(n), Call("answer"), Call("add")>>,
                {} \cup {"remove", "create", "add"})
        /\ Good(<<Call("answer")>> \o Announce(Left(c)) \o <<Call("remove"), Call("forget")>>,
                {} \cup {"remove", "forget"})
    BY <1>17, <1>18, <1>19
  <2> QED  BY <2>1, <1>21, Zenon DEF JoinCalls
<1> QED  BY <1>0, <1>15, <1>18, <1>19, <1>23, <1>24

\* The same of those that are about no client.
LEMMA ScriptedForNobody == ToCome(<< >>) = {} /\ Good(ByeCalls, {"quit"})
<1>1. ToCome(<< >>) = {}
  BY DEF ToCome
<1>2. /\ Ordered(ByeCalls) /\ ToCome(ByeCalls) = {"quit"}
  BY DEF ByeCalls, Ordered, ToCome, RoomCalls, After, Call
<1> QED  BY <1>1, <1>2, UserOpsAreOps DEF Good


-----------------------------------------------------------------------------
(* Channels: who is in them after a call.                                  *)

\* A channel that a client is not in has an entry left for it, if every client
\* fits: no client has two.
LEMMA EntryLeft ==
  ASSUME Roomy, NEW ch \in Channel, Distinct(ch), Members(ch) \subseteq Sockets,
         NEW c \in Sockets, c \notin Members(ch)
  PROVE  ch.num_users < MaxUsers
<1> DEFINE n == ch.num_users
           f == [i \in 1 .. n |-> ch.address[i].socket]
<1>1. n \in Nat /\ MaxUsers \in Nat
  BY StoreAssumption DEF Channel
<1>2. f \in [1 .. n -> Sockets \ {c}]
  BY DEF Members, InUse
<1>3. \A i, j \in 1 .. n : f[i] = f[j] => i = j
  BY DEF Distinct, InUse
<1> HIDE DEF f
<1>4. f \in Injection(1 .. n, Sockets \ {c})
  BY <1>2, <1>3, Fun_IsInj
<1>5. /\ IsFiniteSet(Sockets \ {c}) /\ Cardinality(Sockets \ {c}) = Cardinality(Sockets) - 1
      /\ Cardinality(Sockets) \in Nat
  BY FS_RemoveElement, FS_CardinalityType DEF Roomy
<1>6. Cardinality(1 .. n) <= Cardinality(Sockets \ {c})
  BY <1>4, <1>5, FS_Injection
<1>7. Cardinality(1 .. n) = n
  BY <1>1, FS_Interval
<1>8. Cardinality(Sockets) <= MaxUsers
  BY DEF Roomy
<1> HIDE DEF n
<1>9. n < MaxUsers
  BY <1>1, <1>5, <1>6, <1>7, <1>8
<1> QED  BY <1>9 DEF n

\* add_client changes a channel for its client alone.
LEMMA AddClientFor ==
  ASSUME NEW ch \in Channel, NEW c, NEW b
  PROVE  \/ AfterAdd(ch, c, b) = ch
         \/ Members(AfterAdd(ch, c, b)) = Members(ch) \cup {c}
<1>1. CASE ch.num_users < MaxUsers
  BY <1>1, AddClientMembers
<1>2. CASE ~(ch.num_users < MaxUsers)
  <2>1. ch.num_users >= MaxUsers
    BY <1>2, StoreAssumption DEF Channel
  <2> QED  BY <2>1 DEF AfterAdd
<1> QED  BY <1>1, <1>2

LEMMA AddEffect ==
  ASSUME Inv, Listings, NEW t \in Threads, add_client(t), NEW c \in Sockets
  PROVE  /\ Where(t) \in Chans
         /\ c # Client(t) => Rooms(c)' = Rooms(c) /\ cur'[c] = cur[c]
         /\ c = Client(t) =>
              /\ cur'[c] = Where(t)
              /\ Rooms(c)' = Rooms(c) \/ Rooms(c)' = Rooms(c) \cup {Where(t)}
              /\ Roomy => Rooms(c)' = Rooms(c) \cup {Where(t)}
         /\ \A k \in Chans : Members(chan'[k]) \subseteq Sockets
<1> DEFINE e == Client(t)
           w == Where(t)
           ch == chan[w]
           new == AfterAdd(ch, e, t = UdpThread)
<1>0. Adding(t) /\ w \in Chans
  BY AddClientAdds DEF Inv
<1>1. e \in Sockets
  BY <1>0, ClientKnown DEF Inv, Adding, Doing
<1>2. w \in Chans
  BY <1>0
<1>3. /\ chan \in [Chans -> Channel] /\ cur \in [Sockets -> 0 .. LastChan]
      /\ chan' = [chan EXCEPT ![w] = new] /\ cur' = [cur EXCEPT ![e] = w]
  BY <1>0 DEF Adding, Inv, TypeOK
<1>4. /\ ch \in Channel /\ Distinct(ch) /\ Members(ch) \subseteq Sockets
  BY <1>2, <1>3 DEF Inv, ListedOnce, Listings
<1>5. new = ch \/ Members(new) = Members(ch) \cup {e}
  BY <1>4, AddClientFor
<1>6. Roomy => Members(new) = Members(ch) \cup {e}
  <2>1. CASE e \in Members(ch)
    BY <1>5, <2>1
  <2>2. CASE e \notin Members(ch)
    BY <1>1, <1>4, <2>2, EntryLeft, AddClientMembers
  <2> QED  BY <2>1, <2>2
<1>7. chan'[w] = new /\ \A k \in Chans \ {w} : chan'[k] = chan[k]
  BY <1>2, <1>3
<1>8. /\ c = e => cur'[c] = w
      /\ c # e => cur'[c] = cur[c]
  BY <1>1, <1>3
<1> HIDE DEF e, w, new, ch
<1>9. c # e => Rooms(c)' = Rooms(c)
  BY <1>2, <1>5, <1>7 DEF Rooms, ch
<1>10. c = e => Rooms(c)' = Rooms(c) \/ Rooms(c)' = Rooms(c) \cup {w}
  <2>1. CASE new = ch
    BY <1>2, <1>7, <2>1 DEF Rooms, ch
  <2>2. CASE Members(new) = Members(ch) \cup {e}
    BY <1>2, <1>7, <2>2 DEF Rooms, ch
  <2> QED  BY <1>5, <2>1, <2>2
<1>11. c = e /\ Roomy => Rooms(c)' = Rooms(c) \cup {w}
  BY <1>2, <1>6, <1>7 DEF Rooms, ch
<1>12. \A k \in Chans : Members(chan'[k]) \subseteq Sockets
  BY <1>1, <1>4, <1>5, <1>7 DEF Listings
<1> QED  BY <1>2, <1>8, <1>9, <1>10, <1>11, <1>12 DEF e, w

LEMMA RemoveEffect ==
  ASSUME Inv, Listings, NEW t \in Threads, remove_client_from_channel(t), NEW c \in Sockets
  PROVE  /\ c # Client(t) => Rooms(c)' = Rooms(c)
         /\ c = Client(t) => Rooms(c)' = Rooms(c) \ {cur[c]}
         /\ \A k \in Chans : Members(chan'[k]) \subseteq Sockets
<1> DEFINE e == Client(t)
           w == Where(t)
           ch == chan[w]
           new == RemoveClient(ch, e)
<1>1. w \in Chans /\ w = cur[e]
  <2>1. w \in Chans
    BY WhereType DEF Inv, remove_client_from_channel, Locked, Doing, ListCalls
  <2>2. w = cur[e]
    BY DEF remove_client_from_channel, Doing, Where
  <2> QED  BY <2>1, <2>2
<1>2. /\ chan \in [Chans -> Channel] /\ chan' = [chan EXCEPT ![w] = new]
  BY DEF remove_client_from_channel, Inv, TypeOK
<1>3. /\ ch \in Channel /\ Distinct(ch) /\ Members(ch) \subseteq Sockets
  BY <1>1, <1>2 DEF Inv, ListedOnce, Listings
<1>4. Members(new) = Members(ch) \ {e}
  BY <1>3, RemoveClientMembers
<1>5. chan'[w] = new /\ \A k \in Chans \ {w} : chan'[k] = chan[k]
  BY <1>1, <1>2
<1> HIDE DEF e, w, new, ch
<1>6. c # e => Rooms(c)' = Rooms(c)
  BY <1>1, <1>4, <1>5 DEF Rooms, ch
<1>7. c = e => Rooms(c)' = Rooms(c) \ {w}
  BY <1>1, <1>4, <1>5 DEF Rooms, ch
<1>8. \A k \in Chans : Members(chan'[k]) \subseteq Sockets
  BY <1>3, <1>4, <1>5 DEF Listings
<1> QED  BY <1>1, <1>6, <1>7, <1>8 DEF e, w

-----------------------------------------------------------------------------
(* What a step of a call does to a client: to its channel, the channels it *)
(* is in, and its state.                                                   *)

Same(c) == Rooms(c)' = Rooms(c) /\ cur'[c] = cur[c] /\ client_state'[c] = client_state[c]

Entered(c, k) == /\ cur'[c] = k /\ client_state'[c] = client_state[c]
                 /\ Rooms(c)' = Rooms(c) \/ Rooms(c)' = Rooms(c) \cup {k}
                 /\ Roomy => Rooms(c)' = Rooms(c) \cup {k}

TakenOut(c) == /\ cur'[c] = cur[c] /\ client_state'[c] = client_state[c]
               /\ Rooms(c)' = Rooms(c) \ {cur[c]}

Chosen(c) == Rooms(c)' = Rooms(c) /\ client_state'[c] = client_state[c]

Forgotten(c) == Rooms(c)' = Rooms(c) /\ cur'[c] = cur[c] /\ client_state'[c] = "NONE"

NextCall(t) == Head(script[t]).do

\* The call t is in has its effect on c.
Made(t, c) ==
  /\ c # Client(t) => Same(c)
  /\ c = Client(t) =>
       /\ NextCall(t) \in {"add", "addGeneral"} => Entered(c, Where(t)) /\ Where(t) \in Chans
       /\ NextCall(t) = "remove" => TakenOut(c)
       /\ NextCall(t) = "create" => Chosen(c)
       /\ NextCall(t) = "forget" => Forgotten(c)
       /\ NextCall(t) \notin {"add", "addGeneral", "remove", "create", "forget"} => Same(c)

\* A step makes the call, or takes a loop of it one entry further; a thread
\* that quits is over, nothing else starts or ends one.
LEMMA StepFrame ==
  ASSUME NEW t, Step(t)
  PROVE  /\ ~Idle(t) /\ who' = who /\ closed' = closed /\ sigint' = sigint
         /\ script' = script \/ GoOn(t)
         /\ \/ run' = run
            \/ GoOn(t) /\ NextCall(t) = "quit" /\ run' = [run EXCEPT ![t] = "ended"]
<1>1. CASE Quit(t)
  BY <1>1 DEF Quit, Doing, NextCall, envVars
<1>2. CASE SendNext(t) \/ NameDiffers(t) \/ ByeToChannel(t)
  BY <1>2 DEF SendNext, NameDiffers, ByeToChannel, Doing, envVars, threadVars
<1>3. CASE \/ add_client(t) \/ remove_client_from_channel(t) \/ SendDone(t)
           \/ ChannelFound(t) \/ NewChannel(t) \/ ByeDone(t)
  BY <1>3 DEF add_client, AlreadyListed, ChannelFull, ClientAdded, remove_client_from_channel,
              SendDone, ChannelFound, NewChannel, ByeDone, Return, Doing, envVars, threadVars
<1>4. CASE \/ send_to_client(t) \/ get_udp_msg_clear(t) \/ get_udp_msg_write(t)
           \/ remove_udp_user(t) \/ ListLocked(t)
  BY <1>4 DEF send_to_client, get_udp_msg_clear, get_udp_msg_write, remove_udp_user, ListLocked,
              Doing, envVars, threadVars
<1> QED  BY <1>1, <1>2, <1>3, <1>4 DEF Step

LEMMA StepEffect ==
  ASSUME Inv, Scripts, Listings, NEW t \in Threads, Step(t), NEW c \in Sockets
  PROVE  \/ script' = script /\ run' = run /\ Same(c)
         \/ GoOn(t) /\ Made(t, c)
<1> USE DEF storeVars, userVars, envVars, threadVars
<1>1. CASE add_client(t)
  <2>1. Adding(t)
    BY <1>1, AddClientAdds DEF Inv
  <2> QED  BY <1>1, <2>1, AddEffect DEF Adding, Doing, Return, Made, Same, Entered, NextCall
<1>2. CASE remove_client_from_channel(t)
  BY <1>2, RemoveEffect DEF remove_client_from_channel, Doing, Return, Made, Same, TakenOut,
     NextCall
<1>3. CASE ChannelFound(t) \/ NewChannel(t)
  <2>1. /\ Doing(t, "create") /\ GoOn(t) /\ chan' = chan /\ client_state' = client_state
        /\ \E k : cur' = [cur EXCEPT ![Client(t)] = k]
    BY <1>3 DEF ChannelFound, NewChannel, Return
  <2>2. c # Client(t) => cur'[c] = cur[c]
    BY <2>1 DEF Inv, TypeOK
  <2>3. Rooms(c)' = Rooms(c)
    BY <2>1 DEF Rooms
  <2> QED  BY <2>1, <2>2, <2>3 DEF Doing, Made, Same, Chosen, NextCall
<1>4. CASE remove_udp_user(t)
  <2>1. /\ Doing(t, "forget") /\ GoOn(t) /\ chan' = chan /\ cur' = cur
        /\ client_state' = [client_state EXCEPT ![who] = "NONE"]
    BY <1>4 DEF remove_udp_user
  <2>2. "forget" \in ToCome(script[t])
    <3>1. ~Idle(t) /\ script[t][1].do = "forget" /\ 1 \in 1 .. Len(script[t])
      BY <2>1, HeadOp DEF Inv, Doing
    <3> QED  BY <3>1 DEF ToCome, RoomCalls
  <2>3. Client(t) = who
    BY <2>2 DEF Scripts, Client
  <2>4. /\ c # who => client_state'[c] = client_state[c]
        /\ c = who => client_state'[c] = "NONE"
    BY <2>1 DEF Inv, TypeOK
  <2>5. Rooms(c)' = Rooms(c)
    BY <2>1 DEF Rooms
  <2> QED  BY <2>1, <2>3, <2>4, <2>5 DEF Doing, Made, Same, Forgotten, NextCall
<1>5. CASE Quit(t)
  <2>1. Rooms(c)' = Rooms(c)
    BY <1>5 DEF Quit, Rooms
  <2> QED  BY <1>5, <2>1 DEF Quit, Doing, Made, Same, NextCall
<1>6. CASE SendNext(t) \/ NameDiffers(t) \/ ByeToChannel(t)
  <2>1. chan' = chan
    BY <1>6 DEF SendNext, NameDiffers, ByeToChannel
  <2>2. Rooms(c)' = Rooms(c)
    BY <2>1 DEF Rooms
  <2> QED  BY <1>6, <2>2 DEF SendNext, NameDiffers, ByeToChannel, Doing, Same
<1>7. CASE \/ SendDone(t) \/ send_to_client(t) \/ get_udp_msg_clear(t) \/ get_udp_msg_write(t)
           \/ ListLocked(t) \/ ByeDone(t)
  <2>1. /\ ~Idle(t) /\ GoOn(t) /\ chan' = chan /\ cur' = cur /\ client_state' = client_state
        /\ NextCall(t) \in {"send", "answer", "clear", "fill", "lockList", "byeAll"}
    BY <1>7 DEF SendDone, send_to_client, get_udp_msg_clear, get_udp_msg_write, ListLocked,
                ByeDone, Doing, Return, NextCall
  <2>2. Rooms(c)' = Rooms(c)
    BY <2>1 DEF Rooms
  <2> QED  BY <2>1, <2>2 DEF Made, Same
<1> QED  BY <1>1, <1>2, <1>3, <1>4, <1>5, <1>6, <1>7 DEF Step

-----------------------------------------------------------------------------
(* A step of a call keeps everybody in place.                              *)

\* A client is served by one thread.
LEMMA Served ==
  ASSUME TypeOK, NEW c \in Sockets
  PROVE  /\ Thread(c) \in Threads
         /\ c \in TcpClients => Thread(c) = c /\ Client(c) = c
         /\ c \notin TcpClients => Thread(c) = UdpThread /\ c \in UdpClients
         /\ \A t \in Threads : c = Client(t) => t = Thread(c)
BY StoreAssumption, ServerAssumption DEF Thread, Client, Threads, TypeOK

LEMMA CompleteTail ==
  ASSUME NEW D, NEW E, NEW v, Complete(D), D = E \cup ({v} \cap RoomCalls),
         v \in RoomCalls => E \subseteq After(v)
  PROVE  Complete(E)
<1>1. "remove" \in E => v \notin {"remove", "create", "add", "addGeneral", "forget", "quit"}
  BY DEF RoomCalls, After
<1>2. "create" \in E => v \notin {"create", "add", "addGeneral", "forget", "quit"}
  BY DEF RoomCalls, After
<1> QED  BY <1>1, <1>2 DEF Complete

\* What is still to come for the clients, after a call is made.
LEMMA StepToDo ==
  ASSUME Inv, Scripts, NEW t \in Threads, ~Idle(t), GoOn(t), who' = who
  PROVE  /\ Scripts'
         /\ \A u \in Threads : ToCome(script'[u]) \subseteq ToCome(script[u])
         /\ NextCall(t) \in RoomCalls => ToCome(script'[t]) \subseteq After(NextCall(t))
         /\ \A c \in Sockets :
              /\ c # Client(t) => ToDo(c)' = ToDo(c)
              /\ c = Client(t) =>
                   /\ ToDo(c) = ToDo(c)' \cup ({NextCall(t)} \cap RoomCalls)
                   /\ NextCall(t) \in RoomCalls => ToDo(c)' \subseteq After(NextCall(t))
                   /\ ToDo(c) = ToCome(script[t])
<1>1. /\ script'[t] = Tail(script[t])
      /\ \A u \in Threads \ {t} : script'[u] = script[u]
      /\ script[t] \in Seq(Op) /\ script[t] # << >>
  BY GoOnTypes, HeadOp DEF Inv
<1>2. /\ Ordered(script'[t])
      /\ ToCome(script[t]) = ToCome(script'[t]) \cup ({NextCall(t)} \cap RoomCalls)
      /\ NextCall(t) \in RoomCalls => ToCome(script'[t]) \subseteq After(NextCall(t))
  BY <1>1, Remaining DEF Scripts, NextCall
<1>3. Complete(ToCome(script'[t]))
  BY <1>2, CompleteTail DEF Scripts
<1>4. Scripts'
  BY <1>1, <1>2, <1>3 DEF Scripts
<1>5. \A u \in Threads : ToCome(script'[u]) \subseteq ToCome(script[u])
  BY <1>1, <1>2
<1>6. ASSUME NEW c \in Sockets
      PROVE  /\ c # Client(t) => ToDo(c)' = ToDo(c)
             /\ c = Client(t) => ToDo(c) = ToCome(script[t]) /\ ToDo(c)' = ToCome(script'[t])
  <2>1. Thread(c) \in Threads /\ (c = Client(t) => Thread(c) = t)
    BY Served DEF Inv
  <2>2. Thread(c)' = Thread(c) /\ Client(Thread(c))' = Client(Thread(c))
    BY DEF Thread, Client
  <2>3. CASE c # Client(t)
    <3>1. CASE Thread(c) = t
      BY <2>2, <2>3, <3>1 DEF ToDo
    <3>2. CASE Thread(c) # t
      BY <1>1, <2>1, <2>2, <3>2 DEF ToDo
    <3> QED  BY <2>3, <3>1, <3>2
  <2>4. CASE c = Client(t)
    BY <2>1, <2>2, <2>4 DEF ToDo
  <2> QED  BY <2>3, <2>4
<1> QED  BY <1>2, <1>4, <1>5, <1>6

\* Who is not served stays in place.
LEMMA SameInPlace ==
  ASSUME NEW c, Same(c), ToDo(c)' = ToDo(c), InPlace(c)
  PROVE  InPlace(c)'
BY DEF Same, InPlace

\* Who is served is in place after each call.
LEMMA MadeInPlace ==
  ASSUME Inv, Scripts, NEW t \in Threads, NEW c \in Sockets, c = Client(t), Made(t, c),
         InPlace(c),
         ToDo(c) = ToDo(c)' \cup ({NextCall(t)} \cap RoomCalls),
         NextCall(t) \in RoomCalls => ToDo(c)' \subseteq After(NextCall(t)),
         ToDo(c) = ToCome(script[t]), NextCall(t) # "quit"
  PROVE  InPlace(c)'
<1> DEFINE v == NextCall(t)
           D == ToDo(c)
           F == ToDo(c)'
<1>0. /\ D = F \cup ({v} \cap RoomCalls) /\ (v \in RoomCalls => F \subseteq After(v))
      /\ Complete(D) /\ Complete(F)
  <2>1. Complete(D)
    BY DEF Scripts
  <2> QED  BY <2>1, CompleteTail
<1> HIDE DEF v, D, F
<1>1. CASE v \notin RoomCalls
  <2>1. F = D
    BY <1>0, <1>1
  <2>2. Same(c)
    BY <1>1 DEF Made, v, RoomCalls
  <2> QED  BY <2>1, <2>2, SameInPlace DEF D, F
<1>2. CASE v \in {"add", "addGeneral"}
  <2>1. F = {} /\ v \in D /\ "remove" \notin D
    BY <1>0, <1>2 DEF After, RoomCalls
  <2>2. Rooms(c) = {} /\ client_state[c] = "OPEN"
    BY <1>2, <2>1 DEF InPlace, D
  <2>3. Entered(c, Where(t))
    BY <1>2 DEF Made, v
  <2>4. Rooms(c)' \subseteq {cur'[c]} /\ (Roomy => Rooms(c)' = {cur'[c]})
    BY <2>2, <2>3 DEF Entered
  <2>5. client_state'[c] = "OPEN"
    BY <2>2, <2>3 DEF Entered
  <2>6. Roomy' = Roomy
    BY DEF Roomy
  <2> QED  BY <2>1, <2>4, <2>5, <2>6 DEF InPlace, F
<1>3. CASE v = "remove"
  <2>1. TakenOut(c)
    BY <1>3 DEF Made, v
  <2>2. Rooms(c)' = {} /\ cur'[c] = cur[c] /\ client_state'[c] = client_state[c]
    BY <2>1 DEF TakenOut, InPlace
  <2>3. F # {}
    BY <1>0, <1>3 DEF Complete, RoomCalls
  <2>4. \A w \in F : w \in D
    BY <1>0
  <2>5. "forget" \in D => "forget" \in F
    BY <1>0, <1>3
  <2> QED  BY <2>2, <2>3, <2>4, <2>5 DEF InPlace, D, F
<1>4. CASE v = "create"
  <2>1. Chosen(c)
    BY <1>4 DEF Made, v
  <2>2. F = {"add"} /\ v \in D /\ "remove" \notin D
    BY <1>0, <1>4 DEF After, RoomCalls, Complete
  <2>3. Rooms(c)' = {} /\ client_state'[c] = "OPEN"
    BY <1>4, <2>1, <2>2 DEF InPlace, D, Chosen
  <2> QED  BY <2>2, <2>3 DEF InPlace, F
<1>5. CASE v = "forget"
  <2>1. Forgotten(c)
    BY <1>5 DEF Made, v
  <2>2. F = {} /\ v \in D /\ "remove" \notin D
    BY <1>0, <1>5 DEF After, RoomCalls
  <2>3. Rooms(c)' = {} /\ client_state'[c] = "NONE"
    BY <1>5, <2>1, <2>2 DEF InPlace, D, Forgotten
  <2> QED  BY <2>2, <2>3 DEF InPlace, F
<1>6. v # "quit"
  BY DEF v
<1> QED  BY <1>1, <1>2, <1>3, <1>4, <1>5, <1>6 DEF RoomCalls

LEMMA StepListings ==
  ASSUME Inv, Scripts, Listings, NEW t \in Threads, Step(t)
  PROVE  Listings'
<1>0. channels \in Seq(Names) /\ Len(channels) \in Chans /\ cur \in [Sockets -> 0 .. LastChan]
  BY DEF Inv, TypeOK
<1>1. \A k \in Chans : Members(chan'[k]) \subseteq Sockets
  <2>1. CASE chan' = chan
    BY <2>1 DEF Listings
  <2>2. CASE Sockets = {}
    <3>1. ~add_client(t) /\ ~remove_client_from_channel(t)
      BY <2>2, ClientKnown, AddClientAdds DEF Inv, Adding, remove_client_from_channel, Doing
    <3> QED  BY <2>1, <3>1 DEF Step, SendNext, SendDone, NameDiffers, ChannelFound, NewChannel,
                send_to_client, get_udp_msg_clear, get_udp_msg_write, remove_udp_user, Quit,
                ListLocked, ByeToChannel, ByeDone, storeVars
  <2>3. CASE Sockets # {} /\ (add_client(t) \/ remove_client_from_channel(t))
    BY <2>3, AddEffect, RemoveEffect
  <2> QED  BY <2>1, <2>2, <2>3 DEF Step, SendNext, SendDone, NameDiffers, ChannelFound, NewChannel,
                send_to_client, get_udp_msg_clear, get_udp_msg_write, remove_udp_user, Quit,
                ListLocked, ByeToChannel, ByeDone, storeVars
<1>2. ASSUME NEW c \in Sockets  PROVE cur'[c] <= Len(channels')
  <2>1. CASE add_client(t)
    <3>0. Adding(t)
      BY <2>1, AddClientAdds DEF Inv
    <3>1. channels' = channels /\ (cur'[c] = cur[c] \/ cur'[c] = Where(t))
      BY <2>1, <3>0, AddEffect DEF Adding
    <3>2. Client(t) \in Sockets
      BY <3>0, ClientKnown DEF Inv, Adding, Doing
    <3>3. Where(t) <= Len(channels)
      BY <1>0, <3>0, <3>2 DEF Adding, Doing, Where, Listings, Chans, LastChan
    <3> QED  BY <3>1, <3>3 DEF Listings
  <2>2. CASE ChannelFound(t)
    <3>1. idx[t] \in Nat /\ Len(channels) \in Nat /\ idx[t] < Len(channels) /\ channels' = channels
      BY <1>0, <2>2 DEF ChannelFound, Inv, TypeOK, storeVars, Chans, LastChan
    <3>2. cur'[c] = cur[c] \/ cur'[c] = idx[t] + 1
      BY <1>0, <2>2 DEF ChannelFound
    <3>3. idx[t] + 1 <= Len(channels)
      BY <3>1
    <3> QED  BY <3>1, <3>2, <3>3 DEF Listings
  <2>3. CASE NewChannel(t)
    <3>1. channels' = Append(channels, Head(script[t]).name)
      BY <2>3 DEF NewChannel
    <3>2. Head(script[t]).name \in Names
      BY <2>3, HeadOp DEF Inv, NewChannel, MustDie, Doing, Op
    <3>3. Len(channels') = Len(channels) + 1 /\ Len(channels) \in Nat
      BY <1>0, <3>1, <3>2, AppendProperties DEF Chans, LastChan
    <3>4. cur'[c] = cur[c] \/ cur'[c] = Len(channels) + 1
      BY <1>0, <2>3 DEF NewChannel
    <3>5. cur[c] \in Nat /\ cur[c] <= Len(channels)
      BY <1>0 DEF Listings
    <3>6. CASE cur'[c] = cur[c]
      BY <3>3, <3>5, <3>6
    <3>7. CASE cur'[c] = Len(channels) + 1
      BY <3>3, <3>7
    <3> QED  BY <3>4, <3>6, <3>7
  <2>4. CASE ~add_client(t) /\ ~ChannelFound(t) /\ ~NewChannel(t)
    <3>1. cur' = cur /\ channels' = channels
      BY <2>4 DEF Step, remove_client_from_channel, SendNext, SendDone, NameDiffers,
              send_to_client, get_udp_msg_clear, get_udp_msg_write, remove_udp_user, Quit,
              ListLocked, ByeToChannel, ByeDone, storeVars, userVars
    <3> QED  BY <3>1 DEF Listings
  <2> QED  BY <2>1, <2>2, <2>3, <2>4
<1> QED  BY <1>1, <1>2 DEF Listings

\* A step of a call.
LEMMA StepRooms ==
  ASSUME Inv, RoomsInv, NEW t \in Threads, Step(t)
  PROVE  RoomsInv'
<1> USE DEF RoomsInv
<1>0. /\ ~Idle(t) /\ who' = who /\ closed' = closed /\ sigint' = sigint
      /\ script' = script \/ GoOn(t)
      /\ \/ run' = run
         \/ GoOn(t) /\ NextCall(t) = "quit" /\ run' = [run EXCEPT ![t] = "ended"]
      /\ run \in [Threads -> {"new", "running", "ended"}]
  BY StepFrame DEF Inv, TypeOK
<1>1. Listings'
  BY StepListings
<1>2. /\ Scripts'
      /\ \A u \in Threads : ToCome(script'[u]) \subseteq ToCome(script[u])
  <2>1. CASE script' = script
    BY <2>1 DEF Scripts
  <2> QED  BY <1>0, <2>1, StepToDo
<1>3. Over'
  <2>1. CASE run' = run
    BY <1>2, <2>1 DEF Over
  <2>2. CASE GoOn(t) /\ NextCall(t) = "quit" /\ run' = [run EXCEPT ![t] = "ended"]
    <3>1. ToCome(script'[t]) = {}
      BY <1>0, <2>2, StepToDo DEF RoomCalls, After
    <3> QED  BY <1>0, <1>2, <2>2, <3>1 DEF Over
  <2> QED  BY <1>0, <2>1, <2>2
<1>4. ASSUME NEW c \in Sockets
      PROVE  \/ Same(c) /\ ToDo(c)' = ToDo(c) /\ (run' = run \/ c # Client(t))
             \/ /\ GoOn(t) /\ Made(t, c) /\ c = Client(t) /\ t = Thread(c)
                /\ ToDo(c) = ToDo(c)' \cup ({NextCall(t)} \cap RoomCalls)
                /\ NextCall(t) \in RoomCalls => ToDo(c)' \subseteq After(NextCall(t))
                /\ ToDo(c) = ToCome(script[t])
  <2>1. CASE script' = script /\ run' = run /\ Same(c)
    <3>1. ToDo(c)' = ToDo(c)
      BY <1>0, <2>1 DEF ToDo, Client, Thread
    <3> QED  BY <2>1, <3>1
  <2>2. CASE GoOn(t) /\ Made(t, c) /\ c # Client(t)
    BY <1>0, <2>2, StepToDo DEF Made
  <2>3. CASE GoOn(t) /\ Made(t, c) /\ c = Client(t)
    BY <1>0, <2>3, StepToDo, Served DEF Inv
  <2> QED  BY <2>1, <2>2, <2>3, StepEffect
<1>5. Placed'
  <2> SUFFICES ASSUME NEW c \in Sockets, Tame(c), run'[Thread(c)] # "ended"
               PROVE  InPlace(c)'
    BY DEF Placed, Tame, Thread
  <2>1. Thread(c) \in Threads
    BY Served DEF Inv
  <2>2. run[Thread(c)] # "ended"
    BY <1>0, <2>1
  <2>3. InPlace(c)
    BY <2>2 DEF Placed
  <2>4. Thread(c) = t => ~(NextCall(t) = "quit" /\ run' = [run EXCEPT ![t] = "ended"])
    BY <1>0
  <2>5. CASE Same(c) /\ ToDo(c)' = ToDo(c)
    BY <2>3, <2>5, SameInPlace
  <2>6. CASE NextCall(t) # "quit"
    BY <1>4, <2>3, <2>5, <2>6, MadeInPlace
  <2>7. CASE NextCall(t) = "quit" /\ t = Thread(c)
    <3>1. Quit(t)
      BY <2>7 DEF Step, add_client, AlreadyListed, ChannelFull, ClientAdded,
                  remove_client_from_channel, SendNext, SendDone, NameDiffers, ChannelFound,
                  NewChannel, send_to_client, get_udp_msg_clear, get_udp_msg_write,
                  remove_udp_user, ListLocked, ByeToChannel, ByeDone, Doing, NextCall
    <3> QED  BY <2>4, <2>7, <3>1 DEF Quit
  <2> QED  BY <1>4, <2>5, <2>6, <2>7
<1>6. Gone'
  <2> SUFFICES ASSUME NEW c \in TcpClients, "quit" \in ToDo(c)' \/ run'[c] = "ended",
                      "remove" \notin ToDo(c)', c \notin closed, ~sigint
               PROVE  Rooms(c)' = {}
    BY <1>0 DEF Gone
  <2>1. c \in Sockets /\ Thread(c) = c /\ c \in Threads /\ Tame(c) /\ Client(c) = c
    BY Served, ServerAssumption DEF Inv, Tame, Threads
  <2>2. ("quit" \in ToDo(c) \/ run[c] = "ended") => "remove" \in ToDo(c) \/ Rooms(c) = {}
    BY DEF Gone
  <2>3. run[c] = "ended" => ToDo(c) = {}
    BY <2>1 DEF Over, ToDo
  <2>4. CASE Same(c) /\ ToDo(c)' = ToDo(c) /\ (run' = run \/ c # Client(t))
    <3>1. run'[c] = run[c]
      BY <1>0, <2>1, <2>4
    <3> QED  BY <2>2, <2>4, <3>1 DEF Same
  <2>5. CASE /\ GoOn(t) /\ Made(t, c) /\ c = Client(t) /\ t = c
             /\ ToDo(c) = ToDo(c)' \cup ({NextCall(t)} \cap RoomCalls)
             /\ NextCall(t) \in RoomCalls => ToDo(c)' \subseteq After(NextCall(t))
    <3> DEFINE v == NextCall(t)
               D == ToDo(c)
               F == ToDo(c)'
    <3>1. /\ D = F \cup ({v} \cap RoomCalls) /\ (v \in RoomCalls => F \subseteq After(v))
          /\ "remove" \notin F
      BY <2>5
    <3>2. /\ v = "remove" => Rooms(c)' = Rooms(c) \ {cur[c]}
          /\ v \notin RoomCalls \/ v = "quit" => Rooms(c)' = Rooms(c)
      BY <2>5 DEF Made, Same, TakenOut, RoomCalls, v
    <3>3. D # {} => run[c] # "ended" /\ InPlace(c)
      BY <2>1, <2>3 DEF Placed, D
    <3>4. "quit" \in F \/ run'[c] = "ended" => "quit" \in D \/ run[c] = "ended"
      <4>1. "quit" \in F => "quit" \in D
        BY <3>1
      <4>2. run'[c] = "ended" /\ run[c] # "ended" => v = "quit"
        BY <1>0 DEF v
      <4>3. v = "quit" => v \in D
        BY <3>1 DEF RoomCalls
      <4> QED  BY <4>1, <4>2, <4>3
    <3> HIDE DEF v, D, F
    <3>5. "quit" \in D \/ run[c] = "ended"
      BY <3>4 DEF F
    <3>6. CASE v = "remove"
      <4>1. InPlace(c)
        BY <3>1, <3>3, <3>6 DEF RoomCalls
      <4> QED  BY <3>2, <3>6, <4>1 DEF InPlace
    <3>7. CASE v # "remove"
      <4>1. Rooms(c) = {}
        BY <2>2, <3>1, <3>5, <3>7 DEF D
      <4>2. v \notin RoomCalls \/ v = "quit"
        <5>1. CASE run[c] = "ended"
          BY <2>3, <3>1, <5>1 DEF D
        <5>2. CASE "quit" \in D
          BY <3>1, <3>7, <5>2 DEF RoomCalls, After
        <5> QED  BY <3>5, <5>1, <5>2
      <4> QED  BY <3>2, <4>1, <4>2
    <3> QED  BY <3>6, <3>7
  <2> QED  BY <1>4, <2>1, <2>4, <2>5
<1> QED  BY <1>1, <1>2, <1>3, <1>5, <1>6

-----------------------------------------------------------------------------
(* The arrival of a message, of the end of a connection, of C-c.           *)

\* Idle thread t turns to client c and is given calls, of which V are about
\* channels.
Takes(t, c, calls, V) ==
  /\ Idle(t) /\ run[t] = "running"
  /\ script' = [script EXCEPT ![t] = calls]
  /\ Good(calls, V) /\ Complete(V) /\ ("forget" \in V => t = UdpThread)
  /\ run' = run /\ chan' = chan /\ channels' = channels /\ closed' = closed /\ sigint' = sigint
  /\ Client(t)' = c /\ (t # UdpThread => who' = who)
  /\ \A d \in Sockets \ {c} : cur'[d] = cur[d] /\ client_state'[d] = client_state[d]
  /\ c \in Sockets => cur'[c] <= Len(channels)
  /\ c \in TcpClients /\ "quit" \in V => "remove" \in V \/ c \in closed \/ sigint

\* A change of a client's state and channel that agrees with the calls to come.
Agrees(c, V) ==
  /\ cur'[c] = cur[c] \/ client_state[c] # "OPEN"
  /\ client_state'[c] # "OPEN" => "remove" \in V \/ client_state[c] # "OPEN"
  /\ V \cap {"create", "add", "addGeneral"} # {} => client_state'[c] = "OPEN"
  /\ V \cap {"create", "add", "addGeneral", "forget"} # {} =>
       "remove" \in V \/ client_state[c] # "OPEN"
  /\ client_state'[c] = "OPEN" /\ V = {} => client_state[c] = "OPEN"
  /\ c \in UdpClients => client_state'[c] \in {"NONE", "ACCEPT", "OPEN"} \/ "forget" \in V

LEMMA TakesRooms ==
  ASSUME Inv, TypeOK', RoomsInv, NEW t \in Threads, NEW c, NEW calls, NEW V,
         Takes(t, c, calls, V),
         c \in Sockets /\ Tame(c) /\ InPlace(c) /\ ToDo(c) = {} => Agrees(c, V)
  PROVE  RoomsInv'
<1> USE DEF RoomsInv
<1>0. /\ Idle(t) /\ run[t] = "running" /\ script \in [Threads -> Seq(Op)]
      /\ script'[t] = calls /\ \A u \in Threads \ {t} : script'[u] = script[u]
      /\ Good(calls, V) /\ Complete(V) /\ ("forget" \in V => t = UdpThread)
      /\ run' = run /\ chan' = chan /\ channels' = channels /\ closed' = closed /\ sigint' = sigint
  BY DEF Takes, Inv, TypeOK
<1>1. ToCome(script[t]) = {} /\ ToCome(script'[t]) = V
  BY <1>0, ScriptedForNobody DEF Idle, Good
<1>2. Scripts'
  BY <1>0, <1>1 DEF Scripts, Good
<1>3. Over'
  BY <1>0, <1>1 DEF Over
<1>4. Listings'
  <2>1. \A d \in Sockets : cur'[d] <= Len(channels)
    BY DEF Takes, Listings
  <2> QED  BY <1>0, <2>1 DEF Listings
<1>5. ASSUME NEW d \in Sockets
      PROVE  /\ Rooms(d)' = Rooms(d)
             /\ Thread(d) \in Threads
             /\ d # c => Same(d) /\ ToDo(d)' = ToDo(d)
             /\ d = c => Thread(d) = t /\ ToDo(d) = {} /\ ToDo(d)' = V
  <2>1. Rooms(d)' = Rooms(d)
    BY <1>0 DEF Rooms
  <2>2. Thread(d) \in Threads /\ Thread(d)' = Thread(d)
    BY Served DEF Inv, Thread
  <2>3. Client(t)' = c /\ (t # UdpThread => Client(t) = t /\ c = t)
    BY DEF Takes, Client
  <2>4. ASSUME d # c  PROVE Same(d) /\ ToDo(d)' = ToDo(d)
    <3>1. Same(d)
      BY <2>1, <2>4 DEF Takes, Same
    <3>2. CASE Thread(d) = t
      <4>1. ToDo(d) = {}
        BY <1>1, <3>2 DEF ToDo
      <4>2. ToDo(d)' = {}
        BY <2>2, <2>3, <2>4, <3>2 DEF ToDo
      <4> QED  BY <3>1, <4>1, <4>2
    <3>3. CASE Thread(d) # t
      <4>1. script'[Thread(d)] = script[Thread(d)]
        BY <1>0, <2>2, <3>3
      <4>2. Client(Thread(d))' = Client(Thread(d))
        <5>1. CASE t = UdpThread
          BY <2>2, <3>3, <5>1 DEF Client
        <5>2. CASE t # UdpThread
          BY <5>2 DEF Takes, Client, Thread
        <5> QED  BY <5>1, <5>2
      <4> QED  BY <2>2, <3>1, <4>1, <4>2 DEF ToDo
    <3> QED  BY <3>2, <3>3
  <2>5. ASSUME d = c  PROVE Thread(d) = t /\ ToDo(d) = {} /\ ToDo(d)' = V
    <3>1. Thread(d) = t
      <4>1. CASE t # UdpThread
        BY <2>3, <2>5, <4>1, Served DEF Inv, Threads
      <4>2. CASE t = UdpThread
        BY <2>3, <2>5, <4>2, StoreAssumption, ServerAssumption DEF Client, Thread, TypeOK
      <4> QED  BY <4>1, <4>2
    <3> QED  BY <1>1, <2>2, <2>3, <2>5, <3>1 DEF ToDo
  <2> QED  BY <2>1, <2>2, <2>4, <2>5
<1>6. Placed'
  <2> SUFFICES ASSUME NEW d \in Sockets, Tame(d), run'[Thread(d)] # "ended"
               PROVE  InPlace(d)'
    BY DEF Placed, Tame, Thread
  <2>1. InPlace(d)
    BY <1>0 DEF Placed
  <2>2. CASE d # c
    BY <1>5, <2>1, <2>2, SameInPlace
  <2>3. CASE d = c
    <3>1. Agrees(d, V) /\ Rooms(d)' = Rooms(d) /\ ToDo(d) = {} /\ ToDo(d)' = V
      BY <1>5, <2>1, <2>3
    <3>2. client_state[d] # "OPEN" => Rooms(d) = {}
      BY <2>1, <3>1 DEF InPlace
    <3>3. Rooms(d) \subseteq {cur[d]} /\ (Roomy /\ client_state[d] = "OPEN" => Rooms(d) = {cur[d]})
      BY <2>1, <3>1 DEF InPlace
    <3>4. Roomy' = Roomy
      BY DEF Roomy
    <3> QED  BY <3>1, <3>2, <3>3, <3>4 DEF InPlace, Agrees
  <2> QED  BY <2>2, <2>3
<1>7. Gone'
  <2> SUFFICES ASSUME NEW d \in TcpClients, "quit" \in ToDo(d)' \/ run'[d] = "ended",
                      "remove" \notin ToDo(d)', d \notin closed, ~sigint
               PROVE  Rooms(d)' = {}
    BY <1>0 DEF Gone
  <2>1. d \in Sockets /\ Thread(d) = d
    BY ServerAssumption DEF Thread
  <2>2. CASE d # c
    BY <1>0, <1>5, <2>1, <2>2 DEF Gone
  <2>3. CASE d = c
    BY <1>0, <1>5, <2>1, <2>3 DEF Takes
  <2> QED  BY <2>2, <2>3
<1> QED  BY <1>2, <1>3, <1>4, <1>6, <1>7

LEMMA CompleteCalls ==
  /\ Complete({}) /\ Complete({"quit"}) /\ Complete({"add"}) /\ Complete({"addGeneral"})
  /\ Complete({"remove", "create", "add"}) /\ Complete({"remove", "quit"})
  /\ Complete({"remove", "forget"})
BY DEF Complete

LEMMA TcpInputRooms ==
  ASSUME Inv, TypeOK', RoomsInv, NEW c \in TcpClients,
         TcpInput(c) \/ TcpEof(c) \/ TcpInterrupted(c)
  PROVE  RoomsInv'
<1>0. /\ c \in Sockets /\ c \in Threads /\ c # UdpThread /\ c \notin UdpClients
      /\ client_state \in [Sockets -> States] /\ cur[c] <= Len(channels)
      /\ NoName \in Names \cup {NoName}
  BY ServerAssumption DEF Inv, TypeOK, Threads, RoomsInv, Listings
<1> DEFINE S(V) == \/ client_state' = client_state /\ V \cap {"create", "add", "addGeneral"} = {}
                   \/ client_state' = client_state /\ client_state[c] = "OPEN" /\ "remove" \in V
                   \/ /\ client_state[c] = "ACCEPT" /\ V = {"add"}
                      /\ client_state' = [client_state EXCEPT ![c] = "OPEN"]
                   \/ /\ client_state[c] = "ACCEPT" /\ V = {}
                      /\ client_state' = [client_state EXCEPT ![c] = "AUTH_failed"]
                   \/ /\ V = {"remove", "quit"}
                      /\ client_state' = [client_state EXCEPT ![c] = "END"]
           Q(V) == "quit" \in V => "remove" \in V \/ c \in closed \/ sigint
<1>1. ASSUME NEW calls, NEW V, NEW kind, Good(calls, V), Complete(V), "forget" \notin V, S(V),
             Q(V), Idle(c), run[c] = "running", Handle(c, kind, calls), who' = who, cur' = cur
      PROVE  RoomsInv'
  <2>1. Takes(c, c, calls, V)
    <3>1. \A d \in Sockets \ {c} : client_state'[d] = client_state[d]
      BY <1>0, <1>1
    <3> QED  BY <1>0, <1>1, <3>1 DEF Takes, Handle, storeVars, envVars, Client
  <2>2. Agrees(c, V)
    <3>1. client_state'[c] = client_state[c] \/ client_state[c] # "OPEN" \/ "remove" \in V
      BY <1>0, <1>1
    <3>2. V \cap {"create", "add", "addGeneral"} # {} =>
            client_state'[c] = "OPEN" /\ ("remove" \in V \/ client_state[c] # "OPEN")
      BY <1>0, <1>1
    <3>3. client_state'[c] = "OPEN" /\ V = {} => client_state[c] = "OPEN"
      BY <1>0, <1>1
    <3> QED  BY <1>0, <1>1, <3>1, <3>2, <3>3 DEF Agrees
  <2> QED  BY <1>0, <2>1, <2>2, TakesRooms
<1>2. CASE TcpAuth(c)
  BY <1>0, <1>1, <1>2, Scripted, CompleteCalls DEF TcpAuth, TcpGets, Listens
<1>3. CASE TcpAuthBad(c)
  BY <1>0, <1>1, <1>3, Scripted, CompleteCalls DEF TcpAuthBad, TcpGets, Listens
<1>4. CASE TcpMsg(c)
  BY <1>0, <1>1, <1>4, Scripted, CompleteCalls DEF TcpMsg, TcpGets, Listens, userVars
<1>5. CASE TcpBye(c)
  BY <1>0, <1>1, <1>5, Scripted, CompleteCalls DEF TcpBye, TcpGets, Listens, userVars
<1>6. CASE TcpUnknown(c)
  BY <1>0, <1>1, <1>6, Scripted, CompleteCalls DEF TcpUnknown, TcpGets, Listens
<1>7. CASE \E kind \in Kinds : TcpRefuse(c, kind)
  BY <1>0, <1>1, <1>7, Scripted, CompleteCalls DEF TcpRefuse, TcpGets, Listens, userVars
<1>8. CASE \E n \in Names : TcpJoin(c, n)
  BY <1>0, <1>1, <1>8, Scripted, CompleteCalls DEF TcpJoin, TcpGets, Listens, userVars
<1>9. CASE TcpEof(c) \/ TcpInterrupted(c)
  BY <1>0, <1>1, <1>9, Scripted, CompleteCalls DEF TcpEof, TcpInterrupted, Listens, userVars
<1> QED  BY <1>2, <1>3, <1>4, <1>5, <1>6, <1>7, <1>8, <1>9 DEF TcpInput

LEMMA UdpInputRooms ==
  ASSUME Inv, TypeOK', RoomsInv, NEW c \in UdpClients, UdpInput(c)
  PROVE  RoomsInv'
<1>0. /\ c \in Sockets /\ c \notin TcpClients /\ UdpThread \in Threads
      /\ UdpClients \subseteq Sockets
      /\ client_state \in [Sockets -> States] /\ cur \in [Sockets -> 0 .. LastChan]
      /\ channel_name \in [Sockets -> Names \cup {NoName}]
      /\ Len(channels) \in Nat /\ \A d \in Sockets : cur[d] <= Len(channels)
      /\ UdpThread \notin TcpClients
  BY ServerAssumption DEF Inv, TypeOK, Threads, RoomsInv, Listings, Chans, LastChan
<1>1. ASSUME NEW user \in Record(c)
      PROVE  /\ user.channel <= Len(channels) /\ user.channel_name \in Names \cup {NoName}
             /\ client_state[c] = "OPEN" => user.channel = cur[c]
  BY <1>0 DEF Record
<1>2. ASSUME NEW calls, NEW V, NEW kind, NEW user \in Record(c), NEW st, Good(calls, V),
             Complete(V), Idle(UdpThread), run[UdpThread] = "running",
             Handle(UdpThread, kind, calls), who' = c, Keep(c, user, st),
             InPlace(c) /\ ToDo(c) = {} /\ Tame(c) =>
               /\ st # "OPEN" => "remove" \in V \/ client_state[c] # "OPEN"
               /\ V \cap {"create", "add", "addGeneral"} # {} => st = "OPEN"
               /\ V \cap {"create", "add", "addGeneral", "forget"} # {} =>
                    "remove" \in V \/ client_state[c] # "OPEN"
               /\ st = "OPEN" /\ V = {} => client_state[c] = "OPEN"
               /\ st \in {"NONE", "ACCEPT", "OPEN"} \/ "forget" \in V
      PROVE  RoomsInv'
  <2>1. /\ cur'[c] = user.channel /\ client_state'[c] = st
        /\ \A d \in Sockets \ {c} : cur'[d] = cur[d] /\ client_state'[d] = client_state[d]
    BY <1>0, <1>2 DEF Keep
  <2>2. Takes(UdpThread, c, calls, V)
    BY <1>0, <1>1, <1>2, <2>1 DEF Takes, Handle, storeVars, envVars, Client
  <2>3. InPlace(c) /\ ToDo(c) = {} /\ Tame(c) => Agrees(c, V)
    BY <1>0, <1>1, <1>2, <2>1 DEF Agrees
  <2> QED  BY <1>0, <2>2, <2>3, TakesRooms
<1>3. InPlace(c) /\ ToDo(c) = {} => client_state[c] \in {"NONE", "ACCEPT", "OPEN"}
  BY DEF InPlace
<1>4. CASE UdpAuth(c)
  BY <1>0, <1>2, <1>4, Scripted, CompleteCalls DEF UdpAuth, UdpGets, Listens, UserState
<1>5. CASE UdpMsg(c)
  <2>1. Takes(UdpThread, c, <<Call("answer")>> \o Announce(Said(c)), {})
    BY <1>0, <1>5, Scripted, CompleteCalls DEF UdpMsg, UdpGets, Listens, Takes, Handle, storeVars,
       envVars, userVars, Client
  <2>2. InPlace(c) /\ ToDo(c) = {} => Agrees(c, {})
    BY <1>3, <1>5 DEF UdpMsg, userVars, Agrees
  <2> QED  BY <1>0, <2>1, <2>2, TakesRooms
<1>6. CASE UdpBye(c)
  BY <1>0, <1>2, <1>6, Scripted, CompleteCalls DEF UdpBye, UdpGets, Listens, UserState
<1>7. CASE UdpConfirm(c)
  BY <1>0, <1>2, <1>3, <1>7, Scripted, CompleteCalls DEF UdpConfirm, UdpGets, Listens, UserState
<1>8. CASE \E kind \in Kinds : UdpErrorState(c, kind)
  <2>1. PICK kind \in Kinds, user \in Record(c) :
          /\ UdpErrorState(c, kind)
          /\ UdpGets(c, kind) /\ Keep(c, user, UserState(c))
          /\ Handle(UdpThread, kind, JoinCalls(c, user.channel_name))
    BY <1>8 DEF UdpErrorState
  <2>2. ASSUME InPlace(c), ToDo(c) = {}, Tame(c)  PROVE UserState(c) = "OPEN"
    <3>1. CASE kind = "AUTH" /\ UserState(c) # "ACCEPT"
      BY <1>3, <2>2, <3>1 DEF UserState
    <3>2. CASE kind \in {"JOIN", "MSG"}
      BY <1>0, <2>1, <2>2, <3>2 DEF UdpGets, Sends, Tame, UserState
    <3> QED  BY <2>1, <3>1, <3>2 DEF UdpErrorState
  <2>3. Good(JoinCalls(c, user.channel_name), {"remove", "create", "add"})
    BY <1>0, <1>1, Scripted
  <2> QED  BY <1>2, <2>1, <2>2, <2>3, CompleteCalls DEF UdpGets, Listens
<1>9. CASE \E kind \in Kinds : UdpEnd(c, kind)
  BY <1>0, <1>2, <1>9, Scripted, CompleteCalls DEF UdpEnd, UdpGets, Listens
<1>10. CASE \E n \in Names : UdpJoin(c, n)
  <2>1. PICK n \in Names : UdpJoin(c, n)
    BY <1>10
  <2> DEFINE user == [channel |-> cur[c], channel_name |-> n]
  <2>2. Good(JoinCalls(c, n), {"remove", "create", "add"})
    BY <1>0, Scripted
  <2>3. /\ cur'[c] = cur[c] /\ client_state'[c] = "OPEN" /\ client_state[c] = "OPEN"
        /\ \A d \in Sockets \ {c} : cur'[d] = cur[d] /\ client_state'[d] = client_state[d]
    BY <1>0, <2>1 DEF UdpJoin, Keep, UserState
  <2>4. Takes(UdpThread, c, JoinCalls(c, n), {"remove", "create", "add"})
    BY <1>0, <2>1, <2>2, <2>3, CompleteCalls DEF UdpJoin, UdpGets, Listens, Takes, Handle,
       storeVars, envVars, Client
  <2>5. Agrees(c, {"remove", "create", "add"})
    BY <2>3 DEF Agrees
  <2> QED  BY <1>0, <2>4, <2>5, TakesRooms
<1> QED  BY <1>4, <1>5, <1>6, <1>7, <1>8, <1>9, <1>10 DEF UdpInput

LEMMA UdpInterruptedRooms ==
  ASSUME Inv, TypeOK', RoomsInv, UdpInterrupted
  PROVE  RoomsInv'
<1>1. PICK c : c = who
  OBVIOUS
<1>2. UdpThread \in Threads /\ UdpThread \notin TcpClients
      /\ (c \in Sockets => c \notin TcpClients /\ cur[c] <= Len(channels))
  BY <1>1, StoreAssumption, ServerAssumption DEF Threads, Inv, TypeOK, RoomsInv, Listings
<1>3. Takes(UdpThread, c, ByeCalls, {"quit"})
  BY <1>1, <1>2, ScriptedForNobody, CompleteCalls DEF UdpInterrupted, ByeCalls, Takes, Handle,
     storeVars, envVars, userVars, Client
<1>4. c \in Sockets /\ InPlace(c) /\ ToDo(c) = {} => Agrees(c, {"quit"})
  BY DEF UdpInterrupted, userVars, Agrees, InPlace
<1> QED  BY <1>2, <1>3, <1>4, TakesRooms

-----------------------------------------------------------------------------
(* Every other step leaves the calls and the clients alone.                *)

Aside ==
  \/ \E t \in Threads : LockOuter(t) \/ LockInner(t) \/ Die(t)
  \/ \E c \in TcpClients : Connect(c) \/ Disconnect(c)
  \/ stop_listening \/ Quiet \/ UNCHANGED vars

LEMMA AsideFrame ==
  ASSUME Aside
  PROVE  /\ script' = script /\ chan' = chan /\ channels' = channels /\ cur' = cur
         /\ client_state' = client_state /\ who' = who
         /\ closed \subseteq closed' /\ (sigint => sigint')
         /\ \/ run' = run
            \/ \E c \in TcpClients : run[c] = "new" /\ run' = [run EXCEPT ![c] = "running"]
<1> USE DEF storeVars, userVars, envVars, threadVars, callVars
<1>1. CASE \E t \in Threads : LockOuter(t) \/ LockInner(t) \/ Die(t)
  BY <1>1 DEF LockOuter, LockInner, Die
<1>2. CASE \E c \in TcpClients : Connect(c) \/ Disconnect(c)
  BY <1>2 DEF Connect, Disconnect
<1>3. CASE stop_listening \/ Quiet \/ UNCHANGED vars
  BY <1>3 DEF stop_listening, Quiet, vars
<1> QED  BY <1>1, <1>2, <1>3 DEF Aside

LEMMA AsideRooms ==
  ASSUME Inv, RoomsInv, Aside
  PROVE  RoomsInv'
<1> USE DEF RoomsInv
<1>1. /\ script' = script /\ chan' = chan /\ channels' = channels /\ cur' = cur
      /\ client_state' = client_state /\ who' = who
      /\ closed \subseteq closed' /\ (sigint => sigint')
  BY AsideFrame
<1>2. \A t \in Threads : run'[t] = "ended" <=> run[t] = "ended"
  BY AsideFrame DEF Inv, TypeOK
<1>3. ASSUME NEW c \in Sockets
      PROVE  Same(c) /\ ToDo(c)' = ToDo(c) /\ Thread(c) \in Threads /\ Thread(c)' = Thread(c)
  BY <1>1, Served DEF Inv, Same, Rooms, ToDo, Client, Thread
<1>4. Scripts' /\ Listings' /\ Over'
  BY <1>1, <1>2 DEF Scripts, Listings, Over
<1>5. Placed'
  <2> SUFFICES ASSUME NEW c \in Sockets, Tame(c), run'[Thread(c)] # "ended"
               PROVE  InPlace(c)'
    BY DEF Placed, Tame, Thread
  <2>1. InPlace(c)
    BY <1>2, <1>3 DEF Placed
  <2> QED  BY <1>3, <2>1, SameInPlace
<1>6. Gone'
  <2>1. \A c \in TcpClients : c \in Sockets /\ c \in Threads
    BY ServerAssumption DEF Threads
  <2> QED  BY <1>1, <1>2, <1>3, <2>1 DEF Gone, Same
<1> QED  BY <1>4, <1>5, <1>6

-----------------------------------------------------------------------------
(* The invariant.                                                          *)

LEMMA InitRooms == Init => RoomsInv
<1> SUFFICES ASSUME Init  PROVE RoomsInv
  OBVIOUS
<1>1. /\ \A t \in Threads : script[t] = << >> /\ run[t] # "ended"
      /\ Len(channels) = 1
      /\ \A c \in Sockets : /\ cur[c] \in {0, 1}
                            /\ client_state[c] = IF c \in TcpClients THEN "ACCEPT" ELSE "NONE"
      /\ \A k \in Chans : chan[k].num_users = 0
  BY ServerAssumption DEF Init, EmptyChannel
<1>2. \A k \in Chans : Members(chan[k]) = {}
  BY <1>1 DEF Members, InUse
<1>3. \A c : Rooms(c) = {}
  BY <1>2 DEF Rooms
<1>4. \A t \in Threads : /\ ToCome(script[t]) = {}
                         /\ Ordered(script[t])
  BY <1>1, ScriptedForNobody DEF Ordered
<1>5. \A c \in Sockets : ToDo(c) = {}
  BY <1>4, ServerAssumption DEF ToDo, Thread, Threads
<1>6. Scripts /\ Over
  BY <1>4, CompleteCalls DEF Scripts, Over
<1>7. Listings
  BY <1>1, <1>2 DEF Listings
<1>8. Placed
  BY <1>1, <1>3, <1>5 DEF Placed, InPlace
<1>9. Gone
  BY <1>3 DEF Gone
<1> QED  BY <1>6, <1>7, <1>8, <1>9 DEF RoomsInv

LEMMA NextRooms == Inv /\ Inv' /\ RoomsInv /\ [Next]_vars => RoomsInv'
<1> SUFFICES ASSUME Inv, Inv', RoomsInv, [Next]_vars  PROVE RoomsInv'
  OBVIOUS
<1>1. TypeOK'
  BY DEF Inv
<1>2. ASSUME NEW t \in Threads, Step(t)  PROVE RoomsInv'
  BY <1>2, StepRooms
<1>3. ASSUME NEW c \in TcpClients, TcpInput(c) \/ TcpEof(c) \/ TcpInterrupted(c)
      PROVE  RoomsInv'
  BY <1>1, <1>3, TcpInputRooms
<1>4. ASSUME NEW c \in UdpClients, UdpInput(c)  PROVE RoomsInv'
  BY <1>1, <1>4, UdpInputRooms
<1>5. CASE UdpInterrupted
  BY <1>1, <1>5, UdpInterruptedRooms
<1>6. CASE Aside
  BY <1>6, AsideRooms
<1> QED  BY <1>2, <1>3, <1>4, <1>5, <1>6 DEF Next, Aside

LEMMA RoomsHold == Spec => [](Inv /\ RoomsInv)
BY InvHolds, InitRooms, NextRooms, PTL DEF Spec

-----------------------------------------------------------------------------
(* What it implies.                                                        *)

\* Between messages a connected client is in its current channel if it is
\* authenticated and in none if it is not, whatever the other handlers do with
\* add_client and remove_client_from_channel: for every number of clients, channels
\* and names, if the channels have entries for all clients (add_client ignores who
\* does not fit) and no UDP client sends JOIN or MSG before it is OPEN (the parser's
\* error code would run the JOIN branch for it, handle_udp.c).
THEOREM RightRoomHolds ==
  ASSUME Roomy, {"JOIN", "MSG"} \cap Early = {}
  PROVE  Spec => []RightRoom
<1>1. Inv /\ RoomsInv => RightRoom
  <2> SUFFICES ASSUME Inv, RoomsInv, NEW c \in Sockets, Settled(c), run[Thread(c)] = "running"
               PROVE  Rooms(c) = IF client_state[c] = "OPEN" THEN {cur[c]} ELSE {}
    BY DEF RightRoom
  <2>1. InPlace(c)
    BY DEF RoomsInv, Placed, Tame
  <2>2. ToDo(c) = {}
    BY ScriptedForNobody DEF Settled, ToDo, Idle
  <2> QED  BY <2>1, <2>2 DEF InPlace
<1> QED  BY <1>1, RoomsHold, PTL

\* A client whose handler ended with BYE (handle_tcp.c, tcp_receiver.c) is listed
\* nowhere, for every instance.
THEOREM DepartedHolds == Spec => []Departed
<1>1. Inv /\ RoomsInv => Departed
  <2> SUFFICES ASSUME Inv, RoomsInv, NEW c \in TcpClients, run[c] = "ended", c \notin closed,
                      ~sigint
               PROVE  Rooms(c) = {}
    BY DEF Departed
  <2>1. Thread(c) = c /\ c \in Threads
    BY DEF Thread, Threads
  <2>2. ToDo(c) = {}
    BY <2>1 DEF RoomsInv, Over, ToDo
  <2> QED  BY <2>2 DEF RoomsInv, Gone
<1> QED  BY <1>1, RoomsHold, PTL

-----------------------------------------------------------------------------
(* The refinement of ChatRooms.                                            *)

\* What TheRoom reads off the channels a client is in.
LEMMA OnlyRoom == \A k : Cardinality({k}) = 1 /\ (CHOOSE j \in {k} : TRUE) = k
BY FS_Singleton

LEMMA RoomRead ==
  /\ \A c, k : Rooms(c) = {k} => TheRoom(c) = k
  /\ \A c : Rooms(c) = {} => TheRoom(c) = 0
BY OnlyRoom DEF TheRoom

LEMMA RoomReadNext ==
  /\ \A c, k : Rooms(c)' = {k} => TheRoom(c)' = k
  /\ \A c : Rooms(c)' = {} => TheRoom(c)' = 0
  /\ \A c : Rooms(c)' = Rooms(c) => TheRoom(c)' = TheRoom(c)
<1>1. ASSUME NEW c, NEW k, Rooms(c)' = {k}  PROVE TheRoom(c)' = k
  BY <1>1, OnlyRoom DEF TheRoom
<1>2. ASSUME NEW c, Rooms(c)' = {}  PROVE TheRoom(c)' = 0
  BY <1>2 DEF TheRoom
<1>3. ASSUME NEW c, Rooms(c)' = Rooms(c)  PROVE TheRoom(c)' = TheRoom(c)
  BY <1>3 DEF TheRoom
<1> QED  BY <1>1, <1>2, <1>3

AbstractStep == [Abstract!RoomsNext]_(Abstract!roomVars)

\* A step that changes no channel is Admit or Dismiss for one client, or nothing.
LEMMA StateStep ==
  ASSUME TypeOK, chan' = chan, channels' = channels,
         \/ client_state' = client_state
         \/ \E c, s : client_state' = [client_state EXCEPT ![c] = s]
  PROVE  AbstractStep
<1> DEFINE A == {c \in Sockets : client_state[c] = "OPEN"}
           room == [c \in Sockets |-> TheRoom(c)]
<1>1. room' = room
  <2>1. \A c : Rooms(c)' = Rooms(c)
    BY DEF Rooms
  <2> QED  BY <2>1, RoomReadNext
<1>2. A' = A \/ \E c \in Sockets : (c \notin A /\ A' = A \cup {c}) \/ (c \in A /\ A' = A \ {c})
  <2>1. CASE client_state' = client_state
    BY <2>1
  <2>2. CASE \E c, s : client_state' = [client_state EXCEPT ![c] = s]
    <3>1. PICK c, s : client_state' = [client_state EXCEPT ![c] = s]
      BY <2>2
    <3>2. \A d \in Sockets : d # c => client_state'[d] = client_state[d]
      BY <3>1 DEF TypeOK
    <3> QED  BY <3>2
  <2> QED  BY <2>1, <2>2
<1>3. CASE A' = A
  BY <1>1, <1>3 DEF AbstractStep, Abstract!roomVars
<1>4. CASE \E c \in Sockets : c \notin A /\ A' = A \cup {c}
  BY <1>1, <1>4 DEF AbstractStep, Abstract!RoomsNext, Abstract!Admit
<1>5. CASE \E c \in Sockets : c \in A /\ A' = A \ {c}
  BY <1>1, <1>5 DEF AbstractStep, Abstract!RoomsNext, Abstract!Dismiss
<1> QED  BY <1>2, <1>3, <1>4, <1>5

\* add_client is Enter.
LEMMA AddStep ==
  ASSUME Inv, RoomsInv, {"JOIN", "MSG"} \cap Early = {}, NEW t \in Threads, add_client(t)
  PROVE  AbstractStep
<1> DEFINE room == [c \in Sockets |-> TheRoom(c)]
           A    == {c \in Sockets : client_state[c] = "OPEN"}
<1>0. Adding(t)
  BY AddClientAdds DEF Inv
<1>1. PICK e, w : e = Client(t) /\ w = Where(t)
  OBVIOUS
<1>2. /\ ~Idle(t) /\ NextCall(t) \in {"add", "addGeneral"} /\ e \in Sockets /\ t = Thread(e)
      /\ Client(Thread(e)) = e
  BY <1>0, <1>1, ClientKnown, Served DEF Adding, Doing, NextCall, Inv
<1>3. NextCall(t) \in ToDo(e) /\ "remove" \notin ToDo(e)
  <2>1. /\ script[t] \in Seq(Op) /\ script[t] # << >> /\ Ordered(script[t])
    BY <1>2, HeadOp DEF Inv, RoomsInv, Scripts
  <2>2. /\ ToCome(script[t]) = ToCome(Tail(script[t])) \cup ({NextCall(t)} \cap RoomCalls)
        /\ NextCall(t) \in RoomCalls => ToCome(Tail(script[t])) \subseteq After(NextCall(t))
    BY <2>1, Remaining DEF NextCall
  <2> QED  BY <1>2, <2>2 DEF ToDo, RoomCalls, After
<1>4. client_state[e] = "OPEN" /\ Rooms(e) = {}
  <2>1. run[t] # "ended"
    BY <1>2, <1>3 DEF RoomsInv, Over, ToDo
  <2>2. InPlace(e)
    BY <1>2, <2>1 DEF RoomsInv, Placed, Tame
  <2> QED  BY <1>2, <1>3, <2>2 DEF InPlace
<1>5. /\ w \in Chans /\ w \in 1 .. Len(channels)
      /\ \A c \in Sockets \ {e} : Rooms(c)' = Rooms(c)
      /\ Rooms(e)' = Rooms(e) \/ Rooms(e)' = Rooms(e) \cup {w}
  <2>1. w \in Chans /\ Len(channels) \in Chans
    BY <1>1, <1>2, AddEffect DEF RoomsInv, Inv, TypeOK
  <2>2. w = 1 \/ w = cur[e]
    BY <1>1, <1>2 DEF Where, NextCall
  <2>3. w \in 1 .. Len(channels)
    BY <1>2, <2>1, <2>2 DEF RoomsInv, Listings, Chans, LastChan
  <2> QED  BY <1>1, <1>2, <2>1, <2>3, AddEffect DEF RoomsInv
<1>6. channels' = channels /\ client_state' = client_state
  BY <1>0 DEF Adding
<1>7. \A c \in Sockets \ {e} : TheRoom(c)' = TheRoom(c)
  BY <1>5, RoomReadNext
<1>8. CASE Rooms(e)' = Rooms(e)
  <2>1. room' = room
    BY <1>7, <1>8, RoomReadNext
  <2> QED  BY <1>6, <2>1 DEF AbstractStep, Abstract!roomVars
<1>9. CASE Rooms(e)' = Rooms(e) \cup {w}
  <2>1. Rooms(e)' = {w}
    BY <1>4, <1>9
  <2>2. TheRoom(e) = 0 /\ TheRoom(e)' = w
    BY <1>4, <2>1, RoomRead, RoomReadNext
  <2>3. room[e] = 0 /\ room' = [room EXCEPT ![e] = w] /\ e \in A /\ A' = A
    BY <1>2, <1>4, <1>6, <1>7, <2>2
  <2> HIDE DEF room
  <2>4. Abstract!Enter(e, w)
    BY <1>5, <1>6, <2>3 DEF Abstract!Enter, room
  <2> QED  BY <1>2, <1>5, <2>4 DEF AbstractStep, Abstract!RoomsNext, Chans
<1> QED  BY <1>5, <1>8, <1>9

\* remove_client_from_channel is Leave, or nothing if the client is in no channel.
LEMMA RemoveStep ==
  ASSUME Inv, RoomsInv, {"JOIN", "MSG"} \cap Early = {}, NEW t \in Threads,
         remove_client_from_channel(t)
  PROVE  AbstractStep
<1> DEFINE room == [c \in Sockets |-> TheRoom(c)]
           A    == {c \in Sockets : client_state[c] = "OPEN"}
<1>1. PICK e : e = Client(t)
  OBVIOUS
<1>2. /\ ~Idle(t) /\ NextCall(t) = "remove" /\ e \in Sockets /\ t = Thread(e)
      /\ Client(Thread(e)) = e
  BY <1>1, ClientKnown, Served DEF remove_client_from_channel, Doing, NextCall, Inv
<1>3. "remove" \in ToCome(script[t])
  <2>1. script[t] \in Seq(Op) /\ script[t] # << >> /\ Ordered(script[t])
    BY <1>2, HeadOp DEF Inv, RoomsInv, Scripts
  <2> QED  BY <1>2, <2>1, Remaining DEF NextCall, RoomCalls
<1>4. Rooms(e) \subseteq {cur[e]}
  <2>1. run[t] # "ended"
    BY <1>3 DEF RoomsInv, Over
  <2> QED  BY <1>2, <2>1 DEF RoomsInv, Placed, Tame, InPlace
<1>5. /\ \A c \in Sockets \ {e} : Rooms(c)' = Rooms(c)
      /\ Rooms(e)' = Rooms(e) \ {cur[e]}
  BY <1>1, <1>2, RemoveEffect DEF RoomsInv
<1>6. channels' = channels /\ client_state' = client_state
  BY DEF remove_client_from_channel, userVars
<1>7. \A c \in Sockets \ {e} : TheRoom(c)' = TheRoom(c)
  BY <1>5, RoomReadNext
<1>8. TheRoom(e)' = 0
  BY <1>4, <1>5, RoomReadNext
<1>9. CASE Rooms(e) = {}
  <2>1. room' = room
    BY <1>7, <1>8, <1>9, RoomRead
  <2> QED  BY <1>6, <2>1 DEF AbstractStep, Abstract!roomVars
<1>10. CASE Rooms(e) = {cur[e]}
  <2>1. TheRoom(e) # 0
    <3>1. cur[e] \in Rooms(e)
      BY <1>10
    <3>2. cur[e] # 0
      BY <3>1 DEF Rooms, Chans, LastChan
    <3> QED  BY <1>10, <3>2, RoomRead
  <2>2. room[e] # 0 /\ A' = A
    BY <1>2, <1>6, <2>1
  <2>3. room' = [room EXCEPT ![e] = 0]
    BY <1>2, <1>7, <1>8
  <2> HIDE DEF room
  <2>4. Abstract!Leave(e)
    BY <1>6, <2>2, <2>3 DEF Abstract!Leave, room
  <2> QED  BY <1>2, <2>4 DEF AbstractStep, Abstract!RoomsNext
<1> QED  BY <1>4, <1>9, <1>10

\* create_channel at the end of its search is Open.
LEMMA NewChannelStep ==
  ASSUME Inv, TypeOK', NEW t \in Threads, NewChannel(t)
  PROVE  AbstractStep
<1> DEFINE room == [c \in Sockets |-> TheRoom(c)]
           A    == {c \in Sockets : client_state[c] = "OPEN"}
<1>1. /\ chan' = chan /\ client_state' = client_state
      /\ channels' = Append(channels, Head(script[t]).name)
  BY DEF NewChannel
<1>2. Len(channels') = Len(channels) + 1
  BY <1>1 DEF Inv, TypeOK
<1>3. Len(channels) < LastChan
  BY <1>2, ServerAssumption DEF Inv, TypeOK, Chans, LastChan
<1>4. room' = room
  <2>1. \A c : Rooms(c)' = Rooms(c)
    BY <1>1 DEF Rooms
  <2> QED  BY <2>1, RoomReadNext
<1>5. Abstract!Open
  BY <1>1, <1>2, <1>3, <1>4 DEF Abstract!Open
<1> QED  BY <1>5 DEF AbstractStep, Abstract!RoomsNext

\* Every other step changes no channel, and one client's state at most.
LEMMA OtherSteps ==
  ASSUME [Next]_vars,
         \A t \in Threads : ~add_client(t) /\ ~remove_client_from_channel(t) /\ ~NewChannel(t)
  PROVE  /\ chan' = chan /\ channels' = channels
         /\ \/ client_state' = client_state
            \/ \E c, s : client_state' = [client_state EXCEPT ![c] = s]
<1> USE DEF storeVars, userVars
<1>1. ASSUME NEW t \in Threads, Step(t)
      PROVE  /\ chan' = chan /\ channels' = channels
             /\ \/ client_state' = client_state
                \/ \E c, s : client_state' = [client_state EXCEPT ![c] = s]
  <2>1. CASE SendNext(t) \/ SendDone(t) \/ NameDiffers(t) \/ ChannelFound(t) \/ Quit(t)
    BY <2>1 DEF SendNext, SendDone, NameDiffers, ChannelFound, Quit
  <2>2. CASE send_to_client(t) \/ get_udp_msg_clear(t) \/ get_udp_msg_write(t)
    BY <2>2 DEF send_to_client, get_udp_msg_clear, get_udp_msg_write
  <2>3. CASE remove_udp_user(t)
    BY <2>3 DEF remove_udp_user
  <2>4. CASE ListLocked(t) \/ ByeToChannel(t) \/ ByeDone(t)
    BY <2>4 DEF ListLocked, ByeToChannel, ByeDone
  <2> QED  BY <1>1, <2>1, <2>2, <2>3, <2>4 DEF Step
<1>2. ASSUME NEW c \in TcpClients, TcpInput(c) \/ TcpEof(c) \/ TcpInterrupted(c)
      PROVE  /\ chan' = chan /\ channels' = channels
             /\ \/ client_state' = client_state
                \/ \E d, s : client_state' = [client_state EXCEPT ![d] = s]
  BY <1>2 DEF TcpInput, TcpEof, TcpInterrupted, TcpAuth, TcpAuthBad, TcpMsg, TcpBye, TcpUnknown,
              TcpRefuse, TcpJoin, Handle
<1>3. ASSUME NEW c \in UdpClients, UdpInput(c)
      PROVE  /\ chan' = chan /\ channels' = channels
             /\ \/ client_state' = client_state
                \/ \E d, s : client_state' = [client_state EXCEPT ![d] = s]
  <2>1. CASE UdpAuth(c) \/ UdpBye(c) \/ UdpConfirm(c)
    BY <2>1 DEF UdpAuth, UdpBye, UdpConfirm, Keep, Handle
  <2>2. CASE UdpMsg(c)
    BY <2>2 DEF UdpMsg, Handle
  <2>3. CASE \E kind \in Kinds : UdpErrorState(c, kind)
    BY <2>3 DEF UdpErrorState, Keep, Handle
  <2>4. CASE \E kind \in Kinds : UdpEnd(c, kind)
    BY <2>4 DEF UdpEnd, Keep, Handle
  <2>5. CASE \E n \in Names : UdpJoin(c, n)
    <3>1. PICK n \in Names : UdpJoin(c, n)
      BY <2>5
    <3>2. client_state' = [client_state EXCEPT ![c] = "OPEN"]
      BY <3>1 DEF UdpJoin, Keep
    <3>3. chan' = chan /\ channels' = channels
      BY <3>1 DEF UdpJoin, Handle
    <3> QED  BY <3>2, <3>3
  <2> QED  BY <1>3, <2>1, <2>2, <2>3, <2>4, <2>5 DEF UdpInput
<1>4. CASE UdpInterrupted
  BY <1>4 DEF UdpInterrupted, Handle
<1>5. CASE Aside
  BY <1>5, AsideFrame
<1> QED  BY <1>1, <1>2, <1>3, <1>4, <1>5 DEF Next, Aside

LEMMA RoomsStep ==
  ASSUME {"JOIN", "MSG"} \cap Early = {}
  PROVE  Inv /\ Inv' /\ RoomsInv /\ [Next]_vars => AbstractStep
<1> SUFFICES ASSUME Inv, Inv', RoomsInv, [Next]_vars  PROVE AbstractStep
  OBVIOUS
<1>1. TypeOK /\ TypeOK'
  BY DEF Inv
<1>2. ASSUME NEW t \in Threads, add_client(t)  PROVE AbstractStep
  BY <1>2, AddStep
<1>3. ASSUME NEW t \in Threads, remove_client_from_channel(t)  PROVE AbstractStep
  BY <1>3, RemoveStep
<1>4. ASSUME NEW t \in Threads, NewChannel(t)  PROVE AbstractStep
  BY <1>1, <1>4, NewChannelStep
<1>5. CASE \A t \in Threads :
             ~add_client(t) /\ ~remove_client_from_channel(t) /\ ~NewChannel(t)
  BY <1>1, <1>5, OtherSteps, StateStep
<1> QED  BY <1>2, <1>3, <1>4, <1>5

LEMMA RoomsStart == Init => Abstract!RoomsInit
<1> SUFFICES ASSUME Init  PROVE Abstract!RoomsInit
  OBVIOUS
<1>1. \A c : Rooms(c) = {}
  <2>1. \A k \in Chans : chan[k].num_users = 0
    BY DEF Init, EmptyChannel
  <2> QED  BY <2>1 DEF Rooms, Members, InUse
<1>2. \A c : TheRoom(c) = 0
  BY <1>1, RoomRead
<1>3. Len(channels) = 1
  BY DEF Init
<1>4. {c \in Sockets : client_state[c] = "OPEN"} = {}
  BY DEF Init
<1> QED  BY <1>2, <1>3, <1>4 DEF Abstract!RoomsInit

\* The handlers implement the abstract rooms: each step of theirs admits or
\* dismisses a client, lets it enter or leave one room, opens a room, or is
\* invisible there; for every instance in which no UDP client sends JOIN or MSG
\* before it is OPEN, whether the channels fill up or not.
THEOREM RoomsImplemented ==
  ASSUME {"JOIN", "MSG"} \cap Early = {}
  PROVE  Spec => ImplementsRooms
<1>1. Inv /\ Inv' /\ RoomsInv /\ [Next]_vars => [Abstract!RoomsNext]_(Abstract!roomVars)
  BY RoomsStep DEF AbstractStep
<1> QED  BY <1>1, RoomsStart, RoomsHold, PTL DEF Spec, ImplementsRooms, Abstract!RoomsSpec

-----------------------------------------------------------------------------
(* The shutdown pass.                                                      *)

\* What the UDP thread has left to do of the pass.
ByeAndQuit == <<Call("byeAll"), Call("quit")>>
JustQuit   == <<Call("quit")>>

\* The UDP thread ends by the pass alone, and only after C-c.
ByePass == /\ run[UdpThread] # "new"
           /\ "quit" \in ToCome(script[UdpThread]) =>
                sigint /\ script[UdpThread] \in {ByeCalls, ByeAndQuit, JustQuit}

\* Who is in a channel is in one of the list.
InTheList == \A k \in Chans : Members(chan[k]) # {} => k <= Len(channels)

\* The pass has told c, which is in channel k, once it is past that channel.
Told(c, k) == /\ run[UdpThread] = "ended" => c \in byed
              /\ script[UdpThread] = JustQuit => c \in byed
              /\ script[UdpThread] = ByeAndQuit /\ idx[UdpThread] >= k => c \in byed

Stays(c, k) == sigint /\ run[UdpThread] = "running" => ~Overrun /\ c \in Members(chan[k])

LEMMA Passes ==
  /\ ByeCalls # ByeAndQuit /\ ByeCalls # JustQuit /\ ByeAndQuit # JustQuit
  /\ ByeCalls \in Seq(Op) /\ ByeAndQuit \in Seq(Op) /\ JustQuit \in Seq(Op)
  /\ Tail(ByeCalls) = ByeAndQuit /\ Tail(ByeAndQuit) = JustQuit /\ Tail(JustQuit) = << >>
  /\ Head(ByeCalls).do = "lockList" /\ Head(ByeAndQuit).do = "byeAll"
  /\ Head(JustQuit).do = "quit"
<1>1. Call("lockList") \in Op /\ Call("byeAll") \in Op /\ Call("quit") \in Op
  BY DEF Call, Op, Verbs
<1>2. /\ ByeCalls \in Seq(Op) /\ ByeAndQuit \in Seq(Op) /\ JustQuit \in Seq(Op)
  BY <1>1, UserOpsAreOps, ShortScripts DEF ByeAndQuit, JustQuit
<1>3. Len(ByeCalls) = 3 /\ Len(ByeAndQuit) = 2 /\ Len(JustQuit) = 1
  BY DEF ByeCalls, ByeAndQuit, JustQuit
<1>4. ByeCalls # ByeAndQuit /\ ByeCalls # JustQuit /\ ByeAndQuit # JustQuit
  BY <1>3
<1>5. /\ Tail(ByeCalls) = ByeAndQuit /\ Tail(ByeAndQuit) = JustQuit /\ Tail(JustQuit) = << >>
  BY DEF ByeCalls, ByeAndQuit, JustQuit
<1>6. /\ Head(ByeCalls).do = "lockList" /\ Head(ByeAndQuit).do = "byeAll"
      /\ Head(JustQuit).do = "quit"
  BY DEF ByeCalls, ByeAndQuit, JustQuit, Call
<1> QED  BY <1>2, <1>4, <1>5, <1>6

LEMMA QuitIsLeft == "quit" \in ToCome(JustQuit) /\ "quit" \in ToCome(ByeAndQuit)
<1>1. /\ JustQuit[1].do = "quit" /\ ByeAndQuit[2].do = "quit"
      /\ 1 \in 1 .. Len(JustQuit) /\ 2 \in 1 .. Len(ByeAndQuit)
  BY DEF JustQuit, ByeAndQuit, Call
<1> QED  BY <1>1 DEF ToCome, RoomCalls

LEMMA UdpScripts ==
  ASSUME Inv, NEW c \in UdpClients, UdpInput(c)
  PROVE  "quit" \notin ToCome(script'[UdpThread])
<1>0. /\ c \in Sockets /\ UdpClients \subseteq Sockets /\ UdpThread \in Threads
      /\ script \in [Threads -> Seq(Op)]
      /\ channel_name \in [Sockets -> Names \cup {NoName}]
  BY ServerAssumption DEF Inv, TypeOK, Threads
<1>1. ASSUME NEW kind, NEW calls, NEW V, Handle(UdpThread, kind, calls), Good(calls, V),
             "quit" \notin V
      PROVE  "quit" \notin ToCome(script'[UdpThread])
  <2>1. script'[UdpThread] = calls
    BY <1>0, <1>1 DEF Handle
  <2> QED  BY <1>1, <2>1 DEF Good
<1>2. CASE UdpAuth(c) \/ UdpBye(c) \/ UdpConfirm(c) \/ UdpMsg(c)
  BY <1>0, <1>1, <1>2, Scripted DEF UdpAuth, UdpBye, UdpConfirm, UdpMsg
<1>3. CASE \E kind \in Kinds : UdpErrorState(c, kind)
  <2>1. PICK kind \in Kinds, user \in Record(c) :
          Handle(UdpThread, kind, JoinCalls(c, user.channel_name))
    BY <1>3 DEF UdpErrorState
  <2>2. user.channel_name \in Names \cup {NoName}
    BY <1>0 DEF Record
  <2>3. Good(JoinCalls(c, user.channel_name), {"remove", "create", "add"})
    BY <1>0, <2>2, Scripted
  <2> QED  BY <1>1, <2>1, <2>3
<1>4. CASE \E kind \in Kinds : UdpEnd(c, kind)
  BY <1>0, <1>1, <1>4, Scripted DEF UdpEnd
<1>5. CASE \E n \in Names : UdpJoin(c, n)
  <2>1. PICK n \in Names : Handle(UdpThread, "JOIN", JoinCalls(c, n))
    BY <1>5 DEF UdpJoin
  <2>2. Good(JoinCalls(c, n), {"remove", "create", "add"})
    BY <1>0, Scripted
  <2> QED  BY <1>1, <2>1, <2>2
<1> QED  BY <1>2, <1>3, <1>4, <1>5 DEF UdpInput

\* Steps other than the UDP thread's own, and the messages of its clients.
LEMMA OthersPass ==
  ASSUME Inv, [Next]_vars
  PROVE  \/ Step(UdpThread) /\ sigint' = sigint
         \/ UdpInterrupted
         \/ /\ \/ script'[UdpThread] = script[UdpThread] /\ idx'[UdpThread] = idx[UdpThread]
               \/ "quit" \notin ToCome(script'[UdpThread])
            /\ run'[UdpThread] = run[UdpThread] /\ byed \subseteq byed' /\ (sigint => sigint')
<1>0. /\ UdpThread \in Threads /\ UdpThread \notin TcpClients /\ TcpClients \subseteq Threads
      /\ script \in [Threads -> Seq(Op)] /\ run \in [Threads -> {"new", "running", "ended"}]
      /\ idx \in [Threads -> Nat] /\ TypeOK
  BY ServerAssumption DEF Inv, TypeOK, Threads
<1>1. ASSUME NEW t \in Threads, Step(t), t # UdpThread
      PROVE  /\ script'[UdpThread] = script[UdpThread] /\ idx'[UdpThread] = idx[UdpThread]
             /\ run'[UdpThread] = run[UdpThread] /\ byed \subseteq byed' /\ sigint' = sigint
  <2>1. Only(t)
    BY <1>1, StepUp, ByThread, StepOnly DEF Inv
  <2>2. run'[UdpThread] = run[UdpThread] /\ sigint' = sigint
    BY <1>0, <1>1, StepFrame
  <2>3. byed \subseteq byed'
    BY <1>1 DEF Step, add_client, AlreadyListed, ChannelFull, ClientAdded,
                remove_client_from_channel, SendNext, SendDone, NameDiffers, ChannelFound,
                NewChannel, send_to_client, get_udp_msg_clear, get_udp_msg_write,
                remove_udp_user, Quit, ListLocked, ByeToChannel, ByeDone
  <2> QED  BY <1>0, <1>1, <2>1, <2>2, <2>3 DEF Only
<1>2. ASSUME NEW t \in Threads, NEW kind, NEW calls, Handle(t, kind, calls)
      PROVE  /\ idx' = idx /\ run' = run /\ byed' = byed /\ sigint' = sigint
             /\ t # UdpThread => script'[UdpThread] = script[UdpThread]
  BY <1>0, <1>2 DEF Handle, envVars
<1>3. ASSUME NEW c \in TcpClients, TcpInput(c) \/ TcpEof(c) \/ TcpInterrupted(c)
      PROVE  \E kind, calls : Handle(c, kind, calls)
  BY <1>3 DEF TcpInput, TcpEof, TcpInterrupted, TcpAuth, TcpAuthBad, TcpMsg, TcpBye, TcpUnknown,
              TcpRefuse, TcpJoin
<1>4. ASSUME NEW c \in UdpClients, UdpInput(c)
      PROVE  \E kind, calls : Handle(UdpThread, kind, calls)
  <2>1. CASE UdpAuth(c) \/ UdpBye(c) \/ UdpConfirm(c) \/ UdpMsg(c)
    BY <2>1 DEF UdpAuth, UdpBye, UdpConfirm, UdpMsg
  <2>2. CASE \E kind \in Kinds : UdpErrorState(c, kind) \/ UdpEnd(c, kind)
    BY <2>2 DEF UdpErrorState, UdpEnd
  <2>3. CASE \E n \in Names : UdpJoin(c, n)
    BY <2>3 DEF UdpJoin
  <2> QED  BY <1>4, <2>1, <2>2, <2>3 DEF UdpInput
<1>5. ASSUME NEW c \in TcpClients, TcpInput(c) \/ TcpEof(c) \/ TcpInterrupted(c)
      PROVE  /\ idx' = idx /\ run' = run /\ byed' = byed /\ sigint' = sigint
             /\ script'[UdpThread] = script[UdpThread]
  BY <1>0, <1>2, <1>3, <1>5
<1>6. ASSUME NEW c \in UdpClients, UdpInput(c)
      PROVE  /\ run' = run /\ byed' = byed /\ sigint' = sigint
             /\ "quit" \notin ToCome(script'[UdpThread])
  BY <1>0, <1>2, <1>4, <1>6, UdpScripts
<1>7. ASSUME Aside
      PROVE  /\ script' = script /\ idx' = idx /\ byed' = byed /\ (sigint => sigint')
             /\ run'[UdpThread] = run[UdpThread]
  <2>1. idx' = idx /\ byed' = byed
    BY <1>7 DEF Aside, LockOuter, LockInner, Die, Connect, Disconnect, stop_listening, Quiet,
                vars, callVars
  <2> QED  BY <1>0, <1>7, <2>1, AsideFrame
<1>8. Step(UdpThread) => sigint' = sigint
  BY StepFrame
<1> QED  BY <1>1, <1>5, <1>6, <1>7, <1>8 DEF Next, Aside

LEMMA PassStep ==
  ASSUME Inv, RoomsInv, ByePass, [Next]_vars
  PROVE  ByePass'
<1> DEFINE s == script[UdpThread]
           n == script'[UdpThread]
<1>0. /\ UdpThread \in Threads /\ s \in Seq(Op) /\ script \in [Threads -> Seq(Op)]
      /\ run \in [Threads -> {"new", "running", "ended"}]
  BY DEF Inv, TypeOK, Threads
<1>1. CASE Step(UdpThread) /\ sigint' = sigint
  <2>1. s # << >> /\ (n = s \/ n = Tail(s)) /\ run'[UdpThread] # "new"
    BY <1>0, <1>1, StepFrame DEF GoOn, Idle, ByePass
  <2>2. n = Tail(s) => ToCome(n) \subseteq ToCome(s)
    BY <1>0, <2>1, Remaining DEF RoomsInv, Scripts
  <2> HIDE DEF n
  <2>3. "quit" \in ToCome(n) => sigint' /\ n \in {ByeCalls, ByeAndQuit, JustQuit}
    <3>1. ASSUME "quit" \in ToCome(n)  PROVE s \in {ByeCalls, ByeAndQuit, JustQuit} /\ sigint
      BY <2>1, <2>2, <3>1 DEF ByePass
    <3>2. n = << >> => ToCome(n) = {}
      BY ScriptedForNobody
    <3> HIDE DEF s
    <3> QED  BY <1>1, <2>1, <3>1, <3>2, Passes
  <2> QED  BY <2>1, <2>3 DEF ByePass, n
<1>2. CASE UdpInterrupted
  <2>1. n = ByeCalls /\ sigint' = sigint /\ sigint /\ run' = run
    BY <1>0, <1>2 DEF UdpInterrupted, Handle, ByeCalls, envVars
  <2> QED  BY <2>1 DEF ByePass
<1>3. CASE /\ n = s \/ "quit" \notin ToCome(n)
           /\ run'[UdpThread] = run[UdpThread] /\ (sigint => sigint')
  BY <1>3 DEF ByePass
<1> QED  BY <1>1, <1>2, <1>3, OthersPass

LEMMA ListStep ==
  ASSUME Inv, RoomsInv, InTheList, [Next]_vars
  PROVE  InTheList'
<1>0. chan \in [Chans -> Channel] /\ channels \in Seq(Names) /\ Len(channels) \in Chans
  BY DEF Inv, TypeOK
<1>1. ASSUME NEW t \in Threads, add_client(t)  PROVE InTheList'
  <2>0. Adding(t) /\ Where(t) \in Chans
    BY <1>1, AddClientAdds DEF Inv
  <2>1. PICK e, w : e = Client(t) /\ w = Where(t)
    OBVIOUS
  <2>2. e \in Sockets
    BY <2>0, <2>1, ClientKnown DEF Inv, Adding, Doing
  <2>3. w \in Chans
    BY <2>0, <2>1
  <2>4. w = 1 \/ w = cur[e]
    BY <2>0, <2>1 DEF Adding, Doing, Where
  <2>5. w <= Len(channels)
    BY <1>0, <2>2, <2>4 DEF RoomsInv, Listings, Chans, LastChan
  <2>6. channels' = channels /\ \A k \in Chans \ {w} : chan'[k] = chan[k]
    BY <1>0, <2>0, <2>1 DEF Adding
  <2> QED  BY <2>5, <2>6 DEF InTheList
<1>2. ASSUME NEW t \in Threads, remove_client_from_channel(t)  PROVE InTheList'
  <2>1. channels' = channels
    BY <1>2 DEF remove_client_from_channel
  <2>2. PICK e, w : e = Client(t) /\ w = Where(t)
    OBVIOUS
  <2>3. e \in Sockets
    BY <1>2, <2>2, ClientKnown DEF Inv, remove_client_from_channel, Doing
  <2>4. w = cur[e]
    BY <1>2, <2>2 DEF remove_client_from_channel, Doing, Where
  <2>5. w <= Len(channels)
    BY <2>3, <2>4 DEF RoomsInv, Listings
  <2>6. \A k \in Chans \ {w} : chan'[k] = chan[k]
    BY <1>0, <1>2, <2>2 DEF remove_client_from_channel
  <2> QED  BY <2>1, <2>5, <2>6 DEF InTheList
<1>3. ASSUME NEW t \in Threads, NewChannel(t)  PROVE InTheList'
  <2>1. chan' = chan /\ Len(channels') = Len(channels) + 1
    BY <1>0, <1>3 DEF NewChannel
  <2> QED  BY <1>0, <2>1 DEF InTheList, Chans, LastChan
<1>4. CASE \A t \in Threads :
             ~add_client(t) /\ ~remove_client_from_channel(t) /\ ~NewChannel(t)
  BY <1>4, OtherSteps DEF InTheList
<1> QED  BY <1>1, <1>2, <1>3, <1>4

\* The pass tells who stays where it is.
LEMMA ToldStep ==
  ASSUME Inv, RoomsInv, ByePass, InTheList, [Next]_vars,
         NEW c \in Sockets, NEW k \in Chans, Stays(c, k), Told(c, k)
  PROVE  Told(c, k)'
<1> DEFINE s == script[UdpThread]
           n == script'[UdpThread]
           i == idx[UdpThread]
<1>0. /\ UdpThread \in Threads /\ s \in Seq(Op) /\ script \in [Threads -> Seq(Op)]
      /\ run \in [Threads -> {"new", "running", "ended"}] /\ idx \in [Threads -> Nat]
      /\ i \in Nat /\ k \in Nat \ {0} /\ Len(channels) \in Nat
  BY DEF Inv, TypeOK, Threads, Chans, LastChan
<1>1. CASE Step(UdpThread) /\ sigint' = sigint
  <2>1. /\ s # << >> /\ Head(s).do = NextCall(UdpThread)
        /\ n = s \/ (n = Tail(s) /\ GoOn(UdpThread) /\ idx'[UdpThread] = 0)
        /\ run'[UdpThread] = "ended" =>
             run[UdpThread] = "ended" \/ Head(s).do = "quit"
    BY <1>0, <1>1, StepFrame DEF GoOn, Idle, NextCall
  <2>2. byed \subseteq byed'
    BY <1>1 DEF Step, add_client, AlreadyListed, ChannelFull, ClientAdded,
                remove_client_from_channel, SendNext, SendDone, NameDiffers, ChannelFound,
                NewChannel, send_to_client, get_udp_msg_clear, get_udp_msg_write,
                remove_udp_user, Quit, ListLocked, ByeToChannel, ByeDone
  <2>3. "quit" \in ToCome(s) =>
          s \in {ByeCalls, ByeAndQuit, JustQuit} /\ c \in Members(chan[k]) /\ ~Overrun
    <3>1. "quit" \in ToCome(s) => run[UdpThread] = "running"
      BY <1>0 DEF RoomsInv, Over, ByePass
    <3> QED  BY <3>1 DEF ByePass, Stays
  <2>4. /\ Head(s).do = "quit" => "quit" \in ToCome(s)
        /\ n = Tail(s) => ToCome(n) \subseteq ToCome(s)
    BY <1>0, <2>1, Remaining DEF RoomsInv, Scripts, RoomCalls
  <2>5. "quit" \in ToCome(JustQuit) /\ "quit" \in ToCome(ByeAndQuit)
    BY QuitIsLeft
  <2>6. s = ByeAndQuit =>
          \/ n = s /\ idx'[UdpThread] = i + 1 /\ Members(chan[i + 1]) \subseteq byed'
          \/ n # s /\ i >= Len(channels)
    <3> SUFFICES ASSUME s = ByeAndQuit
                 PROVE  \/ n = s /\ idx'[UdpThread] = i + 1 /\ Members(chan[i + 1]) \subseteq byed'
                        \/ n # s /\ i >= Len(channels)
      OBVIOUS
    <3>1. Head(script[UdpThread]).do = "byeAll"
      BY Passes
    <3>2. ByeToChannel(UdpThread) \/ ByeDone(UdpThread)
      BY <1>1, <3>1 DEF Step, add_client, AlreadyListed, ChannelFull, ClientAdded,
                        remove_client_from_channel, SendNext, SendDone, NameDiffers,
                        ChannelFound, NewChannel, send_to_client, get_udp_msg_clear,
                        get_udp_msg_write, remove_udp_user, Quit, ListLocked, Doing
    <3>3. CASE ByeToChannel(UdpThread)
      <4>1. Where(UdpThread) = i + 1
        BY <3>1 DEF Where
      <4> QED  BY <1>0, <3>3, <4>1 DEF ByeToChannel
    <3>4. CASE ByeDone(UdpThread)
      <4>1. ~(i < Len(channels))
        BY <2>3, <2>5, <3>1, <3>4 DEF ByeDone, Doing, Locks
      <4>2. n = Tail(s)
        BY <1>0, <3>4 DEF ByeDone, GoOn
      <4>3. n # s
        BY <4>2, Passes
      <4>4. i >= Len(channels)
        BY <1>0, <4>1
      <4> QED  BY <4>3, <4>4
    <3> QED  BY <3>2, <3>3, <3>4
  <2> HIDE DEF s, n, i
  <2>7. ASSUME run'[UdpThread] = "ended"  PROVE c \in byed'
    <3>1. CASE run[UdpThread] = "ended"
      BY <2>2, <3>1 DEF Told
    <3>2. CASE Head(s).do = "quit"
      <4>1. s = JustQuit
        BY <2>3, <2>4, <3>2, Passes
      <4> QED  BY <2>2, <4>1 DEF Told, s
    <3> QED  BY <2>1, <2>7, <3>1, <3>2
  <2>8. ASSUME n = JustQuit  PROVE c \in byed'
    <3>1. CASE n = s
      BY <2>2, <2>8, <3>1 DEF Told, s
    <3>2. CASE n = Tail(s) /\ n # s
      <4>1. s = ByeAndQuit /\ c \in Members(chan[k])
        <5>1. "quit" \in ToCome(s)
          BY <2>4, <2>5, <2>8, <3>2
        <5> QED  BY <2>3, <2>8, <3>2, <5>1, Passes
      <4>2. i >= Len(channels) /\ k <= Len(channels)
        BY <2>6, <3>2, <4>1 DEF InTheList
      <4>3. i >= k
        BY <1>0, <4>2
      <4> QED  BY <2>2, <4>1, <4>3 DEF Told, s, i
    <3> QED  BY <2>1, <3>1, <3>2
  <2>9. ASSUME n = ByeAndQuit, idx'[UdpThread] >= k  PROVE c \in byed'
    <3>1. n = s
      BY <1>0, <2>1, <2>9
    <3>2. idx'[UdpThread] = i + 1 /\ Members(chan[i + 1]) \subseteq byed'
      BY <2>6, <2>9, <3>1
    <3>3. CASE i >= k
      BY <2>2, <2>9, <3>1, <3>3 DEF Told, s, i
    <3>4. CASE i + 1 = k
      BY <2>3, <2>5, <2>9, <3>1, <3>2, <3>4
    <3> QED  BY <1>0, <2>9, <3>2, <3>3, <3>4
  <2> QED  BY <2>7, <2>8, <2>9 DEF Told, n
<1>2. CASE UdpInterrupted
  <2>1. n = ByeCalls /\ run' = run /\ byed' = byed
    BY <1>0, <1>2 DEF UdpInterrupted, Handle, ByeCalls
  <2> QED  BY <2>1, Passes DEF Told
<1>3. CASE /\ \/ n = s /\ idx'[UdpThread] = i
              \/ "quit" \notin ToCome(n)
           /\ run'[UdpThread] = run[UdpThread] /\ byed \subseteq byed'
  <2>1. "quit" \in ToCome(JustQuit) /\ "quit" \in ToCome(ByeAndQuit)
    BY QuitIsLeft
  <2> QED  BY <1>3, <2>1 DEF Told
<1> QED  BY <1>1, <1>2, <1>3, OthersPass

LEMMA PassStart == Init => ByePass /\ InTheList /\ \A c, k : Told(c, k)
<1> SUFFICES ASSUME Init  PROVE ByePass /\ InTheList /\ \A c, k : Told(c, k)
  OBVIOUS
<1>1. /\ script[UdpThread] = << >> /\ run[UdpThread] = "running"
      /\ \A k \in Chans : chan[k].num_users = 0
  BY DEF Init, Threads, EmptyChannel
<1>2. \A k \in Chans : Members(chan[k]) = {}
  BY <1>1 DEF Members, InUse
<1>3. JustQuit # << >> /\ ByeAndQuit # << >>
  BY DEF JustQuit, ByeAndQuit
<1> QED  BY <1>1, <1>2, <1>3, ScriptedForNobody DEF ByePass, InTheList, Told

LEMMA PassHolds == Spec => [](Inv /\ RoomsInv /\ ByePass /\ InTheList)
<1>1. Inv /\ RoomsInv /\ ByePass /\ InTheList /\ [Next]_vars => ByePass' /\ InTheList'
  BY PassStep, ListStep
<1>2. Init => ByePass /\ InTheList
  BY PassStart
<1> QED  BY <1>1, <1>2, RoomsHold, PTL DEF Spec

\* Whoever stays in one channel while the shutdown pass (send_bye_to_all) goes by
\* is sent BYE, whatever the other handlers do to this channel and to others, if
\* they do not overrun the list of channels.
THEOREM ByeReachesWhoStays == Spec => ByeToAllWhoStay
<1>1. ASSUME NEW c \in Sockets, NEW k \in Chans
      PROVE  Spec => ([]Stays(c, k) => [](run[UdpThread] = "ended" /\ server = "up" => c \in byed))
  <2>1. Init => Told(c, k)
    BY PassStart
  <2>2. Inv /\ RoomsInv /\ ByePass /\ InTheList /\ Stays(c, k) /\ Told(c, k) /\ [Next]_vars
          => Told(c, k)'
    BY ToldStep
  <2>3. Told(c, k) => (run[UdpThread] = "ended" /\ server = "up" => c \in byed)
    BY DEF Told
  <2> QED  BY <2>1, <2>2, <2>3, PassHolds, PTL DEF Spec
<1> QED  BY <1>1 DEF ByeToAllWhoStay, Stays
=============================================================================
