--------------------------- MODULE UdpUsers_proof ---------------------------
(***************************************************************************)
(* The list of UDP users: TypeOK, UsersDistinct, EntriesOwned and          *)
(* Undisturbed hold for any number of clients, users and datagrams, in     *)
(* whatever order and however often these come; RightAnswer, for clients   *)
(* on distinct ports, as long as the ids stay below half a byte.           *)
(***************************************************************************)
EXTENDS UdpUsers, SequenceTheorems, TLAPS

-----------------------------------------------------------------------------
(* The inductive invariant.                                                *)

\* A user stays in the list only after an AUTH, and its AUTH put it in a channel.
AllIn == \A i \in DOMAIN users : users[i].client_state = "OPEN" /\ users[i].left.channel \in Names

\* Dynamic ports are not given out again.
Ports ==
  \A i \in DOMAIN users :
    /\ users[i].dynamic_port \in 1 .. born
    /\ \A j \in DOMAIN users : users[i].dynamic_port = users[j].dynamic_port => i = j

\* A client is answered from its own user's dynamic ports alone, and sends there.
Heard ==
  /\ \A p \in Peers : spoke[p] \subseteq 1 .. born /\ known[p] \in {0} \cup spoke[p]
  /\ \A i \in DOMAIN users : \A p \in Peers :
       users[i].dynamic_port \in spoke[p] => users[i].peer = p

OnItsWay ==
  \A d \in net : IF d.to = 0 THEN d.kind \in {"AUTH", "BYE"} ELSE d.to \in spoke[d.peer]

UsersInv ==
  TypeOK /\ UsersDistinct /\ EntriesOwned /\ AllIn /\ Ports /\ Heard /\ OnItsWay

\* The same of any list L that may become the server's, its ports up to b.
Shape(L, b) ==
  /\ L \in Seq(User)
  /\ \A i \in DOMAIN L : L[i].dynamic_port \in 1 .. b
  /\ \A i, j \in DOMAIN L :
       i # j => /\ Port[L[i].peer] # Port[L[j].peer]
                /\ L[i].dyn_socket # L[j].dyn_socket
                /\ L[i].dynamic_port # L[j].dynamic_port

Owned(L, r) ==
  \A n \in Names : \A s :
    s \in r[n] <=> \E i \in DOMAIN L : /\ L[i].dyn_socket = s
                                       /\ L[i].client_state = "OPEN" /\ L[i].left.channel = n

\* The list with the sender of d in it, at i, as Handle gets it.
Ready(L, i, d, b) ==
  /\ Shape(L, b) /\ Owned(L, room) /\ Len(L) <= MaxList /\ i \in DOMAIN L
  /\ d \in net /\ Port[L[i].peer] = Port[d.peer] /\ d.to \in {0, L[i].dynamic_port}
  /\ \A j \in DOMAIN L :
       \/ L[j].client_state = "OPEN" /\ L[j].left.channel \in Names
       \/ j = i /\ L[j].client_state = "ACCEPT" /\ d.kind \in {"AUTH", "BYE"}
  /\ \A j \in DOMAIN L : \A p \in Peers : L[j].dynamic_port \in spoke[p] => L[j].peer = p
  /\ \A j \in DOMAIN users : j \in DOMAIN L /\ L[j] = users[j]
  /\ b \in born .. MaxStarts

-----------------------------------------------------------------------------
(* The operators on the list.                                              *)

\* What is read as an id is a number, and the right one below half a byte.
LEMMA ReadId ==
  ASSUME NEW id \in Nat
  PROVE  Read(id) \in Nat /\ (id < Byte \div 2 => Read(id) = id)
<1> USE UdpUsersAssumption
<1>1. id % Byte \in 0 .. Byte - 1  OBVIOUS
<1>2. Byte \div 2 \in Nat /\ Byte \div 2 <= Byte  OBVIOUS
<1>3. id < Byte => id % Byte = id  OBVIOUS
<1> QED  BY <1>1, <1>2, <1>3 DEF Read

\* The search finds the only user on the port.
LEMMA Found ==
  ASSUME NEW L, NEW b, Shape(L, b), NEW p, NEW i \in DOMAIN L, Port[L[i].peer] = Port[p]
  PROVE  get_user(L, p) = i
<1> DEFINE First(k) == /\ Port[L[k].peer] = Port[p]
                       /\ \A j \in 1 .. k - 1 : Port[L[j].peer] # Port[p]
<1>1. DOMAIN L = 1 .. Len(L) /\ Len(L) \in Nat  BY LenProperties DEF Shape
<1>2. \A k \in DOMAIN L : Port[L[k].peer] = Port[p] => k = i  BY DEF Shape
<1>3. First(i)
  <2> SUFFICES ASSUME NEW j \in 1 .. i - 1 PROVE Port[L[j].peer] # Port[p]  OBVIOUS
  <2>1. j \in DOMAIN L /\ j # i  BY <1>1
  <2> QED  BY <1>2, <2>1
<1>4. \A k \in DOMAIN L : First(k) => k = i  BY <1>2
<1> QED  BY <1>3, <1>4 DEF get_user

\* The entries behind the one that is taken out move down.
LEMMA WithoutProperties ==
  ASSUME NEW S, NEW s \in Seq(S), NEW i \in 1 .. Len(s)
  PROVE  /\ Without(s, i) \in Seq(S)
         /\ Len(Without(s, i)) = Len(s) - 1 /\ DOMAIN Without(s, i) = 1 .. Len(s) - 1
         /\ \A j \in 1 .. Len(s) - 1 : Without(s, i)[j] = s[IF j < i THEN j ELSE j + 1]
<1> DEFINE l == Len(s)
           f == SubSeq(s, 1, i - 1)
           g == SubSeq(s, i + 1, l)
<1>1. l \in Nat /\ DOMAIN s = 1 .. l /\ i \in 1 .. l /\ \A j \in 1 .. l : s[j] \in S
  BY LenProperties, ElementOfSeq
<1>2. /\ f \in Seq(S) /\ Len(f) = i - 1
      /\ \A j \in 1 .. i - 1 : f[j] = s[j]
  <2>1. /\ f \in Seq(S) /\ Len(f) = IF 1 <= i - 1 THEN i - 1 - 1 + 1 ELSE 0
        /\ \A j \in 1 .. i - 1 - 1 + 1 : f[j] = s[1 + j - 1]
    <3>1. 1 \in 1 .. l + 1 /\ i - 1 \in Int /\ \A j \in 1 .. i - 1 : s[j] \in S  BY <1>1
    <3> QED  BY <3>1, SubSeqProperties
  <2> HIDE DEF f, l
  <2>2. (i - 1 - 1 + 1 = i - 1) /\ \A j \in 1 .. i - 1 : 1 + j - 1 = j  BY <1>1
  <2> QED  BY <1>1, <2>1, <2>2
<1>3. /\ g \in Seq(S) /\ Len(g) = l - i
      /\ \A j \in 1 .. l - i : g[j] = s[i + j]
  <2>1. /\ g \in Seq(S) /\ Len(g) = IF i + 1 <= l THEN l - (i + 1) + 1 ELSE 0
        /\ \A j \in 1 .. l - (i + 1) + 1 : g[j] = s[i + 1 + j - 1]
    <3>1. i + 1 \in Nat /\ i + 1 >= 1 /\ \A j \in i + 1 .. l : s[j] \in S  BY <1>1
    <3> QED  BY <3>1, SubSeqProperties
  <2> HIDE DEF g, l
  <2>2. l - (i + 1) + 1 = l - i /\ \A j \in 1 .. l - i : i + 1 + j - 1 = i + j  BY <1>1
  <2> QED  BY <1>1, <2>1, <2>2
<1>4. Without(s, i) = f \o g  BY DEF Without
<1>5. /\ f \o g \in Seq(S) /\ Len(f \o g) = Len(f) + Len(g)
      /\ \A j \in 1 .. Len(f) + Len(g) : (f \o g)[j] = IF j <= Len(f) THEN f[j] ELSE g[j - Len(f)]
  BY <1>2, <1>3, ConcatProperties
<1>6. DOMAIN (f \o g) = 1 .. Len(f \o g)  BY <1>5, LenProperties
<1> HIDE DEF l, f, g
<1>7. Len(f) + Len(g) = l - 1  BY <1>1, <1>2, <1>3
<1>8. ASSUME NEW j \in 1 .. l - 1 PROVE (f \o g)[j] = s[IF j < i THEN j ELSE j + 1]
  <2>1. CASE j < i
    BY <1>1, <1>2, <1>5, <1>7, <2>1
  <2>2. CASE ~(j < i)
    <3>1. ~(j <= i - 1) /\ j - (i - 1) \in 1 .. l - i /\ i + (j - (i - 1)) = j + 1
      BY <1>1, <2>2
    <3> QED  BY <1>2, <1>3, <1>5, <1>7, <2>2, <3>1
  <2> QED  BY <2>1, <2>2
<1> QED  BY <1>4, <1>5, <1>6, <1>7, <1>8 DEF l

-----------------------------------------------------------------------------
(* What a datagram does to the list.                                       *)

LEMMA ListDomains ==
  ASSUME NEW L, NEW b, Shape(L, b)
  PROVE  /\ Len(L) \in Nat /\ DOMAIN L = 1 .. Len(L)
         /\ \A i \in DOMAIN L : L[i] \in User
BY LenProperties, ElementOfSeq DEF Shape

\* A record is written back, its port and its sockets as they were.
LEMMA KeepsShape ==
  ASSUME NEW L, NEW b, Shape(L, b), NEW i \in DOMAIN L, NEW u \in User,
         u.peer = L[i].peer, u.dyn_socket = L[i].dyn_socket, u.dynamic_port = L[i].dynamic_port
  PROVE  /\ Shape([L EXCEPT ![i] = u], b) /\ Len([L EXCEPT ![i] = u]) = Len(L)
         /\ DOMAIN [L EXCEPT ![i] = u] = DOMAIN L
         /\ \A j \in DOMAIN L : [L EXCEPT ![i] = u][j] = IF j = i THEN u ELSE L[j]
<1> DEFINE M == [L EXCEPT ![i] = u]
<1>1. DOMAIN M = DOMAIN L /\ \A j \in DOMAIN L : M[j] = IF j = i THEN u ELSE L[j]
  BY ListDomains
<1>2. M \in Seq(User) /\ Len(M) = Len(L)
  BY ExceptSeq DEF Shape
<1>3. \A j \in DOMAIN L : /\ M[j].peer = L[j].peer /\ M[j].dyn_socket = L[j].dyn_socket
                          /\ M[j].dynamic_port = L[j].dynamic_port
  BY <1>1
<1> HIDE DEF M
<1>4. Shape(M, b)  BY <1>1, <1>2, <1>3 DEF Shape
<1> QED  BY <1>1, <1>2, <1>4 DEF M

\* A user is taken out.
LEMMA ForgetsShape ==
  ASSUME NEW L, NEW b, Shape(L, b), NEW i \in DOMAIN L
  PROVE  /\ Shape(Without(L, i), b) /\ Len(Without(L, i)) <= Len(L)
         /\ \A j \in DOMAIN Without(L, i) :
              \E k \in DOMAIN L \ {i} : Without(L, i)[j] = L[k]
         /\ \A k \in DOMAIN L \ {i} :
              \E j \in DOMAIN Without(L, i) : Without(L, i)[j] = L[k]
<1> DEFINE M == Without(L, i)
           l == Len(L)
           at(j) == IF j < i THEN j ELSE j + 1
<1>1. l \in Nat /\ DOMAIN L = 1 .. l  BY ListDomains
<1>2. /\ M \in Seq(User) /\ Len(M) = l - 1 /\ DOMAIN M = 1 .. l - 1
      /\ \A j \in 1 .. l - 1 : M[j] = L[at(j)]
  <2>1. L \in Seq(User) /\ i \in 1 .. Len(L)  BY <1>1 DEF Shape
  <2> QED  BY <2>1, WithoutProperties
<1> HIDE DEF l, M
<1>3. \A j \in 1 .. l - 1 : at(j) \in DOMAIN L \ {i}
  BY <1>1
<1>4. \A j, k \in 1 .. l - 1 : j # k => at(j) # at(k)
  BY <1>1
<1>5. ASSUME NEW k \in DOMAIN L \ {i} PROVE \E j \in 1 .. l - 1 : at(j) = k
  <2>1. CASE k < i  BY <1>1, <2>1
  <2>2. CASE ~(k < i)
    <3>1. k - 1 \in 1 .. l - 1 /\ ~(k - 1 < i) /\ k - 1 + 1 = k  BY <1>1, <2>2
    <3> QED  BY <3>1
  <2> QED  BY <2>1, <2>2
<1> HIDE DEF at
<1>6. Shape(M, b)
  <2>1. \A j \in DOMAIN M : M[j].dynamic_port \in 1 .. b
    BY <1>2, <1>3 DEF Shape
  <2>2. ASSUME NEW j \in DOMAIN M, NEW k \in DOMAIN M, j # k
        PROVE  /\ Port[M[j].peer] # Port[M[k].peer]
               /\ M[j].dyn_socket # M[k].dyn_socket
               /\ M[j].dynamic_port # M[k].dynamic_port
    BY <1>2, <1>3, <1>4, <2>2 DEF Shape
  <2> QED  BY <1>2, <2>1, <2>2 DEF Shape
<1>7. Len(M) <= l  BY <1>1, <1>2
<1>8. \A j \in DOMAIN M : \E k \in DOMAIN L \ {i} : M[j] = L[k]  BY <1>2, <1>3
<1>9. \A k \in DOMAIN L \ {i} : \E j \in DOMAIN M : M[j] = L[k]  BY <1>2, <1>5
<1> QED  BY <1>6, <1>7, <1>8, <1>9 DEF M, l

\* The three things that become of the sender's user: it is written back, and is
\* then in one channel; it is taken out of its channel and of the list; or the
\* server dies.
Stays(L, i, u) ==
  /\ u \in User /\ u.peer = L[i].peer /\ u.dyn_socket = L[i].dyn_socket
  /\ u.dynamic_port = L[i].dynamic_port
  /\ u.client_state = "OPEN" /\ u.left.channel \in Names
  /\ users' = [L EXCEPT ![i] = u]
  /\ room' \in [Names -> SUBSET Descriptors]
  /\ \A n \in Names : \A s :
       s \in room'[n] <=> \/ s \in room[n] /\ s # u.dyn_socket
                          \/ s = u.dyn_socket /\ n = u.left.channel
  /\ UNCHANGED <<server, freed>>

Goes(L, i) ==
  /\ users' = Without(L, i)
  /\ room' \in [Names -> SUBSET Descriptors]
  /\ \A n \in Names : \A s : s \in room'[n] <=> s \in room[n] /\ s # L[i].dyn_socket
  /\ \E l \in Left : freed' = freed \cup {l}
  /\ UNCHANGED server

\* The answers, and whom they come from.
Speaks(d, u) ==
  /\ out' \subseteq Answer
  /\ spoke' \in {spoke, [spoke EXCEPT ![u.peer] = @ \cup {u.dynamic_port}]}
  /\ \A a \in out' : a.accepted => /\ a.peer = u.peer /\ a.id = Read(d.id) /\ a.about = d
                                   /\ a.dynamic_port = u.dynamic_port

\* The fields of a record, and what assignments to some leave of the others.
LEMMA Records ==
  ASSUME NEW w \in User
  PROVE  /\ w.peer \in Peers /\ w.dyn_socket \in Descriptors /\ w.dynamic_port \in Nat
         /\ w.client_state \in {"ACCEPT", "OPEN"}
         /\ w.left \in Left /\ w.left.id \in Nat
         /\ w.left.channel \in Names \cup {None} /\ w.left.channel_name \in Names \cup {None}
BY DEF User, Left

LEMMA SetId ==
  ASSUME NEW w \in User, NEW k \in Nat
  PROVE  LET u == [w EXCEPT !.left.id = k] IN
         /\ u \in User /\ u.peer = w.peer /\ u.dyn_socket = w.dyn_socket
         /\ u.dynamic_port = w.dynamic_port /\ u.client_state = w.client_state
         /\ u.left.id = k /\ u.left.channel = w.left.channel
         /\ u.left.channel_name = w.left.channel_name
BY DEF User, Left

LEMMA SetChannel ==
  ASSUME NEW w \in User, NEW n \in Names
  PROVE  LET u == [w EXCEPT !.left.channel = n] IN
         /\ u \in User /\ u.peer = w.peer /\ u.dyn_socket = w.dyn_socket
         /\ u.dynamic_port = w.dynamic_port /\ u.client_state = w.client_state
         /\ u.left.channel = n
BY DEF User, Left

LEMMA SetOpen ==
  ASSUME NEW w \in User, NEW k \in Nat
  PROVE  LET u == [w EXCEPT !.client_state = "OPEN", !.left.id = k] IN
         /\ u \in User /\ u.peer = w.peer /\ u.dyn_socket = w.dyn_socket
         /\ u.dynamic_port = w.dynamic_port /\ u.client_state = "OPEN"
         /\ u.left.id = k
BY DEF User, Left

\* The socket of a user is where its record says, and nowhere else.
LEMMA InRooms ==
  ASSUME NEW L, NEW b, NEW d, NEW i, Ready(L, i, d, b), NEW n \in Names
  PROVE  L[i].dyn_socket \in room[n] <=> L[i].client_state = "OPEN" /\ L[i].left.channel = n
<1>1. \A j \in DOMAIN L : L[j].dyn_socket = L[i].dyn_socket => j = i
  BY DEF Ready, Shape
<1> QED  BY <1>1 DEF Ready, Owned

LEMMA SaysSpeaks ==
  ASSUME NEW u \in User, NEW d \in net, net \subseteq Datagram, NEW accepted \in BOOLEAN,
         NEW kinds \in SUBSET {"CONFIRM", "REPLY", "ERR", "BYE"}, Says(u, d, accepted, kinds),
         accepted => u.left.id = Read(d.id)
  PROVE  Speaks(d, u)
<1>1. u.peer \in Peers /\ u.left.id \in Nat /\ u.dynamic_port \in Nat  BY Records
<1>2. d \in Datagram  OBVIOUS
<1>3. out' \subseteq Answer  BY <1>1, <1>2 DEF Says, Answer
<1>4. \A a \in out' : a.accepted => /\ a.peer = u.peer /\ a.id = Read(d.id) /\ a.about = d
                                    /\ a.dynamic_port = u.dynamic_port
  BY DEF Says
<1> QED  BY <1>3, <1>4 DEF Says, Speaks

LEMMA SpeaksSame ==
  ASSUME NEW u, NEW w, NEW d, u.peer = w.peer, u.dynamic_port = w.dynamic_port, Speaks(d, u)
  PROVE  Speaks(d, w)
BY DEF Speaks

\* remove_client_from_channel: L[i]'s socket leaves the channel of its record.
LEMMA LeavesRooms ==
  ASSUME TypeOK, NEW L, NEW b, NEW d, NEW i, Ready(L, i, d, b), L[i].left.channel \in Names
  PROVE  LET r == Leaves(L[i].dyn_socket, room, L[i].left.channel) IN
         /\ r \in [Names -> SUBSET Descriptors]
         /\ \A n \in Names : \A s : s \in r[n] <=> s \in room[n] /\ s # L[i].dyn_socket
<1> DEFINE r == Leaves(L[i].dyn_socket, room, L[i].left.channel)
           c == L[i].left.channel
           t == L[i].dyn_socket
<1>1. room \in [Names -> SUBSET Descriptors]  BY DEF TypeOK
<1>2. \A n \in Names : t \in room[n] => n = c  BY InRooms
<1>3. r = [room EXCEPT ![c] = @ \ {t}]  BY DEF Leaves
<1>4. c \in Names  OBVIOUS
<1> HIDE DEF r, c, t
<1>5. r \in [Names -> SUBSET Descriptors]  BY <1>1, <1>3, <1>4
<1>6. \A n \in Names : r[n] = IF n = c THEN room[c] \ {t} ELSE room[n]  BY <1>1, <1>3, <1>4
<1> HIDE DEF Leaves
<1>7. \A n \in Names : \A s : s \in r[n] <=> s \in room[n] /\ s # t  BY <1>2, <1>6
<1> QED  BY <1>5, <1>7 DEF r, t

\* add_client.
LEMMA EntersRooms ==
  ASSUME NEW r \in [Names -> SUBSET Descriptors], NEW s \in Descriptors, NEW c \in Names,
         Enters(s, r, c)
  PROVE  /\ room' \in [Names -> SUBSET Descriptors]
         /\ \A n \in Names : \A t : t \in room'[n] <=> t \in r[n] \/ (t = s /\ n = c)
<1>1. room' = [r EXCEPT ![c] = @ \cup {s}]  BY DEF Enters
<1>2. room' \in [Names -> SUBSET Descriptors]  BY <1>1
<1>3. \A n \in Names : room'[n] = IF n = c THEN r[c] \cup {s} ELSE r[n]  BY <1>1
<1> QED  BY <1>2, <1>3

\* What Ready says of the sender's record.
LEMMA Sender ==
  ASSUME TypeOK, NEW L, NEW b, NEW d, NEW i, Ready(L, i, d, b)
  PROVE  /\ L[i] \in User /\ i \in DOMAIN L
         /\ d \in net /\ net \subseteq Datagram /\ d.id \in Nat /\ d.name \in Names \cup {None}
         /\ Read(d.id) \in Nat
         /\ \/ L[i].client_state = "OPEN" /\ L[i].left.channel \in Names
            \/ L[i].client_state = "ACCEPT" /\ d.kind \in {"AUTH", "BYE"}
<1>1. d \in net /\ net \subseteq Datagram /\ i \in DOMAIN L /\ L[i] \in User
  BY ListDomains DEF Ready, TypeOK
<1>2. d.id \in 0 .. MaxSent /\ d.name \in Names \cup {None}  BY <1>1 DEF Datagram
<1>3. d.id \in Nat  BY <1>2, UdpUsersAssumption
<1> QED  BY <1>1, <1>2, <1>3, ReadId DEF Ready

LEMMA AuthOutcome ==
  ASSUME TypeOK, NEW L, NEW b, NEW d, NEW i, Ready(L, i, d, b), Auth(d, L, i)
  PROVE  (Dies \/ \E u : Stays(L, i, u)) /\ Speaks(d, L[i])
<1> DEFINE u == [L[i] EXCEPT !.client_state = "OPEN", !.left.id = Read(d.id)]
           v == [u EXCEPT !.left.channel = General]
<1>1. L[i] \in User /\ d \in net /\ net \subseteq Datagram /\ Read(d.id) \in Nat
  BY Sender
<1>2. /\ u \in User /\ u.peer = L[i].peer /\ u.dyn_socket = L[i].dyn_socket
      /\ u.dynamic_port = L[i].dynamic_port /\ u.client_state = "OPEN" /\ u.left.id = Read(d.id)
  BY <1>1, SetOpen
<1>3. /\ L[i].client_state = "ACCEPT" /\ Says(u, d, TRUE, {"CONFIRM", "REPLY"})
      /\ \/ Dies
         \/ /\ Enters(u.dyn_socket, room, General)
            /\ Keeps(L, i, v) /\ UNCHANGED server
  BY DEF Auth
<1> HIDE DEF u
<1>4. /\ v \in User /\ v.peer = u.peer /\ v.dyn_socket = u.dyn_socket
      /\ v.dynamic_port = u.dynamic_port /\ v.client_state = "OPEN" /\ v.left.channel = General
  BY <1>2, SetChannel, UdpUsersAssumption
<1> HIDE DEF v
<1>5. Speaks(d, L[i])
  <2>1. Speaks(d, u)  BY <1>1, <1>2, <1>3, SaysSpeaks
  <2> QED  BY <1>2, <2>1, SpeaksSame
<1>6. ASSUME Enters(u.dyn_socket, room, General), Keeps(L, i, v), UNCHANGED server
      PROVE  Stays(L, i, v)
  <2>1. /\ room' \in [Names -> SUBSET Descriptors]
        /\ \A n \in Names : \A t : t \in room'[n] <=> t \in room[n] \/ (t = u.dyn_socket /\ n = General)
    <3>1. u.dyn_socket \in Descriptors /\ room \in [Names -> SUBSET Descriptors] /\ General \in Names
      BY <1>2, Records, UdpUsersAssumption DEF TypeOK
    <3> QED  BY <1>6, <3>1, EntersRooms
  <2>2. \A n \in Names : u.dyn_socket \notin room[n]  BY <1>2, <1>3, InRooms
  <2> QED  BY <1>2, <1>4, <1>6, <2>1, <2>2, UdpUsersAssumption DEF Stays, Keeps
<1> QED  BY <1>3, <1>5, <1>6

\* The branch of JOIN, for a user that is in a channel.
LEMMA JoinsOutcome ==
  ASSUME TypeOK, NEW L, NEW b, NEW d, NEW i, Ready(L, i, d, b), L[i].client_state = "OPEN",
         NEW u \in User, u.peer = L[i].peer, u.dyn_socket = L[i].dyn_socket,
         u.dynamic_port = L[i].dynamic_port, u.client_state = "OPEN",
         u.left.channel = L[i].left.channel,
         NEW accepted \in BOOLEAN, accepted => u.left.id = Read(d.id), Joins(d, L, i, u, accepted)
  PROVE  (Dies \/ \E v : Stays(L, i, v)) /\ Speaks(d, L[i])
<1> DEFINE n == u.left.channel_name
           v == [u EXCEPT !.left.channel = n]
           r == Leaves(u.dyn_socket, room, u.left.channel)
<1>1. d \in net /\ net \subseteq Datagram /\ L[i].left.channel \in Names  BY Sender
<1>2. /\ Says(u, d, accepted, {"CONFIRM"}) \/ Says(u, d, accepted, {"CONFIRM", "REPLY"})
      /\ \/ Dies
         \/ n # None /\ Enters(u.dyn_socket, r, n) /\ Keeps(L, i, v) /\ UNCHANGED server
  BY DEF Joins
<1>3. Speaks(d, L[i])
  <2>1. Speaks(d, u)  BY <1>1, <1>2, SaysSpeaks
  <2> QED  BY <2>1, SpeaksSame
<1>4. ASSUME n # None, Enters(u.dyn_socket, r, n), Keeps(L, i, v), UNCHANGED server
      PROVE  Stays(L, i, v)
  <2>1. n \in Names /\ u.dyn_socket \in Descriptors  BY <1>4, Records
  <2> HIDE DEF n
  <2>2. /\ v \in User /\ v.peer = u.peer /\ v.dyn_socket = u.dyn_socket
        /\ v.dynamic_port = u.dynamic_port /\ v.client_state = "OPEN" /\ v.left.channel = n
    BY <2>1, SetChannel
  <2>3. /\ r \in [Names -> SUBSET Descriptors]
        /\ \A m \in Names : \A s : s \in r[m] <=> s \in room[m] /\ s # L[i].dyn_socket
    BY <1>1, LeavesRooms
  <2> HIDE DEF r, v
  <2>4. /\ room' \in [Names -> SUBSET Descriptors]
        /\ \A m \in Names : \A t : t \in room'[m] <=> t \in r[m] \/ (t = u.dyn_socket /\ m = n)
    BY <1>4, <2>1, <2>3, EntersRooms
  <2> QED  BY <1>4, <2>1, <2>2, <2>3, <2>4 DEF Stays, Keeps
<1> QED  BY <1>2, <1>3, <1>4

LEMMA JoinOutcome ==
  ASSUME TypeOK, NEW L, NEW b, NEW d, NEW i, Ready(L, i, d, b), Join(d, L, i) \/ Refused(d, L, i)
  PROVE  (Dies \/ \E v : Stays(L, i, v)) /\ Speaks(d, L[i])
<1>1. L[i] \in User /\ Read(d.id) \in Nat /\ d.name \in Names \cup {None}  BY Sender
<1>2. CASE Join(d, L, i)
  <2> DEFINE u == [L[i] EXCEPT !.left.id = Read(d.id), !.left.channel_name = d.name]
  <2>1. L[i].client_state = "OPEN" /\ Joins(d, L, i, u, TRUE)  BY <1>2 DEF Join
  <2>2. /\ u \in User /\ u.peer = L[i].peer /\ u.dyn_socket = L[i].dyn_socket
        /\ u.dynamic_port = L[i].dynamic_port /\ u.client_state = L[i].client_state
        /\ u.left.id = Read(d.id) /\ u.left.channel = L[i].left.channel
    BY <1>1 DEF User, Left
  <2> HIDE DEF u
  <2> QED  BY <2>1, <2>2, JoinsOutcome
<1>3. CASE Refused(d, L, i)
  <2>1. L[i].client_state = "OPEN"  BY <1>3, Sender DEF Refused
  <2>2. Joins(d, L, i, L[i], FALSE)  BY <1>3 DEF Refused
  <2> QED  BY <1>1, <2>1, <2>2, JoinsOutcome
<1> QED  BY <1>2, <1>3

LEMMA MsgOutcome ==
  ASSUME TypeOK, NEW L, NEW b, NEW d, NEW i, Ready(L, i, d, b), Msg(d, L, i) \/ Confirm(d, L, i)
  PROVE  (Dies \/ \E u : Stays(L, i, u)) /\ Speaks(d, L[i])
<1> DEFINE u == [L[i] EXCEPT !.left.id = Read(d.id)]
<1>1. /\ L[i] \in User /\ d \in net /\ net \subseteq Datagram /\ Read(d.id) \in Nat
      /\ L[i].client_state = "OPEN" /\ L[i].left.channel \in Names
  BY Sender DEF Msg, Confirm
<1>2. /\ u \in User /\ u.peer = L[i].peer /\ u.dyn_socket = L[i].dyn_socket
      /\ u.dynamic_port = L[i].dynamic_port /\ u.client_state = "OPEN" /\ u.left.id = Read(d.id)
      /\ u.left.channel = L[i].left.channel
  BY <1>1, SetId
<1>3. /\ Says(u, d, TRUE, {"CONFIRM"}) \/ (out' = {} /\ spoke' = spoke)
      /\ Dies \/ (Keeps(L, i, u) /\ UNCHANGED <<server, room>>)
  BY DEF Msg, Confirm
<1> HIDE DEF u
<1>4. Speaks(d, L[i])
  <2>1. CASE Says(u, d, TRUE, {"CONFIRM"})
    <3>1. Speaks(d, u)  BY <1>1, <1>2, <2>1, SaysSpeaks
    <3> QED  BY <1>2, <3>1, SpeaksSame
  <2>2. CASE out' = {} /\ spoke' = spoke  BY <2>2 DEF Speaks
  <2> QED  BY <1>3, <2>1, <2>2
<1>5. ASSUME Keeps(L, i, u), UNCHANGED <<server, room>> PROVE Stays(L, i, u)
  <2>1. \A n \in Names : L[i].dyn_socket \in room[n] <=> n = L[i].left.channel
    BY <1>1, InRooms
  <2>2. room' = room /\ room \in [Names -> SUBSET Descriptors]  BY <1>5 DEF TypeOK
  <2> QED  BY <1>1, <1>2, <1>5, <2>1, <2>2 DEF Stays, Keeps
<1> QED  BY <1>3, <1>4, <1>5

LEMMA ByeOutcome ==
  ASSUME TypeOK, NEW L, NEW b, NEW d, NEW i, Ready(L, i, d, b), Bye(d, L, i) \/ End(d, L, i)
  PROVE  (Dies \/ Goes(L, i)) /\ Speaks(d, L[i])
<1>1. /\ L[i] \in User /\ d \in net /\ net \subseteq Datagram /\ Read(d.id) \in Nat
      /\ L[i].left.channel \in Names \cup {None}
  BY Sender, Records
<1>2. ASSUME NEW u \in User, u.dyn_socket = L[i].dyn_socket,
             u.left.channel = L[i].left.channel, u.left.channel # None, Forgets(L, i, u)
      PROVE  Goes(L, i)
  <2>1. L[i].left.channel \in Names  BY <1>1, <1>2
  <2>2. LET r == Leaves(L[i].dyn_socket, room, L[i].left.channel) IN
         /\ r \in [Names -> SUBSET Descriptors]
         /\ \A n \in Names : \A s : s \in r[n] <=> s \in room[n] /\ s # L[i].dyn_socket
    BY <2>1, LeavesRooms
  <2>3. room' = Leaves(L[i].dyn_socket, room, L[i].left.channel)  BY <1>2 DEF Forgets
  <2>4. u.left \in Left  BY Records
  <2> QED  BY <1>2, <2>2, <2>3, <2>4 DEF Goes, Forgets
<1>3. CASE Bye(d, L, i)
  <2> DEFINE u == [L[i] EXCEPT !.left.id = Read(d.id)]
  <2>1. /\ u \in User /\ u.peer = L[i].peer /\ u.dyn_socket = L[i].dyn_socket
        /\ u.dynamic_port = L[i].dynamic_port /\ u.left.id = Read(d.id)
        /\ u.left.channel = L[i].left.channel
    BY <1>1, SetId
  <2>2. /\ Says(u, d, TRUE, {"CONFIRM"})
        /\ Dies \/ (u.left.channel # None /\ Forgets(L, i, u))
    BY <1>3 DEF Bye, Alone
  <2> HIDE DEF u
  <2>3. Speaks(d, u)  BY <1>1, <2>1, <2>2, SaysSpeaks
  <2> QED  BY <1>2, <2>1, <2>2, <2>3, SpeaksSame
<1>4. CASE End(d, L, i)
  <2>1. /\ Says(L[i], d, FALSE, {"CONFIRM", IF d.kind = "ERR" THEN "BYE" ELSE "ERR"})
        /\ Dies \/ (L[i].left.channel # None /\ Forgets(L, i, L[i]))
    BY <1>4 DEF End
  <2>2. {"CONFIRM", IF d.kind = "ERR" THEN "BYE" ELSE "ERR"} \subseteq {"CONFIRM", "REPLY", "ERR", "BYE"}
    OBVIOUS
  <2>3. Speaks(d, L[i])  BY <1>1, <2>1, <2>2, SaysSpeaks
  <2> QED  BY <1>1, <1>2, <2>1, <2>3
<1> QED  BY <1>3, <1>4

LEMMA Outcome ==
  ASSUME TypeOK, NEW L, NEW b, NEW d, NEW i, Ready(L, i, d, b), Handle(d, L, i)
  PROVE  (Dies \/ (\E u : Stays(L, i, u)) \/ Goes(L, i)) /\ Speaks(d, L[i])
BY AuthOutcome, JoinOutcome, MsgOutcome, ByeOutcome DEF Handle

-----------------------------------------------------------------------------
(* The invariant is kept.                                                  *)

LEMMA Bridge ==
  ASSUME TypeOK
  PROVE  /\ EntriesOwned <=> (server = "up" => Owned(users, room))
         /\ UsersDistinct /\ Ports <=> Shape(users, born)
<1>1. \A n \in Names : \A s : s \in {users[i].dyn_socket : i \in In(n)} <=>
        \E i \in DOMAIN users : /\ users[i].dyn_socket = s
                                /\ users[i].client_state = "OPEN" /\ users[i].left.channel = n
  BY DEF In
<1>2. EntriesOwned <=> (server = "up" => Owned(users, room))
  BY <1>1 DEF EntriesOwned, Owned
<1>3. UsersDistinct /\ Ports <=> Shape(users, born)
  BY DEF TypeOK, UsersDistinct, Ports, Shape
<1> QED  BY <1>2, <1>3

\* The list after the datagram.
LEMMA NewList ==
  ASSUME UsersInv, NEW L, NEW b, NEW d, NEW i, Ready(L, i, d, b), Handle(d, L, i)
  PROVE  /\ Shape(users', b) /\ Len(users') <= MaxList
         /\ \A j \in DOMAIN users' :
              /\ users'[j].client_state = "OPEN" /\ users'[j].left.channel \in Names
              /\ \E k \in DOMAIN L : /\ users'[j].peer = L[k].peer
                                     /\ users'[j].dynamic_port = L[k].dynamic_port
                                     /\ k = i \/ users'[j] = L[k]
         /\ server' \in {"up", "down"} /\ (server' = "up" => Owned(users', room'))
         /\ room' \in [Names -> SUBSET Descriptors] /\ freed' \subseteq Left
         /\ Speaks(d, L[i])
<1>1. /\ TypeOK /\ Shape(L, b) /\ i \in DOMAIN L /\ Len(L) <= MaxList /\ Owned(L, room)
      /\ \A j \in DOMAIN L \ {i} : L[j].client_state = "OPEN" /\ L[j].left.channel \in Names
      /\ \A j, k \in DOMAIN L : L[j].dyn_socket = L[k].dyn_socket => j = k
  BY DEF UsersInv, Ready, Shape
<1>2. Speaks(d, L[i]) /\ (Dies \/ (\E u : Stays(L, i, u)) \/ Goes(L, i))
  BY <1>1, Outcome
<1>3. CASE Dies
  <2>1. /\ UNCHANGED <<users, room, freed>> /\ server' = "down"  BY <1>3 DEF Dies
  <2>2. Shape(users, b)
    <3>1. Shape(users, born)  BY Bridge DEF UsersInv
    <3>2. born \in Nat /\ b \in Nat /\ born <= b  BY UdpUsersAssumption DEF UsersInv, TypeOK, Ready
    <3> QED  BY <3>1, <3>2 DEF Shape
  <2>3. \A j \in DOMAIN users : j \in DOMAIN L /\ L[j] = users[j]  BY DEF Ready
  <2> QED  BY <1>2, <2>1, <2>2, <2>3 DEF UsersInv, TypeOK, AllIn
<1>4. CASE \E u : Stays(L, i, u)
  <2>0. PICK u : Stays(L, i, u)  BY <1>4
  <2>1. /\ Shape(users', b) /\ Len(users') = Len(L) /\ DOMAIN users' = DOMAIN L
        /\ \A j \in DOMAIN L : users'[j] = IF j = i THEN u ELSE L[j]
    BY <1>1, <2>0, KeepsShape DEF Stays
  <2>2. /\ u.client_state = "OPEN" /\ u.left.channel \in Names /\ u.peer = L[i].peer
        /\ u.dynamic_port = L[i].dynamic_port /\ u.dyn_socket = L[i].dyn_socket
        /\ \A n \in Names : \A s :
             s \in room'[n] <=> \/ s \in room[n] /\ s # u.dyn_socket
                                \/ s = u.dyn_socket /\ n = u.left.channel
    BY <2>0 DEF Stays
  <2>3. ASSUME NEW n \in Names, NEW s
        PROVE  s \in room'[n] <=> \E j \in DOMAIN users' :
                  /\ users'[j].dyn_socket = s
                  /\ users'[j].client_state = "OPEN" /\ users'[j].left.channel = n
    <3>1. s \in room[n] <=> \E j \in DOMAIN L :
             /\ L[j].dyn_socket = s /\ L[j].client_state = "OPEN" /\ L[j].left.channel = n
      BY <1>1 DEF Owned
    <3>2. CASE s = L[i].dyn_socket
      BY <1>1, <2>1, <2>2, <3>2
    <3>3. CASE s # L[i].dyn_socket
      BY <1>1, <2>1, <2>2, <3>1, <3>3
    <3> QED  BY <3>2, <3>3
  <2>4. \A j \in DOMAIN users' :
              /\ users'[j].client_state = "OPEN" /\ users'[j].left.channel \in Names
              /\ \E k \in DOMAIN L : /\ users'[j].peer = L[k].peer
                                     /\ users'[j].dynamic_port = L[k].dynamic_port
                                     /\ k = i \/ users'[j] = L[k]
    BY <1>1, <2>1, <2>2
  <2>5. Owned(users', room')  BY <2>3 DEF Owned
  <2>6. server' \in {"up", "down"} /\ room' \in [Names -> SUBSET Descriptors] /\ freed' \subseteq Left
    BY <1>1, <2>0 DEF Stays, TypeOK
  <2> QED  BY <1>1, <1>2, <2>1, <2>4, <2>5, <2>6
<1>5. CASE Goes(L, i)
  <2>1. /\ Shape(users', b) /\ Len(users') <= Len(L)
        /\ \A j \in DOMAIN users' : \E k \in DOMAIN L \ {i} : users'[j] = L[k]
        /\ \A k \in DOMAIN L \ {i} : \E j \in DOMAIN users' : users'[j] = L[k]
    BY <1>1, <1>5, ForgetsShape DEF Goes
  <2>2. /\ \A n \in Names : \A s : s \in room'[n] <=> s \in room[n] /\ s # L[i].dyn_socket
        /\ server' = server /\ room' \in [Names -> SUBSET Descriptors]
    BY <1>5 DEF Goes
  <2>3. ASSUME NEW n \in Names, NEW s
        PROVE  s \in room'[n] <=> \E j \in DOMAIN users' :
                  /\ users'[j].dyn_socket = s
                  /\ users'[j].client_state = "OPEN" /\ users'[j].left.channel = n
    <3>1. s \in room[n] <=> \E j \in DOMAIN L :
             /\ L[j].dyn_socket = s /\ L[j].client_state = "OPEN" /\ L[j].left.channel = n
      BY <1>1 DEF Owned
    <3>2. ASSUME s \in room'[n]
          PROVE  \E j \in DOMAIN users' :
                    /\ users'[j].dyn_socket = s
                    /\ users'[j].client_state = "OPEN" /\ users'[j].left.channel = n
      <4>1. s \in room[n] /\ s # L[i].dyn_socket  BY <2>2, <3>2
      <4>2. PICK k \in DOMAIN L :
               /\ L[k].dyn_socket = s /\ L[k].client_state = "OPEN" /\ L[k].left.channel = n
        BY <3>1, <4>1
      <4>3. k \in DOMAIN L \ {i}  BY <4>1, <4>2
      <4>4. PICK j \in DOMAIN users' : users'[j] = L[k]  BY <2>1, <4>3
      <4> QED  BY <4>2, <4>4
    <3>3. ASSUME NEW j \in DOMAIN users', users'[j].dyn_socket = s,
                 users'[j].client_state = "OPEN", users'[j].left.channel = n
          PROVE  s \in room'[n]
      <4>1. PICK k \in DOMAIN L \ {i} : users'[j] = L[k]  BY <2>1
      <4>2. s # L[i].dyn_socket  BY <1>1, <3>3, <4>1
      <4> QED  BY <2>2, <3>1, <3>3, <4>1, <4>2
    <3> QED  BY <3>2, <3>3
  <2>4. Len(users') <= MaxList
    <3>1. Len(users') \in Nat /\ Len(L) \in Nat  BY <1>1, <2>1, ListDomains
    <3> QED  BY <1>1, <2>1, <3>1, UdpUsersAssumption
  <2>5. freed' \subseteq Left  BY <1>1, <1>5 DEF Goes, TypeOK
  <2>6. \A j \in DOMAIN users' :
              /\ users'[j].client_state = "OPEN" /\ users'[j].left.channel \in Names
              /\ \E k \in DOMAIN L : /\ users'[j].peer = L[k].peer
                                     /\ users'[j].dynamic_port = L[k].dynamic_port
                                     /\ k = i \/ users'[j] = L[k]
    <3> SUFFICES ASSUME NEW j \in DOMAIN users'
                 PROVE  /\ users'[j].client_state = "OPEN" /\ users'[j].left.channel \in Names
                        /\ \E k \in DOMAIN L : /\ users'[j].peer = L[k].peer
                                               /\ users'[j].dynamic_port = L[k].dynamic_port
                                               /\ k = i \/ users'[j] = L[k]
      OBVIOUS
    <3>1. PICK k \in DOMAIN L \ {i} : users'[j] = L[k]  BY <2>1
    <3> QED  BY <1>1, <3>1
  <2>7. Owned(users', room')  BY <2>3 DEF Owned
  <2>8. server' \in {"up", "down"}  BY <1>1, <2>2 DEF TypeOK
  <2> QED  BY <1>2, <2>1, <2>2, <2>4, <2>5, <2>6, <2>7, <2>8
<1> QED  BY <1>2, <1>3, <1>4, <1>5

LEMMA HandleInv ==
  ASSUME UsersInv, NEW L, NEW b, NEW d, NEW i, Ready(L, i, d, b), Handle(d, L, i),
         born' = b, UNCHANGED <<net, sent, known>>
  PROVE  UsersInv'
<1>1. /\ Shape(users', b) /\ Len(users') <= MaxList
      /\ \A j \in DOMAIN users' :
              /\ users'[j].client_state = "OPEN" /\ users'[j].left.channel \in Names
              /\ \E k \in DOMAIN L : /\ users'[j].peer = L[k].peer
                                     /\ users'[j].dynamic_port = L[k].dynamic_port
      /\ server' \in {"up", "down"} /\ (server' = "up" => Owned(users', room'))
      /\ room' \in [Names -> SUBSET Descriptors] /\ freed' \subseteq Left
      /\ Speaks(d, L[i])
  BY NewList
<1>2. /\ TypeOK /\ i \in DOMAIN L /\ L[i] \in User /\ L[i].peer \in Peers
      /\ L[i].dynamic_port \in 1 .. b /\ born \in Nat /\ b \in Nat /\ born <= b /\ b <= MaxStarts
      /\ MaxStarts \in Nat
  BY Sender, Records, UdpUsersAssumption DEF UsersInv, TypeOK, Ready, Shape
<1>3. /\ \A p \in Peers : spoke[p] \subseteq spoke'[p] /\ spoke'[p] \subseteq 1 .. b
      /\ spoke' \in [Peers -> SUBSET (1 .. MaxStarts)]
      /\ \A p \in Peers : \A k \in spoke'[p] :
           k \in spoke[p] \/ (k = L[i].dynamic_port /\ p = L[i].peer)
  <2>1. spoke \in [Peers -> SUBSET (1 .. MaxStarts)] /\ \A p \in Peers : spoke[p] \subseteq 1 .. born
    BY <1>2 DEF TypeOK, UsersInv, Heard
  <2>2. \A p \in Peers : spoke[p] \subseteq 1 .. b  BY <1>2, <2>1
  <2>3. L[i].dynamic_port \in 1 .. MaxStarts  BY <1>2
  <2>4. CASE spoke' = spoke  BY <2>1, <2>2, <2>4
  <2>5. CASE spoke' = [spoke EXCEPT ![L[i].peer] = @ \cup {L[i].dynamic_port}]
    <3>1. \A p \in Peers : spoke'[p] = IF p = L[i].peer THEN spoke[p] \cup {L[i].dynamic_port}
                                                        ELSE spoke[p]
      BY <1>2, <2>1, <2>5
    <3>2. spoke' \in [Peers -> SUBSET (1 .. MaxStarts)]  BY <1>2, <2>1, <2>3, <2>5
    <3> QED  BY <1>2, <2>2, <3>1, <3>2
  <2> QED  BY <1>1, <2>4, <2>5 DEF Speaks
<1>4. TypeOK'
  BY <1>1, <1>2, <1>3 DEF TypeOK, Shape, Speaks
<1>5. UsersDistinct' /\ Ports' /\ EntriesOwned'
  <2>1. (UsersDistinct /\ Ports)'
    BY <1>1 DEF Shape, UsersDistinct, Ports
  <2>2. EntriesOwned'
    <3>1. \A n \in Names : \A s : s \in {users'[j].dyn_socket : j \in In(n)'} <=>
        \E j \in DOMAIN users' : /\ users'[j].dyn_socket = s
                                 /\ users'[j].client_state = "OPEN" /\ users'[j].left.channel = n
      BY DEF In
    <3>2. ASSUME server' = "up", NEW n \in Names
          PROVE  room'[n] = {users'[j].dyn_socket : j \in In(n)'}
      <4>1. ASSUME NEW s PROVE s \in room'[n] <=> s \in {users'[j].dyn_socket : j \in In(n)'}
        <5>1. s \in room'[n] <=>
                \E j \in DOMAIN users' : /\ users'[j].dyn_socket = s
                                         /\ users'[j].client_state = "OPEN" /\ users'[j].left.channel = n
          BY <1>1, <3>2 DEF Owned
        <5> QED  BY <3>1, <5>1
      <4>2. room'[n] \subseteq {users'[j].dyn_socket : j \in In(n)'}
            /\ {users'[j].dyn_socket : j \in In(n)'} \subseteq room'[n]
        BY <4>1, Zenon
      <4> QED  BY <4>2, Zenon
    <3> QED  BY <3>2 DEF EntriesOwned
  <2> QED  BY <2>1, <2>2
<1>6. AllIn'  BY <1>1 DEF AllIn
<1>7. Heard'
  <2>1. \A p \in Peers : spoke'[p] \subseteq 1 .. born' /\ known'[p] \in {0} \cup spoke'[p]
    BY <1>3 DEF UsersInv, Heard
  <2>2. ASSUME NEW j \in DOMAIN users', NEW p \in Peers, users'[j].dynamic_port \in spoke'[p]
        PROVE  users'[j].peer = p
    <3>1. PICK k \in DOMAIN L : /\ users'[j].peer = L[k].peer
                                /\ users'[j].dynamic_port = L[k].dynamic_port
      BY <1>1
    <3>2. CASE L[k].dynamic_port \in spoke[p]  BY <3>1, <3>2 DEF Ready
    <3>3. CASE L[k].dynamic_port = L[i].dynamic_port /\ p = L[i].peer
      <4>1. k = i  BY <1>2, <3>3 DEF Ready, Shape
      <4> QED  BY <3>1, <3>3, <4>1
    <3> QED  BY <1>3, <2>2, <3>1, <3>2, <3>3
  <2> QED  BY <2>1, <2>2 DEF Heard
<1>8. OnItsWay'
  <2>1. \A m \in net : m.peer \in Peers  BY <1>2 DEF TypeOK, Datagram
  <2> QED  BY <1>3, <2>1 DEF UsersInv, OnItsWay
<1> QED  BY <1>4, <1>5, <1>6, <1>7, <1>8 DEF UsersInv

-----------------------------------------------------------------------------
(* The loop: the list as a datagram finds it.                              *)

LEMMA FoundDynamic ==
  ASSUME UsersInv, NEW d \in net, OnDynamic(d)
  PROVE  Ready(users, get_user(users, d.peer), d, born)
<1>1. PICK i \in DOMAIN users : users[i].dynamic_port = d.to  BY DEF OnDynamic
<1>2. TypeOK /\ Shape(users, born) /\ Owned(users, room) /\ server = "up"
  BY Bridge DEF UsersInv, OnDynamic
<1>3. d \in Datagram /\ born \in 0 .. MaxStarts /\ MaxStarts \in Nat
  BY <1>2, UdpUsersAssumption DEF TypeOK
<1>4. users[i].dynamic_port \in 1 .. born /\ users[i].dynamic_port # 0
  BY <1>2, <1>3 DEF Shape
<1>5. d.to \in spoke[d.peer] /\ d.peer \in Peers
  BY <1>1, <1>3, <1>4 DEF UsersInv, OnItsWay, Datagram
<1>6. users[i].peer = d.peer  BY <1>1, <1>5 DEF UsersInv, Heard
<1>7. get_user(users, d.peer) = i  BY <1>2, <1>6, Found
<1>8. born \in born .. MaxStarts  BY <1>3
<1>9. Ready(users, i, d, born)
  BY <1>1, <1>2, <1>6, <1>8 DEF Ready, UsersInv, AllIn, Heard, TypeOK
<1> QED  BY <1>7, <1>9

\* What add_user puts at the end of the list.
LEMMA MadeBy ==
  ASSUME NEW p, NEW L \in NewUsers(p)
  PROVE  \E s \in Descriptors \ {users[i].dyn_socket : i \in DOMAIN users}, l \in freed \cup {Unset} :
           L = Append(users, [peer |-> p, dyn_socket |-> s, dynamic_port |-> born + 1,
                              client_state |-> "ACCEPT", left |-> l])
<1> DEFINE S == Descriptors \ {users[i].dyn_socket : i \in DOMAIN users}
           K == freed \cup {Unset}
           new(s, l) == Append(users, [peer |-> p, dyn_socket |-> s, dynamic_port |-> born + 1,
                                       client_state |-> "ACCEPT", left |-> l])
<1>1. NewUsers(p) = {new(s, l) : s \in S, l \in K}  BY DEF NewUsers
<1>2. \E s \in S, l \in K : L = new(s, l)
  <2> HIDE DEF S, K, new
  <2> QED  BY <1>1
<1> QED  BY <1>2

LEMMA FoundDefault ==
  ASSUME UsersInv, NEW d \in net, OnDefault(d), NEW L \in add_user(d.peer)
  PROVE  Ready(L, get_user(L, d.peer), d, born')
<1>1. TypeOK /\ Shape(users, born) /\ Owned(users, room) /\ server = "up"
  BY Bridge DEF UsersInv, OnDefault
<1>2. /\ d \in Datagram /\ born \in 0 .. MaxStarts /\ MaxStarts \in Nat /\ d.peer \in Peers
      /\ d.to = 0 /\ d.kind \in {"AUTH", "BYE"}
  BY <1>1, UdpUsersAssumption DEF TypeOK, Datagram, OnDefault, UsersInv, OnItsWay
<1>3. CASE At(d.peer) # {}
  <2>1. PICK i \in DOMAIN users : Port[users[i].peer] = Port[d.peer]  BY <1>3 DEF At
  <2>2. L = users /\ born' = born  BY <1>3 DEF add_user, OnDefault
  <2>3. get_user(users, d.peer) = i  BY <1>1, <2>1, Found
  <2>4. born \in born .. MaxStarts  BY <1>2
  <2>5. Ready(users, i, d, born)
    BY <1>1, <1>2, <2>1, <2>4 DEF Ready, UsersInv, AllIn, Heard, TypeOK
  <2> QED  BY <2>2, <2>3, <2>5
<1>4. CASE At(d.peer) = {}
  <2> DEFINE l == Len(users)
  <2>1. /\ L \in NewUsers(d.peer) /\ born' = born + 1 /\ born < MaxStarts /\ l < MaxList
    BY <1>4 DEF add_user, OnDefault
  <2>2. PICK s \in Descriptors \ {users[i].dyn_socket : i \in DOMAIN users}, k \in freed \cup {Unset} :
          L = Append(users, [peer |-> d.peer, dyn_socket |-> s, dynamic_port |-> born + 1,
                             client_state |-> "ACCEPT", left |-> k])
    BY <2>1, MadeBy
  <2> DEFINE w == [peer |-> d.peer, dyn_socket |-> s, dynamic_port |-> born + 1,
                   client_state |-> "ACCEPT", left |-> k]
  <2>3. k \in Left  BY <1>1 DEF TypeOK, Unset, Left
  <2>4. w \in User /\ w.peer = d.peer /\ w.dyn_socket = s /\ w.dynamic_port = born + 1
        /\ w.client_state = "ACCEPT"
    BY <1>2, <2>3 DEF User
  <2> HIDE DEF w
  <2>5. L = Append(users, w)  BY <2>2 DEF w
  <2>6. users \in Seq(User) /\ l \in Nat /\ DOMAIN users = 1 .. l
    BY <1>1, LenProperties DEF TypeOK
  <2>7. /\ L \in Seq(User) /\ Len(L) = l + 1
        /\ \A i \in 1 .. l : L[i] = users[i]
        /\ L[l + 1] = w
    BY <2>4, <2>5, <2>6, AppendProperties
  <2>8. DOMAIN L = 1 .. l + 1  BY <2>7, LenProperties
  <2> HIDE DEF l
  <2>9. \A i \in DOMAIN L : i \in DOMAIN users \/ i = l + 1  BY <2>6, <2>8
  <2>10. /\ \A i \in DOMAIN users : i \in DOMAIN L /\ L[i] = users[i]
         /\ l + 1 \in DOMAIN L
    BY <2>6, <2>7, <2>8
  <2>11. \A i \in DOMAIN users : /\ Port[users[i].peer] # Port[w.peer]
                                 /\ users[i].dyn_socket # w.dyn_socket
                                 /\ users[i].dynamic_port # w.dynamic_port
    BY <1>1, <1>2, <1>4, <2>2, <2>4 DEF At, Shape
  <2>12. Shape(L, born')
    <3>1. ASSUME NEW i \in DOMAIN L PROVE L[i].dynamic_port \in 1 .. born'
      BY <1>1, <1>2, <2>1, <2>4, <2>7, <2>9, <2>10 DEF Shape
    <3>2. ASSUME NEW i \in DOMAIN L, NEW j \in DOMAIN L, i # j
          PROVE  /\ Port[L[i].peer] # Port[L[j].peer]
                 /\ L[i].dyn_socket # L[j].dyn_socket
                 /\ L[i].dynamic_port # L[j].dynamic_port
      BY <1>1, <2>7, <2>9, <2>10, <2>11, <3>2 DEF Shape
    <3> QED  BY <2>7, <3>1, <3>2 DEF Shape
  <2>13. Owned(L, room)
    <3>1. ASSUME NEW n \in Names, NEW t, NEW i \in DOMAIN L, L[i].dyn_socket = t,
                 L[i].client_state = "OPEN", L[i].left.channel = n
          PROVE  t \in room[n]
      <4>1. i \in DOMAIN users  BY <2>4, <2>7, <2>9, <3>1
      <4> QED  BY <1>1, <2>10, <3>1, <4>1 DEF Owned
    <3>2. ASSUME NEW n \in Names, NEW t \in room[n]
          PROVE  \E i \in DOMAIN L : /\ L[i].dyn_socket = t
                                     /\ L[i].client_state = "OPEN" /\ L[i].left.channel = n
      <4>1. PICK i \in DOMAIN users : /\ users[i].dyn_socket = t
                                      /\ users[i].client_state = "OPEN" /\ users[i].left.channel = n
        BY <1>1 DEF Owned
      <4> QED  BY <2>10, <4>1
    <3> QED  BY <3>1, <3>2 DEF Owned
  <2>14. \A j \in DOMAIN L :
           \/ L[j].client_state = "OPEN" /\ L[j].left.channel \in Names
           \/ j = l + 1 /\ L[j].client_state = "ACCEPT" /\ d.kind \in {"AUTH", "BYE"}
    BY <1>2, <2>4, <2>7, <2>9, <2>10 DEF UsersInv, AllIn
  <2>15. ASSUME NEW j \in DOMAIN L, NEW p \in Peers, L[j].dynamic_port \in spoke[p]
         PROVE  L[j].peer = p
    <3>1. CASE j \in DOMAIN users  BY <2>10, <2>15, <3>1 DEF UsersInv, Heard
    <3>2. CASE j = l + 1
      <4>1. spoke[p] \subseteq 1 .. born  BY DEF UsersInv, Heard
      <4> QED  BY <1>2, <2>4, <2>7, <2>15, <3>2, <4>1
    <3> QED  BY <2>9, <3>1, <3>2
  <2>16. Len(L) <= MaxList /\ born' \in born .. MaxStarts
    BY <1>2, <2>1, <2>6, <2>7, UdpUsersAssumption DEF l
  <2>17. Ready(L, l + 1, d, born')
    BY <1>2, <2>4, <2>7, <2>10, <2>12, <2>13, <2>14, <2>15, <2>16 DEF Ready
  <2>18. get_user(L, d.peer) = l + 1
    BY <2>4, <2>7, <2>10, <2>12, Found
  <2> QED  BY <2>17, <2>18
<1> QED  BY <1>3, <1>4

LEMMA InitInv == Init => UsersInv
<1> SUFFICES ASSUME Init PROVE UsersInv  OBVIOUS
<1>1. users \in Seq(User) /\ Len(users) = 0 /\ DOMAIN users = {}
  BY EmptySeq, LenProperties DEF Init
<1>2. TypeOK
  BY <1>1, UdpUsersAssumption DEF Init, TypeOK
<1> QED
  BY <1>1, <1>2 DEF Init, UsersInv, UsersDistinct, EntriesOwned, AllIn, Ports, Heard, OnItsWay, In

\* What the clients do by themselves.
LEMMA ClientInv ==
  ASSUME UsersInv, NEW p \in Peers,
         \/ \E kind \in Kinds, name \in Names \cup {None} : ClientSends(p, kind, name)
         \/ \E port \in spoke[p] : Hears(p, port)
         \/ Restart(p)
  PROVE  UsersInv'
<1>1. /\ UNCHANGED <<server, users, room, freed, born, out, spoke>>
      /\ known \in [Peers -> 0 .. MaxStarts] /\ spoke \in [Peers -> SUBSET (1 .. MaxStarts)]
      /\ sent \in 0 .. MaxSent /\ MaxSent \in Nat /\ MaxStarts \in Nat
      /\ known[p] \in {0} \cup spoke[p]
  BY UdpUsersAssumption DEF ClientSends, Hears, Restart, UsersInv, TypeOK, Heard
<1>2. /\ net' \subseteq Datagram /\ sent' \in 0 .. MaxSent
      /\ OnItsWay'
  <2>1. ASSUME NEW kind \in Kinds, NEW name \in Names \cup {None}, ClientSends(p, kind, name)
        PROVE  net' \subseteq Datagram /\ sent' \in 0 .. MaxSent /\ OnItsWay'
    <3> DEFINE m == [to |-> known[p], peer |-> p, kind |-> kind,
                     id |-> IF kind = "CONFIRM" THEN 0 ELSE sent + 1, name |-> name]
    <3>1. net' = net \cup {m} /\ sent' = sent + 1 /\ sent < MaxSent
          /\ (known[p] = 0 => kind \in {"AUTH", "BYE"})
      BY <2>1 DEF ClientSends
    <3>2. m \in Datagram
      <4>1. (IF kind = "CONFIRM" THEN 0 ELSE sent + 1) \in 0 .. MaxSent /\ known[p] \in Nat
        BY <1>1, <3>1
      <4> QED  BY <4>1 DEF Datagram
    <3>3. m.to = known[p] /\ m.peer = p /\ m.kind = kind  OBVIOUS
    <3> HIDE DEF m
    <3> QED  BY <1>1, <3>1, <3>2, <3>3 DEF UsersInv, TypeOK, OnItsWay
  <2>2. CASE UNCHANGED <<net, sent>>
    BY <1>1, <2>2 DEF UsersInv, TypeOK, OnItsWay
  <2> QED  BY <2>1, <2>2 DEF Hears, Restart
<1>3. known' \in [Peers -> 0 .. MaxStarts] /\ \A q \in Peers : known'[q] \in {0} \cup spoke[q]
  <2>1. \A q \in Peers : known[q] \in {0} \cup spoke[q]  BY DEF UsersInv, Heard
  <2>2. CASE \E port \in spoke[p] : Hears(p, port)
    <3>1. PICK port \in spoke[p] : known' = [known EXCEPT ![p] = port]  BY <2>2 DEF Hears
    <3>2. port \in 0 .. MaxStarts  BY <1>1
    <3> QED  BY <1>1, <2>1, <3>1, <3>2
  <2>3. CASE Restart(p)  BY <1>1, <2>1, <2>3 DEF Restart
  <2>4. CASE known' = known  BY <1>1, <2>1, <2>4
  <2> QED  BY <2>2, <2>3, <2>4 DEF ClientSends
<1>4. TypeOK'  BY <1>1, <1>2, <1>3 DEF UsersInv, TypeOK
<1>5. UsersDistinct' /\ AllIn' /\ Ports'
  BY <1>1 DEF UsersInv, UsersDistinct, AllIn, Ports
<1>6. EntriesOwned'  BY <1>1 DEF UsersInv, EntriesOwned, In
<1>7. Heard'  BY <1>1, <1>3 DEF UsersInv, Heard
<1> QED  BY <1>2, <1>4, <1>5, <1>6, <1>7 DEF UsersInv

LEMMA StepInv == UsersInv /\ [Next]_vars => UsersInv'
<1> SUFFICES ASSUME UsersInv, [Next]_vars PROVE UsersInv'  OBVIOUS
<1>1. ASSUME NEW d \in net, OnDynamic(d) PROVE UsersInv'
  <2>1. Ready(users, get_user(users, d.peer), d, born)  BY <1>1, FoundDynamic
  <2> QED  BY <1>1, <2>1, HandleInv DEF OnDynamic
<1>2. ASSUME NEW d \in net, OnDefault(d) PROVE UsersInv'
  <2>1. PICK L \in add_user(d.peer) : Handle(d, L, get_user(L, d.peer))  BY <1>2 DEF OnDefault
  <2>2. Ready(L, get_user(L, d.peer), d, born')  BY <1>2, FoundDefault
  <2> QED  BY <1>2, <2>1, <2>2, HandleInv DEF OnDefault
<1>3. ASSUME NEW d \in net, NoUser(d) PROVE UsersInv'
  <2>1. server' = "down" /\ UNCHANGED <<users, room, freed, born, net, sent, out, spoke, known>>
    BY <1>3 DEF NoUser
  <2> QED  BY <2>1 DEF UsersInv, TypeOK, UsersDistinct, EntriesOwned, AllIn, Ports, Heard, OnItsWay
<1>4. CASE UNCHANGED vars
  <2>1. UNCHANGED <<server, users, room, freed, born, net, sent, out, spoke, known>>
    BY <1>4 DEF vars
  <2> QED  BY <2>1 DEF UsersInv, TypeOK, UsersDistinct, EntriesOwned, AllIn, Ports, Heard, OnItsWay, In
<1> QED  BY <1>1, <1>2, <1>3, <1>4, ClientInv DEF Next

LEMMA AlwaysInv == Spec => []UsersInv
BY InitInv, StepInv, PTL DEF Spec

-----------------------------------------------------------------------------
(* The theorems.                                                           *)

\* The list is never longer than its array, and what it, the channels, the
\* answers and the datagrams hold has its type (handle_udp.c).
THEOREM TypeCorrect == Spec => []TypeOK
<1>1. UsersInv => TypeOK  BY DEF UsersInv
<1> QED  BY <1>1, AlwaysInv, PTL

\* No two users share a port or a socket (add_user, remove_udp_user).
THEOREM DistinctHolds == Spec => []UsersDistinct
<1>1. UsersInv => UsersDistinct  BY DEF UsersInv
<1> QED  BY <1>1, AlwaysInv, PTL

\* The channels list the sockets of the users who are in them and no others,
\* however descriptors are given out again (handle_udp.c, socket.c).
THEOREM OwnedHolds == Spec => []EntriesOwned
<1>1. UsersInv => EntriesOwned  BY DEF UsersInv
<1> QED  BY <1>1, AlwaysInv, PTL

\* The answers of one turn of the loop.
LEMMA AnswerStep ==
  ASSUME \A p, q \in Peers : Port[p] = Port[q] => p = q, MaxSent < Byte \div 2,
         UsersInv, NEW L, NEW b, NEW d, NEW i, Ready(L, i, d, b), Handle(d, L, i)
  PROVE  RightAnswer'
<1>1. Speaks(d, L[i])  BY NewList
<1>2. L[i] \in User /\ d \in Datagram /\ d.to \in {0, L[i].dynamic_port}
      /\ Port[L[i].peer] = Port[d.peer]
  <2>1. L[i] \in User /\ d \in Datagram  BY Sender DEF UsersInv
  <2> QED  BY <2>1 DEF Ready
<1>3. L[i].peer = d.peer  BY <1>2, Records DEF Datagram
<1>4. Read(d.id) = d.id
  <2>1. d.id \in 0 .. MaxSent /\ MaxSent \in Nat  BY <1>2, UdpUsersAssumption DEF Datagram
  <2>2. Byte \div 2 \in Nat  BY UdpUsersAssumption
  <2>3. d.id \in Nat /\ d.id < Byte \div 2  BY <2>1, <2>2
  <2> QED  BY <2>3, ReadId
<1> QED  BY <1>1, <1>2, <1>3, <1>4 DEF Speaks, RightAnswer

\* Who is answered is who sent the message, with its id, by its own socket: for
\* clients on distinct ports (get_user looks at nothing else) and ids below half a
\* byte (they are read through a signed char, handle_udp.c).
THEOREM RightAnswerHolds ==
  ASSUME \A p, q \in Peers : Port[p] = Port[q] => p = q, MaxSent < Byte \div 2
  PROVE  Spec => []RightAnswer
<1>1. Init => RightAnswer  BY DEF Init, RightAnswer
<1>2. UsersInv /\ RightAnswer /\ [Next]_vars => RightAnswer'
  <2> SUFFICES ASSUME UsersInv, RightAnswer, [Next]_vars PROVE RightAnswer'  OBVIOUS
  <2>1. ASSUME NEW d \in net, OnDynamic(d) PROVE RightAnswer'
    <3>1. Ready(users, get_user(users, d.peer), d, born)  BY <2>1, FoundDynamic
    <3> QED  BY <2>1, <3>1, AnswerStep DEF OnDynamic
  <2>2. ASSUME NEW d \in net, OnDefault(d) PROVE RightAnswer'
    <3>1. PICK L \in add_user(d.peer) : Handle(d, L, get_user(L, d.peer))  BY <2>2 DEF OnDefault
    <3>2. Ready(L, get_user(L, d.peer), d, born')  BY <2>2, FoundDefault
    <3> QED  BY <3>1, <3>2, AnswerStep
  <2>3. CASE out' = out  BY <2>3 DEF RightAnswer
  <2> QED  BY <2>1, <2>2, <2>3 DEF Next, NoUser, ClientSends, Hears, Restart, vars
<1> QED  BY <1>1, <1>2, AlwaysInv, PTL DEF Spec

\* Only BYE, ERR and what is not known take a user out.
LEMMA GoesBy ==
  ASSUME TypeOK, NEW L, NEW b, NEW d, NEW i, Ready(L, i, d, b), Handle(d, L, i)
  PROVE  Dies \/ (\E u : Stays(L, i, u)) \/ (Goes(L, i) /\ d.kind \in {"BYE", "ERR", "UNKNOWN"})
<1>1. CASE Bye(d, L, i) \/ End(d, L, i)
  <2>1. d.kind \in {"BYE", "ERR", "UNKNOWN"}  BY <1>1 DEF Bye, End
  <2> QED  BY <1>1, <2>1, ByeOutcome
<1> QED  BY <1>1, AuthOutcome, JoinOutcome, MsgOutcome DEF Handle

\* What one turn of the loop does to a user that was in the list before.
LEMMA UndisturbedTurn ==
  ASSUME UsersInv, NEW L, NEW b, NEW d, NEW i, Ready(L, i, d, b), Handle(d, L, i),
         NEW j \in DOMAIN users
  PROVE  \/ Untouched(users[j])
         \/ From(d, users[j]) /\ (Gone(users[j]) => d.kind \in {"BYE", "ERR", "UNKNOWN"})
<1>1. /\ Shape(L, b) /\ i \in DOMAIN L /\ j \in DOMAIN L /\ L[j] = users[j]
      /\ From(d, L[i])
  BY DEF Ready, From
<1>2. CASE Dies
  BY <1>2 DEF Dies, Untouched
<1>3. ASSUME NEW u, Stays(L, i, u)
      PROVE  Untouched(users[j]) \/ (From(d, users[j]) /\ ~Gone(users[j]))
  <2>1. /\ DOMAIN users' = DOMAIN L
        /\ \A k \in DOMAIN L : users'[k] = IF k = i THEN u ELSE L[k]
    BY <1>1, <1>3, KeepsShape DEF Stays
  <2>2. u.dynamic_port = L[i].dynamic_port /\ u.dyn_socket = L[i].dyn_socket
    BY <1>3 DEF Stays
  <2>3. CASE j = i
    BY <1>1, <2>1, <2>2, <2>3 DEF Gone
  <2>4. CASE j # i
    <3>1. users'[j] = users[j]  BY <1>1, <2>1, <2>4
    <3>2. users[j].dyn_socket # u.dyn_socket  BY <1>1, <2>2, <2>4 DEF Shape
    <3>3. \A n \in Names : users[j].dyn_socket \in room'[n] <=> users[j].dyn_socket \in room[n]
      BY <1>3, <3>2 DEF Stays
    <3> QED  BY <1>1, <2>1, <3>1, <3>3 DEF Untouched
  <2> QED  BY <2>3, <2>4
<1>4. ASSUME Goes(L, i)
      PROVE  Untouched(users[j]) \/ From(d, users[j])
  <2>1. CASE j = i
    BY <1>1, <2>1
  <2>2. CASE j # i
    <3>1. \E k \in DOMAIN users' : users'[k] = users[j]
      BY <1>1, <1>4, <2>2, ForgetsShape DEF Goes
    <3>2. users[j].dyn_socket # L[i].dyn_socket  BY <1>1, <2>2 DEF Shape
    <3>3. \A n \in Names : users[j].dyn_socket \in room'[n] <=> users[j].dyn_socket \in room[n]
      BY <1>4, <3>2 DEF Goes
    <3> QED  BY <3>1, <3>3 DEF Untouched
  <2> QED  BY <2>1, <2>2
<1>5. Dies \/ (\E u : Stays(L, i, u)) \/ (Goes(L, i) /\ d.kind \in {"BYE", "ERR", "UNKNOWN"})
  BY GoesBy DEF UsersInv
<1> QED  BY <1>2, <1>3, <1>4, <1>5

\* A step leaves a user's record and its entries in channels untouched unless the
\* datagram it handles is the user's own, and takes the user out of the list only
\* if that is BYE, ERR or not known (get_user, remove_udp_user).
THEOREM UndisturbedHolds == Spec => Undisturbed
<1> DEFINE Own(j) ==
             \/ Untouched(users[j])
             \/ \E d \in net : /\ OnDynamic(d) \/ OnDefault(d)
                               /\ From(d, users[j])
                               /\ Gone(users[j]) => d.kind \in {"BYE", "ERR", "UNKNOWN"}
<1>1. UsersInv /\ [Next]_vars => \A j \in DOMAIN users : Own(j)
  <2> SUFFICES ASSUME UsersInv, [Next]_vars, NEW j \in DOMAIN users PROVE Own(j)  OBVIOUS
  <2>1. ASSUME NEW d \in net, OnDynamic(d) PROVE Own(j)
    <3>1. Ready(users, get_user(users, d.peer), d, born) /\ Handle(d, users, get_user(users, d.peer))
      BY <2>1, FoundDynamic DEF OnDynamic
    <3> QED  BY <2>1, <3>1, UndisturbedTurn
  <2>2. ASSUME NEW d \in net, OnDefault(d) PROVE Own(j)
    <3>1. PICK L \in add_user(d.peer) : Handle(d, L, get_user(L, d.peer))  BY <2>2 DEF OnDefault
    <3>2. Ready(L, get_user(L, d.peer), d, born')  BY <2>2, FoundDefault
    <3> QED  BY <2>2, <3>1, <3>2, UndisturbedTurn
  <2>3. CASE UNCHANGED <<users, room>>  BY <2>3 DEF Untouched
  <2> QED  BY <2>1, <2>2, <2>3 DEF Next, NoUser, ClientSends, Hears, Restart, vars
<1>2. UsersInv /\ [Next]_vars =>
        [\A i \in DOMAIN users :
           \/ Untouched(users[i])
           \/ \E d \in net : /\ OnDynamic(d) \/ OnDefault(d)
                             /\ From(d, users[i])
                             /\ Gone(users[i]) => d.kind \in {"BYE", "ERR", "UNKNOWN"}]_vars
  BY <1>1
<1> QED  BY <1>2, AlwaysInv, PTL DEF Spec, Undisturbed
=============================================================================
