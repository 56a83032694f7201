------------------------------ MODULE UdpUsers ------------------------------
(***************************************************************************)
(* The server's list of UDP users (handle_udp.c): one socket and one       *)
(* record for each, found by the port its datagrams come from.  The select *)
(* loop, what a datagram does to the list and to the channels, and the     *)
(* answers; with clients that may start again, and a network that delays,  *)
(* repeats, reorders and loses: what was sent may come, at any time, and   *)
(* more than once.                                                         *)
(*                                                                         *)
(* A turn of the loop is one step: nothing else changes the list, nor the  *)
(* entries UDP users have in channels.  How channels are shared with other *)
(* threads is in ChatServer.                                               *)
(***************************************************************************)
EXTENDS Integers, Sequences, FiniteSets

CONSTANTS Peers,        \* the clients' addresses
          Port,         \* the port of each
          Local,        \* those on the server's own host
          Descriptors,  \* what socket() can return
          Names, General, None,
          MaxList,      \* the length of the list (100 in handle_udp.h)
          Byte, Word,   \* 256 and 65536
          MaxSent,      \* how many messages the clients send
          MaxStarts     \* how many users are made

ASSUME UdpUsersAssumption ==
  /\ DOMAIN Port = Peers /\ Local \subseteq Peers
  /\ General \in Names /\ None \notin Names
  /\ MaxList \in Nat \ {0} /\ MaxSent \in Nat \ {0} /\ MaxStarts \in Nat \ {0}
  /\ Byte \in Nat \ {0} /\ Word \in Nat \ {0} /\ Byte <= Word
  /\ Cardinality(Descriptors) >= MaxList

VARIABLES
  server,     \* "up" or "down"
  users,      \* the list
  room,       \* the descriptors listed in each channel
  freed,      \* what the records that were freed still hold
  born,       \* how many users there have been: the last one's dynamic port
  net, sent,  \* the datagrams sent to the server, and how many
  out,        \* the answers of the last turn of the loop
  spoke,      \* of each client: the dynamic ports it has been answered from
  known       \*   and where it sends to

vars == <<server, users, room, freed, born, net, sent, out, spoke, known>>

Kinds == {"AUTH", "JOIN", "MSG", "BYE", "ERR", "CONFIRM", "UNKNOWN"}

\* Datagrams to the default socket have to = 0, those to a dynamic socket its port.
Datagram == [to : Nat, peer : Peers, kind : Kinds, id : 0 .. MaxSent, name : Names \cup {None}]
Left     == [id : Nat, channel : Names \cup {None}, channel_name : Names \cup {None}]
User     == [peer : Peers, dyn_socket : Descriptors, dynamic_port : Nat,
             client_state : {"ACCEPT", "OPEN"}, left : Left]
Answer   == [kind : {"CONFIRM", "REPLY", "ERR", "BYE"}, peer : Peers, id : Nat,
             dynamic_port : Nat, about : Datagram, accepted : BOOLEAN]
Unset    == [id |-> 0, channel |-> None, channel_name |-> None]

TypeOK ==
  /\ server \in {"up", "down"}
  /\ users \in Seq(User) /\ Len(users) <= MaxList
  /\ room \in [Names -> SUBSET Descriptors]
  /\ freed \subseteq Left /\ born \in 0 .. MaxStarts
  /\ net \subseteq Datagram /\ out \subseteq Answer
  /\ spoke \in [Peers -> SUBSET (1 .. MaxStarts)]
  /\ known \in [Peers -> 0 .. MaxStarts] /\ sent \in 0 .. MaxSent

\* num_clients is not set: it is what the thread's first malloc holds, and that is
\* memory fresh from the system.
Init ==
  /\ server = "up" /\ users = << >> /\ room = [n \in Names |-> {}]
  /\ freed = {} /\ born = 0 /\ net = {} /\ out = {}
  /\ spoke = [p \in Peers |-> {}] /\ known = [p \in Peers |-> 0] /\ sent = 0

-----------------------------------------------------------------------------
(* The list.                                                               *)

At(p) == {i \in DOMAIN users : Port[users[i].peer] = Port[p]}

\* A char is signed: the low byte of an id covers its high byte.
Read(id) == IF (id % Byte) < (Byte \div 2) THEN id ELSE (Word - Byte) + (id % Byte)

\* The list with a user for p.  The record is memory that nobody clears; the
\* socket is any that is not open.
NewUsers(p) ==
  {Append(users, [peer |-> p, dyn_socket |-> s, dynamic_port |-> born + 1,
                  client_state |-> "ACCEPT", left |-> l]) :
     s \in Descriptors \ {users[i].dyn_socket : i \in DOMAIN users}, l \in freed \cup {Unset}}

\* Variant: nobody is looked for.
add_user_always(p) == NewUsers(p)

add_user(p) == IF At(p) = {} THEN NewUsers(p) ELSE {users}

\* Variant: whoever was last in the list.
get_user_last(L, p) == Len(L)

get_user(L, p) ==
  CHOOSE i \in DOMAIN L : /\ Port[L[i].peer] = Port[p]
                          /\ \A j \in 1 .. i - 1 : Port[L[j].peer] # Port[p]

\* Variant: the entries behind it are not moved.
Without_last(L, i) == SubSeq(L, 1, Len(L) - 1)

Without(L, i) == SubSeq(L, 1, i - 1) \o SubSeq(L, i + 1, Len(L))

-----------------------------------------------------------------------------
(* What a datagram d does.  L is the list with the sender's user in it, at *)
(* i; u is that user's record after parsing.                               *)

Says(u, d, accepted, kinds) ==
  /\ out' = {[kind |-> k, peer |-> u.peer, id |-> u.left.id, accepted |-> accepted,
              dynamic_port |-> u.dynamic_port, about |-> d] : k \in kinds}
  /\ spoke' = [spoke EXCEPT ![u.peer] = @ \cup {u.dynamic_port}]

\* A broadcast to anybody fails: add_client has stored a wrong length with the
\* addresses of UDP users.
Alone(u, name) == name # None /\ room[name] \subseteq {u.dyn_socket}

Dies == server' = "down" /\ UNCHANGED <<users, room, freed>>
Keeps(L, i, u) == users' = [L EXCEPT ![i] = u] /\ UNCHANGED freed
Enters(s, r, name) == room' = [r EXCEPT ![name] = @ \cup {s}]
Leaves(s, r, name) == [r EXCEPT ![name] = @ \ {s}]

Auth(d, L, i) ==
  LET u == [L[i] EXCEPT !.client_state = "OPEN", !.left.id = Read(d.id)]
  IN /\ d.kind = "AUTH" /\ L[i].client_state = "ACCEPT"
     /\ Says(u, d, TRUE, {"CONFIRM", "REPLY"})
     /\ \/ ~Alone(u, General) /\ Dies
        \/ /\ Alone(u, General) /\ Enters(u.dyn_socket, room, General)
           /\ Keeps(L, i, [u EXCEPT !.left.channel = General]) /\ UNCHANGED server

\* The branch of JOIN, with whatever the record holds.
Joins(d, L, i, u, accepted) ==
  \/ /\ ~Alone(u, u.left.channel) \/ u.left.channel_name = None
     /\ Says(u, d, accepted, {"CONFIRM"}) /\ Dies
  \/ /\ Alone(u, u.left.channel) /\ u.left.channel_name # None
     /\ Says(u, d, accepted, {"CONFIRM", "REPLY"})
     /\ Enters(u.dyn_socket, Leaves(u.dyn_socket, room, u.left.channel), u.left.channel_name)
     /\ Keeps(L, i, [u EXCEPT !.left.channel = u.left.channel_name]) /\ UNCHANGED server

Join(d, L, i) ==
  /\ d.kind = "JOIN" /\ L[i].client_state = "OPEN"
  /\ Joins(d, L, i, [L[i] EXCEPT !.left.id = Read(d.id), !.left.channel_name = d.name], TRUE)

\* ERROR_STATE is the opcode of JOIN.
Refused(d, L, i) ==
  /\ \/ d.kind = "AUTH" /\ L[i].client_state # "ACCEPT"
     \/ d.kind \in {"JOIN", "MSG"} /\ L[i].client_state # "OPEN"
  /\ Joins(d, L, i, L[i], FALSE)

Msg(d, L, i) ==
  LET u == [L[i] EXCEPT !.left.id = Read(d.id)]
  IN /\ d.kind = "MSG" /\ L[i].client_state = "OPEN"
     /\ Says(u, d, TRUE, {"CONFIRM"})
     /\ \/ ~Alone(u, u.left.channel) /\ Dies
        \/ Alone(u, u.left.channel) /\ Keeps(L, i, u) /\ UNCHANGED <<server, room>>

\* Variant: the socket is closed and stays in its channel.
Forgets_entry(L, i, u) ==
  users' = Without(L, i) /\ freed' = freed \cup {u.left} /\ UNCHANGED <<server, room>>

\* remove_client_from_channel, then remove_udp_user.
Forgets(L, i, u) ==
  /\ room' = Leaves(u.dyn_socket, room, u.left.channel)
  /\ users' = Without(L, i) /\ freed' = freed \cup {u.left}
  /\ UNCHANGED server

Bye(d, L, i) ==
  LET u == [L[i] EXCEPT !.left.id = Read(d.id)]
  IN /\ d.kind = "BYE" /\ Says(u, d, TRUE, {"CONFIRM"})
     /\ \/ ~Alone(u, u.left.channel) /\ Dies
        \/ Alone(u, u.left.channel) /\ Forgets(L, i, u)

\* Variant: a user in state END stays in the list.
End_stays(d, L, i) ==
  /\ d.kind \in {"ERR", "UNKNOWN"}
  /\ Says(L[i], d, FALSE, {"CONFIRM", IF d.kind = "ERR" THEN "BYE" ELSE "ERR"})
  /\ Keeps(L, i, [L[i] EXCEPT !.client_state = "END"]) /\ UNCHANGED <<server, room>>

\* Neither ERR nor what is not known announces anything to the channel.
End(d, L, i) ==
  /\ d.kind \in {"ERR", "UNKNOWN"}
  /\ Says(L[i], d, FALSE, {"CONFIRM", IF d.kind = "ERR" THEN "BYE" ELSE "ERR"})
  /\ \/ L[i].left.channel = None /\ Dies
     \/ L[i].left.channel # None /\ Forgets(L, i, L[i])

Confirm(d, L, i) ==
  /\ d.kind = "CONFIRM"
  /\ Keeps(L, i, [L[i] EXCEPT !.left.id = Read(d.id)])
  /\ out' = {} /\ UNCHANGED <<server, room, spoke>>

Handle(d, L, i) ==
  \/ Auth(d, L, i) \/ Join(d, L, i) \/ Refused(d, L, i) \/ Msg(d, L, i)
  \/ Bye(d, L, i) \/ End(d, L, i) \/ Confirm(d, L, i)

-----------------------------------------------------------------------------
(* The loop.                                                               *)

\* A datagram on a dynamic socket.
OnDynamic(d) ==
  /\ server = "up" /\ \E i \in DOMAIN users : users[i].dynamic_port = d.to
  /\ Handle(d, users, get_user(users, d.peer))
  /\ UNCHANGED <<born, net, sent, known>>

\* One on the default socket.  If one has come on a dynamic socket as well, this
\* one is read over it: it is lost, as any datagram may be.
OnDefault(d) ==
  /\ server = "up" /\ d.to = 0
  /\ \/ At(d.peer) # {}
     \/ Len(users) < MaxList /\ d.peer \in Local /\ born < MaxStarts
  /\ \E L \in add_user(d.peer) : Handle(d, L, get_user(L, d.peer))
  /\ born' = IF At(d.peer) = {} THEN born + 1 ELSE born
  /\ UNCHANGED <<net, sent, known>>

\* The list has no room and what is behind it is its own counter; or the new
\* socket cannot be bound, for it is bound to the client's address: it is closed
\* and then used.
NoUser(d) ==
  /\ server = "up" /\ d.to = 0
  /\ At(d.peer) = {} /\ (Len(users) = MaxList \/ d.peer \notin Local)
  /\ server' = "down"
  /\ UNCHANGED <<users, room, freed, born, net, sent, out, spoke, known>>

-----------------------------------------------------------------------------
(* The clients.                                                            *)

\* AUTH, or BYE on C-c, comes first.
ClientSends(p, kind, name) ==
  /\ server = "up" /\ sent < MaxSent
  /\ known[p] = 0 => kind \in {"AUTH", "BYE"}
  /\ name = None <=> kind # "JOIN"
  /\ sent' = sent + 1
  /\ net' = net \cup {[to |-> known[p], peer |-> p, kind |-> kind,
                       id |-> IF kind = "CONFIRM" THEN 0 ELSE sent + 1, name |-> name]}
  /\ UNCHANGED <<server, users, room, freed, born, out, spoke, known>>

\* It sends to where the last datagram came from.
Hears(p, port) ==
  /\ port \in spoke[p] /\ known[p] # port
  /\ known' = [known EXCEPT ![p] = port]
  /\ UNCHANGED <<server, users, room, freed, born, net, sent, out, spoke>>

\* Another client on the same port.
Restart(p) ==
  /\ known[p] # 0
  /\ known' = [known EXCEPT ![p] = 0]
  /\ UNCHANGED <<server, users, room, freed, born, net, sent, out, spoke>>

Next ==
  \/ \E d \in net : OnDynamic(d) \/ OnDefault(d) \/ NoUser(d)
  \/ \E p \in Peers :
       \/ \E kind \in Kinds, name \in Names \cup {None} : ClientSends(p, kind, name)
       \/ \E port \in spoke[p] : Hears(p, port)
       \/ Restart(p)

Spec == Init /\ [][Next]_vars

-----------------------------------------------------------------------------
(* Properties.                                                             *)

\* No two users share a port or a socket, whatever users come and go and
\* whichever descriptors are given out again (add_user, remove_udp_user).
UsersDistinct ==
  \A i, j \in DOMAIN users :
    i # j => /\ Port[users[i].peer] # Port[users[j].peer]
             /\ users[i].dyn_socket # users[j].dyn_socket

In(n) == {i \in DOMAIN users : users[i].client_state = "OPEN" /\ users[i].left.channel = n}

\* A channel lists the sockets of the users who are in it now, and no others: a
\* socket leaves its channel before it is closed, so that the next user who is
\* given the descriptor is not in a channel it never entered, or in two; and a
\* repeated AUTH or BYE, or another client's list entry moving, unlists nobody.
EntriesOwned ==
  server = "up" => \A n \in Names : room[n] = {users[i].dyn_socket : i \in In(n)}

\* Who sends a message that is accepted gets the answers, with the message's id,
\* from a socket that has been its own (ports distinct, ids below half a byte).
RightAnswer ==
  \A a \in out : a.accepted => /\ a.peer = a.about.peer /\ a.id = a.about.id
                               /\ a.about.to \in {0, a.dynamic_port}

From(d, u) == Port[d.peer] = Port[u.peer] /\ d.to \in {0, u.dynamic_port}

\* What a step leaves as it was: a user's record, wherever in the list it is now,
\* and the channels its socket is listed in.
Untouched(u) ==
  /\ \E j \in DOMAIN users' : users'[j] = u
  /\ \A n \in Names : u.dyn_socket \in room'[n] <=> u.dyn_socket \in room[n]

Gone(u) == \A j \in DOMAIN users' : users'[j].dynamic_port # u.dynamic_port

\* A step leaves a user's record and its entries untouched, unless the datagram
\* that this step handles is the user's own; and the user leaves the list only if
\* that is BYE, ERR or not known.  What other users do, and the shift of the list
\* when they leave, does nothing to it (get_user, remove_udp_user).
Undisturbed ==
  [][ \A i \in DOMAIN users :
        \/ Untouched(users[i])
        \/ \E d \in net : /\ OnDynamic(d) \/ OnDefault(d)
                          /\ From(d, users[i])
                          /\ Gone(users[i]) => d.kind \in {"BYE", "ERR", "UNKNOWN"} ]_vars
=============================================================================
