---------------------------- MODULE ChannelStore ----------------------------
(***************************************************************************)
(* The channel structure of the server (proj2/socket.h, proj2/socket.c) as *)
(* data: an array of client addresses of which the first num_users are in  *)
(* use, and what add_client and remove_client_from_channel do to it once   *)
(* they own the channel's two mutexes.  ChatServer supplies the threads.   *)
(***************************************************************************)
EXTENDS Naturals

CONSTANTS Sockets,    \* the client sockets: TCP connections and UDP dynamic sockets
          NoSocket,   \* the value of a socket field that was never written
          MaxUsers    \* the length of the address array (100 in socket.h)

ASSUME StoreAssumption ==
  /\ NoSocket \notin Sockets
  /\ MaxUsers \in Nat \ {0}

Index == 1 .. MaxUsers

\* Clients_address: the socket, the udp_client flag, and whose address
\* udp_address points to (NoSocket: none, or one that was freed).
Slot == [socket : Sockets \cup {NoSocket}, udp_client : BOOLEAN,
         udp_address : Sockets \cup {NoSocket}]

Channel == [num_users : 0 .. MaxUsers, address : [Index -> Slot]]

\* A channel as concrete_connection and create_channel leave it.  The array
\* comes from malloc and is not initialised; the flags are taken to be FALSE,
\* which is what a block from the top of the heap holds.
EmptyChannel ==
  [num_users |-> 0,
   address   |-> [i \in Index |-> [socket |-> NoSocket, udp_client |-> FALSE,
                                   udp_address |-> NoSocket]]]

\* The entries the loops over num_users visit.
InUse(ch) == 1 .. ch.num_users

Members(ch) == {ch.address[i].socket : i \in InUse(ch)}

\* What add_client writes.  A UDP user's entry gets an address of its own; the
\* TCP path writes the socket and leaves what else the entry held.
Entry(old, s, isUdp) ==
  IF isUdp THEN [socket |-> s, udp_client |-> TRUE, udp_address |-> s]
           ELSE [old EXCEPT !.socket = s]

\* add_client, when the socket is not there yet and the array is not full.
AddClient(ch, s, isUdp) ==
  LET last == ch.num_users + 1
  IN  [num_users |-> last, address |-> [ch.address EXCEPT ![last] = Entry(@, s, isUdp)]]

\* The entry the removal loop stops at.
FirstAt(ch, s) ==
  CHOOSE i \in InUse(ch) : /\ ch.address[i].socket = s
                           /\ \A j \in InUse(ch) : j < i => ch.address[j].socket # s

\* The addresses once entry e has been freed: whoever else points to its
\* udp_address points to freed memory.
Freed(ch, e) ==
  [j \in Index |->
     IF e.udp_client /\ ch.address[j].udp_address = e.udp_address
     THEN [ch.address[j] EXCEPT !.udp_address = NoSocket] ELSE ch.address[j]]

\* The entry removed is a UDP entry by its flag, but the address it points to is
\* freed already: a TCP client has the flag of the user whose entry it took over.
FreesTwice(ch, s) ==
  /\ s \in Members(ch)
  /\ ch.address[FirstAt(ch, s)].udp_client
  /\ ch.address[FirstAt(ch, s)].udp_address = NoSocket

\* Entry at is freed and the entries behind it, up to end, move down by one; the
\* last keeps its contents and is merely no longer counted.
Cut(ch, at, end) ==
  LET kept == Freed(ch, ch.address[at])
  IN  [num_users |-> ch.num_users - 1,
       address   |-> [j \in Index |-> kept[IF at <= j /\ j < end THEN j + 1 ELSE j]]]

\* Variant: the loop that moves the entries down ends one entry too early.
RemoveClient_short(ch, s) ==
  IF s \notin Members(ch) THEN ch ELSE Cut(ch, FirstAt(ch, s), ch.num_users - 1)

\* Variant: the count goes down whether or not the client was there.
RemoveClient_uncounted(ch, s) ==
  IF s \notin Members(ch) THEN [ch EXCEPT !.num_users = @ - 1]
                          ELSE Cut(ch, FirstAt(ch, s), ch.num_users)

\* remove_client_from_channel: nothing when the client is not there.
RemoveClient(ch, s) ==
  IF s \notin Members(ch) THEN ch ELSE Cut(ch, FirstAt(ch, s), ch.num_users)

\* No socket is in two entries of one channel.
Distinct(ch) ==
  \A i, j \in InUse(ch) : ch.address[i].socket = ch.address[j].socket => i = j
=============================================================================
