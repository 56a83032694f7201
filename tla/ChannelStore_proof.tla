------------------------- MODULE ChannelStore_proof -------------------------
(***************************************************************************)
(* What add_client and remove_client_from_channel do to a channel, for     *)
(* every number of entries: the facts the proofs about ChatServer cite.    *)
(***************************************************************************)
EXTENDS ChannelStore, TLAPS

\* A channel after any of the three ways out of add_client.
AfterAdd(ch, s, b) ==
  IF s \in Members(ch) \/ ch.num_users >= MaxUsers THEN ch ELSE AddClient(ch, s, b)

\* add_client leaves a channel a channel: the array is never overrun.
LEMMA AddClientType ==
  ASSUME NEW ch \in Channel, NEW s \in Sockets \cup {NoSocket}, NEW b \in BOOLEAN
  PROVE  AfterAdd(ch, s, b) \in Channel
<1>1. CASE s \in Members(ch) \/ ch.num_users >= MaxUsers
  BY <1>1 DEF AfterAdd
<1>2. CASE ~(s \in Members(ch) \/ ch.num_users >= MaxUsers)
  <2> DEFINE n == ch.num_users
             x == Entry(ch.address[n + 1], s, b)
  <2>1. n \in 0 .. MaxUsers /\ n + 1 \in Index /\ ch.address \in [Index -> Slot]
    BY <1>2, StoreAssumption DEF Channel, Index
  <2>2. ch.address[n + 1] \in Slot
    BY <2>1
  <2>3. x \in Slot
    BY <2>2 DEF Entry, Slot
  <2>4. AddClient(ch, s, b) =
          [num_users |-> n + 1, address |-> [ch.address EXCEPT ![n + 1] = x]]
    BY <2>1 DEF AddClient, Channel
  <2> HIDE DEF x
  <2>5. [ch.address EXCEPT ![n + 1] = x] \in [Index -> Slot] /\ n + 1 \in 0 .. MaxUsers
    BY <1>2, <2>1, <2>3, StoreAssumption
  <2> QED  BY <1>2, <2>4, <2>5 DEF AfterAdd, Channel
<1> QED  BY <1>1, <1>2

\* Freeing an address leaves the entries entries, and their sockets alone.
LEMMA FreedType ==
  ASSUME NEW ch \in Channel, NEW e
  PROVE  /\ Freed(ch, e) \in [Index -> Slot]
         /\ \A j \in Index : Freed(ch, e)[j].socket = ch.address[j].socket
<1>1. ASSUME NEW x \in Slot
      PROVE  /\ [x EXCEPT !.udp_address = NoSocket] \in Slot
             /\ [x EXCEPT !.udp_address = NoSocket].socket = x.socket
  BY DEF Slot
<1>2. \A j \in Index : ch.address[j] \in Slot
  BY DEF Channel
<1> QED  BY <1>1, <1>2 DEF Freed

\* What the removal of entry at leaves, of the sockets: those behind it move down.
LEMMA CutSockets ==
  ASSUME NEW ch \in Channel, NEW at \in 1 .. ch.num_users
  PROVE  LET new == Cut(ch, at, ch.num_users)
         IN  /\ new.num_users = ch.num_users - 1
             /\ new.address \in [Index -> Slot]
             /\ \A i \in 1 .. ch.num_users - 1 :
                  new.address[i].socket = ch.address[IF at <= i THEN i + 1 ELSE i].socket
<1> DEFINE n == ch.num_users
           kept == Freed(ch, ch.address[at])
           from(j) == IF at <= j /\ j < n THEN j + 1 ELSE j
           moved == [j \in Index |-> kept[from(j)]]
<1>1. n \in 1 .. MaxUsers /\ at \in 1 .. n /\ n \in Nat /\ MaxUsers \in Nat
  BY StoreAssumption DEF Channel
<1>2. Cut(ch, at, n) = [num_users |-> n - 1, address |-> moved]
  BY DEF Cut
<1>3. \A j \in Index : from(j) \in Index
  BY <1>1 DEF Index
<1>4. kept \in [Index -> Slot] /\ \A j \in Index : kept[j].socket = ch.address[j].socket
  BY FreedType
<1> HIDE DEF kept
<1>5. moved \in [Index -> Slot] /\ \A j \in Index : moved[j].socket = ch.address[from(j)].socket
  BY <1>3, <1>4
<1>6. \A i \in 1 .. n - 1 : i \in Index /\ from(i) = IF at <= i THEN i + 1 ELSE i
  BY <1>1 DEF Index
<1> HIDE DEF from, moved
<1> QED  BY <1>2, <1>5, <1>6

\* So does remove_client_from_channel: the count does not go below zero.
LEMMA RemoveClientType ==
  ASSUME NEW ch \in Channel, NEW s
  PROVE  RemoveClient(ch, s) \in Channel
<1>1. CASE s \notin Members(ch)
  BY <1>1 DEF RemoveClient
<1>2. CASE s \in Members(ch)
  <2> DEFINE n == ch.num_users
             kept == Freed(ch, ch.address[FirstAt(ch, s)])
             from(j) == IF FirstAt(ch, s) <= j /\ j < n THEN j + 1 ELSE j
  <2>1. n \in 1 .. MaxUsers
    BY <1>2, StoreAssumption DEF Members, InUse, Channel
  <2>2. \A j \in Index : from(j) \in Index
    BY <2>1, StoreAssumption DEF Index
  <2>3. kept \in [Index -> Slot]
    BY FreedType
  <2>4. RemoveClient(ch, s) = [num_users |-> n - 1, address |-> [j \in Index |-> kept[from(j)]]]
    BY <1>2 DEF RemoveClient, Cut
  <2> HIDE DEF kept, from
  <2>5. [j \in Index |-> kept[from(j)]] \in [Index -> Slot]
    BY <2>2, <2>3
  <2>6. n - 1 \in 0 .. MaxUsers
    BY <2>1, StoreAssumption
  <2> QED  BY <2>4, <2>5, <2>6 DEF Channel
<1> QED  BY <1>1, <1>2

\* What add_client leaves, of the sockets: one more, behind the others.
LEMMA AddClientSockets ==
  ASSUME NEW ch \in Channel, NEW s, NEW b, ch.num_users < MaxUsers
  PROVE  LET new == AddClient(ch, s, b)
         IN  /\ new.num_users = ch.num_users + 1
             /\ new.address[ch.num_users + 1].socket = s
             /\ \A i \in 1 .. ch.num_users : new.address[i] = ch.address[i]
<1> DEFINE n == ch.num_users
           x == Entry(ch.address[n + 1], s, b)
<1>1. n \in Nat /\ n + 1 \in Index /\ ch.address \in [Index -> Slot] /\ ch.address[n + 1] \in Slot
  BY StoreAssumption DEF Channel, Index
<1>2. x.socket = s
  BY <1>1 DEF Entry, Slot
<1>3. AddClient(ch, s, b) = [num_users |-> n + 1, address |-> [ch.address EXCEPT ![n + 1] = x]]
  BY <1>1 DEF AddClient, Channel
<1> HIDE DEF x
<1>4. \A i \in 1 .. n : i \in Index /\ i # n + 1
  BY <1>1, StoreAssumption DEF Index
<1> QED  BY <1>1, <1>2, <1>3, <1>4

\* add_client does not list a client twice.
LEMMA AddClientDistinct ==
  ASSUME NEW ch \in Channel, NEW s, NEW b, Distinct(ch)
  PROVE  Distinct(AfterAdd(ch, s, b))
<1>1. CASE s \in Members(ch) \/ ch.num_users >= MaxUsers
  BY <1>1 DEF AfterAdd
<1>2. CASE s \notin Members(ch) /\ ~(ch.num_users >= MaxUsers)
  <2> DEFINE n == ch.num_users
             new == AddClient(ch, s, b)
  <2>1. n \in Nat /\ n < MaxUsers
    BY <1>2, StoreAssumption DEF Channel
  <2>2. /\ new.num_users = n + 1 /\ new.address[n + 1].socket = s
        /\ \A i \in 1 .. n : new.address[i] = ch.address[i]
    BY <2>1, AddClientSockets
  <2>3. AfterAdd(ch, s, b) = new
    BY <1>2 DEF AfterAdd
  <2> HIDE DEF new
  <2>4. \A i \in 1 .. n : ch.address[i].socket # s
    BY <1>2 DEF Members, InUse
  <2>5. \A i, j \in 1 .. n : ch.address[i].socket = ch.address[j].socket => i = j
    BY DEF Distinct, InUse
  <2>6. \A i \in InUse(new) : i \in 1 .. n \/ i = n + 1
    BY <2>1, <2>2 DEF InUse
  <2>7. Distinct(new)
    BY <2>2, <2>4, <2>5, <2>6 DEF Distinct
  <2> QED  BY <2>3, <2>7
<1> QED  BY <1>1, <1>2

\* With no client listed twice, the entry the removal stops at is the client's.
LEMMA FirstAtFound ==
  ASSUME NEW ch \in Channel, NEW s \in Members(ch), Distinct(ch)
  PROVE  /\ FirstAt(ch, s) \in InUse(ch)
         /\ ch.address[FirstAt(ch, s)].socket = s
<1>1. PICK i \in InUse(ch) : ch.address[i].socket = s
  BY DEF Members
<1>2. \A j \in InUse(ch) : j < i => ch.address[j].socket # s
  BY <1>1 DEF Distinct, InUse, Channel
<1> QED  BY <1>1, <1>2 DEF FirstAt

\* remove_client_from_channel keeps the entries distinct.
LEMMA RemoveClientDistinct ==
  ASSUME NEW ch \in Channel, NEW s, Distinct(ch)
  PROVE  Distinct(RemoveClient(ch, s))
<1>1. CASE s \notin Members(ch)
  BY <1>1 DEF RemoveClient
<1>2. CASE s \in Members(ch)
  <2> DEFINE at == FirstAt(ch, s)
             n  == ch.num_users
             new == Cut(ch, at, n)
             from(i) == IF at <= i THEN i + 1 ELSE i
  <2>1. at \in 1 .. n /\ n \in 1 .. MaxUsers
    BY <1>2, FirstAtFound, StoreAssumption DEF InUse, Channel
  <2>2. RemoveClient(ch, s) = new
    BY <1>2 DEF RemoveClient
  <2>3. /\ new.num_users = n - 1
        /\ \A i \in 1 .. n - 1 : new.address[i].socket = ch.address[from(i)].socket
    BY <2>1, CutSockets
  <2>4. InUse(new) = 1 .. n - 1
    BY <2>3 DEF InUse
  <2> HIDE DEF new
  <2>5. ASSUME NEW i \in 1 .. n - 1, NEW j \in 1 .. n - 1,
               new.address[i].socket = new.address[j].socket
        PROVE  i = j
    <3>1. from(i) \in 1 .. n /\ from(j) \in 1 .. n
      BY <2>1
    <3>2. from(i) = from(j)
      BY <2>3, <2>5, <3>1 DEF Distinct, InUse
    <3> QED  BY <2>1, <3>2
  <2> QED  BY <2>2, <2>4, <2>5 DEF Distinct
<1> QED  BY <1>1, <1>2

\* add_client lists the client, and nobody else disappears.
LEMMA AddClientMembers ==
  ASSUME NEW ch \in Channel, NEW s, NEW b, ch.num_users < MaxUsers
  PROVE  Members(AfterAdd(ch, s, b)) = Members(ch) \cup {s}
<1>1. CASE s \in Members(ch)
  BY <1>1 DEF AfterAdd
<1>2. CASE s \notin Members(ch)
  <2> DEFINE n == ch.num_users
             new == AddClient(ch, s, b)
  <2>1. n \in Nat /\ ~(n >= MaxUsers)
    BY StoreAssumption DEF Channel
  <2>2. /\ new.num_users = n + 1 /\ new.address[n + 1].socket = s
        /\ \A i \in 1 .. n : new.address[i] = ch.address[i]
    BY AddClientSockets
  <2>3. AfterAdd(ch, s, b) = new
    BY <1>2, <2>1 DEF AfterAdd
  <2> HIDE DEF new
  <2>4. InUse(new) = InUse(ch) \cup {n + 1} /\ InUse(ch) = 1 .. n
    BY <2>1, <2>2 DEF InUse
  <2>5. Members(new) = Members(ch) \cup {s}
    BY <2>2, <2>4 DEF Members
  <2> QED  BY <2>3, <2>5
<1> QED  BY <1>1, <1>2

\* remove_client_from_channel unlists the client and nobody else.
LEMMA RemoveClientMembers ==
  ASSUME NEW ch \in Channel, NEW s, Distinct(ch)
  PROVE  Members(RemoveClient(ch, s)) = Members(ch) \ {s}
<1>1. CASE s \notin Members(ch)
  BY <1>1 DEF RemoveClient
<1>2. CASE s \in Members(ch)
  <2> DEFINE at == FirstAt(ch, s)
             n  == ch.num_users
             new == RemoveClient(ch, s)
             from(k) == IF at <= k THEN k + 1 ELSE k
  <2>1. at \in 1 .. n /\ n \in 1 .. MaxUsers /\ ch.address[at].socket = s
    BY <1>2, FirstAtFound, StoreAssumption DEF InUse, Channel
  <2>0. new = Cut(ch, at, n)
    BY <1>2 DEF RemoveClient
  <2>3. /\ new.num_users = n - 1
        /\ \A i \in 1 .. n - 1 : new.address[i].socket = ch.address[from(i)].socket
    BY <2>0, <2>1, CutSockets
  <2>2. InUse(new) = 1 .. n - 1 /\ InUse(ch) = 1 .. n
    BY <2>3 DEF InUse
  <2> HIDE DEF new
  <2>4. \A i \in 1 .. n - 1 : from(i) \in 1 .. n /\ from(i) # at
    BY <2>1
  <2>5. \A k \in 1 .. n : k # at => \E i \in 1 .. n - 1 : from(i) = k
    <3> SUFFICES ASSUME NEW k \in 1 .. n, k # at
                 PROVE  \E i \in 1 .. n - 1 : from(i) = k
      OBVIOUS
    <3>1. CASE k < at
      BY <2>1, <3>1
    <3>2. CASE k > at
      <4>1. k - 1 \in 1 .. n - 1 /\ from(k - 1) = k
        BY <2>1, <3>2
      <4> QED  BY <4>1
    <3> QED  BY <2>1, <3>1, <3>2
  <2>6. \A k \in 1 .. n : k # at => ch.address[k].socket # s
    BY <2>1, <2>2 DEF Distinct
  <2> HIDE DEF from
  <2>7. ASSUME NEW x \in Members(new)  PROVE x \in Members(ch) \ {s}
    <3>1. PICK i \in 1 .. n - 1 : x = new.address[i].socket
      BY <2>2 DEF Members
    <3> QED  BY <2>2, <2>3, <2>4, <2>6, <3>1 DEF Members
  <2>8. ASSUME NEW x \in Members(ch) \ {s}  PROVE x \in Members(new)
    <3>1. PICK k \in 1 .. n : x = ch.address[k].socket
      BY <2>2 DEF Members
    <3>2. PICK i \in 1 .. n - 1 : from(i) = k
      BY <2>1, <2>5, <3>1
    <3> QED  BY <2>2, <2>3, <3>1, <3>2 DEF Members
  <2> QED  BY <2>7, <2>8 DEF new
<1> QED  BY <1>1, <1>2
=============================================================================
