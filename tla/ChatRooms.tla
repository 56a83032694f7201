------------------------------ MODULE ChatRooms ------------------------------
(***************************************************************************)
(* What the server promises about channels (proj2/README.md, "Spolecne     *)
(* chovani"): a client is in no room until it is admitted, in at most one  *)
(* room at a time, it goes from one room to another by leaving the first,  *)
(* and a room that exists stays.  No threads, no locks, no messages.       *)
(***************************************************************************)
EXTENDS Naturals

CONSTANTS Clients,
          MaxRooms   \* a number

VARIABLES room,      \* the room of each client, 0: none
          opened,    \* rooms 1 .. opened exist; room 1 is the default one
          admitted   \* the clients that are authenticated

roomVars == <<room, opened, admitted>>

RoomsInit == /\ room = [c \in Clients |-> 0]
             /\ opened = 1
             /\ admitted = {}

Admit(c) == /\ c \notin admitted
            /\ admitted' = admitted \cup {c}
            /\ UNCHANGED <<room, opened>>

Dismiss(c) == /\ c \in admitted
              /\ admitted' = admitted \ {c}
              /\ UNCHANGED <<room, opened>>

Enter(c, r) == /\ c \in admitted /\ room[c] = 0
               /\ r \in 1 .. opened
               /\ room' = [room EXCEPT ![c] = r]
               /\ UNCHANGED <<opened, admitted>>

Leave(c) == /\ room[c] # 0
            /\ room' = [room EXCEPT ![c] = 0]
            /\ UNCHANGED <<opened, admitted>>

Open == /\ opened < MaxRooms
        /\ opened' = opened + 1
        /\ UNCHANGED <<room, admitted>>

RoomsNext == \/ \E c \in Clients : \/ Admit(c) \/ Dismiss(c) \/ Leave(c)
                                   \/ \E r \in 1 .. MaxRooms : Enter(c, r)
             \/ Open

RoomsSpec == RoomsInit /\ [][RoomsNext]_roomVars
=============================================================================
