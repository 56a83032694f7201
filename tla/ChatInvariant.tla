--------------------------- MODULE ChatInvariant ---------------------------
(***************************************************************************)
(* The inductive invariant behind the safety properties of ChatServer:     *)
(* what a thread's script, its loop variable and the mutexes say about     *)
(* each other.                                                             *)
(***************************************************************************)
EXTENDS ChatProperties

\* The shutdown pass follows the step that locks the list for it.
ListThenBye ==
  \A t \in Threads : \A i \in 1 .. Len(script[t]) :
    script[t][i].do = "lockList" =>
       i < Len(script[t]) /\ script[t][i + 1].do = "byeAll"

\* Nothing else leads to it, so it holds the list from its first channel on.
ByeAfterList ==
  \A t \in Threads : \A i \in 2 .. Len(script[t]) :
    script[t][i].do = "byeAll" => script[t][i - 1].do = "lockList"
ByeHoldsList ==
  server = "up" => \A t \in Threads :
     Doing(t, "byeAll") => \A m \in ListMutexes : mutex[m] = t

\* The UDP thread makes calls for a user only when it has one.
UserKnown ==
  who = NoSocket =>
    \A i \in 1 .. Len(script[UdpThread]) :
       script[UdpThread][i].do \in {"lockList", "byeAll", "quit"}

\* A loop variable is in use only inside a loop, and the loops over a channel
\* and over the list run with both mutexes held.
LoopsLocked ==
  server = "up" => \A t \in Threads :
     idx[t] # 0 => \/ Doing(t, "byeAll")
                   \/ (Doing(t, "send") \/ Doing(t, "create")) /\ Locked(t)

\* What a search of the list has seen so far is not the name it looks for.
SearchSound ==
  server = "up" => \A t \in Threads :
     Doing(t, "create") =>
        /\ idx[t] <= Len(channels)
        /\ \A j \in 1 .. idx[t] : channels[j] # Head(script[t]).name

Inv == /\ TypeOK
       /\ HoldersWork
       /\ ListThenBye
       /\ ByeAfterList
       /\ ByeHoldsList
       /\ UserKnown
       /\ LoopsLocked
       /\ SearchSound
       /\ UniqueNames
       /\ ListedOnce
=============================================================================
