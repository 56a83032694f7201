----------------------------- MODULE StopAndWait -----------------------------
(***************************************************************************)
(* What the UDP client promises about the user's messages: the next one is *)
(* sent when the server has the last one, and the server gets each once,   *)
(* in the order they were typed.                                           *)
(***************************************************************************)
EXTENDS Naturals

VARIABLES sent,      \* how many messages the client has sent
          delivered  \* the first how many of them the server has

abstractVars == <<sent, delivered>>

AbstractInit == sent = 0 /\ delivered = 0

\* The client may send only when nothing is outstanding.
Submit == delivered = sent /\ sent' = sent + 1 /\ UNCHANGED delivered

\* The outstanding message arrives.
Arrive == delivered < sent /\ delivered' = delivered + 1 /\ UNCHANGED sent

StopAndWaitSpec == AbstractInit /\ [][Submit \/ Arrive]_abstractVars
=============================================================================
