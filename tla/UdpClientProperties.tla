------------------------- MODULE UdpClientProperties -------------------------
(***************************************************************************)
(* The correctness properties of the UDP client, over a network that loses,*)
(* repeats and reorders datagrams; and what the repository says of the     *)
(* client and the code does not do.                                        *)
(***************************************************************************)
EXTENDS UdpClient, FiniteSets

Over == pc \in {"done", "dead"}

-----------------------------------------------------------------------------
(* Safety.                                                                 *)

\* messageConfirmed tells the truth: the lock that a message puts on stdin is
\* off only when the server has the message, whatever late or repeated
\* CONFIRMs of earlier messages arrive (udp.c:273).
ConfirmedMeansDelivered ==
  (messageConfirmed /\ setup_msg.op # "NONE") => setup_msg.messageID \in received

\* In state OPEN, in which the user may send messages, the server has accepted
\* the user, whichever REPLYs were lost, late or repeated (udp.c:281-299).
OpenMeansAccepted == present_state = "OPEN" => accepted

\* The client is a stop-and-wait sender.
Transport == INSTANCE StopAndWait WITH
               sent      <- IF setup_msg.op = "NONE" THEN 0 ELSE setup_msg.messageID + 1,
               delivered <- Cardinality(received)

\* No message of the user is sent before the last one has arrived, none is lost
\* between two that arrive, none arrives as two.
InOrder == Transport!StopAndWaitSpec

\* After AUTH or JOIN the user may go on only when the REPLY to it, not that to
\* an earlier request, was accepted (README.md:36: "with the number that refers
\* to the AUTH or JOIN sent before").
ReplyIsForRequest ==
  (Unlocked /\ setup_msg.op \in {"AUTH", "JOIN"} /\ sent_opcode = setup_msg.op) => replied

-----------------------------------------------------------------------------
(* Progress.  The process runs; a datagram on its way arrives in the end;  *)
(* a timeout that is not over will be; the server confirms what it gets    *)
(* and answers requests.  The user need not do anything.                   *)

Loop == Check \/ Close \/ (\E sock \in BOOLEAN : Select(sock)) \/ ReadLine \/ ReadDatagram
        \/ Resend \/ NoResend

Fairness ==
  /\ WF_vars(Loop) /\ SF_vars(Select(TRUE)) /\ SF_vars(Resend)
  /\ SF_vars(\E m \in toServer : ServerGets(m))
  /\ SF_vars(\E r \in owed, ok \in BOOLEAN : ServerReplies(r, ok))

FairSpec == Spec /\ Fairness

\* On a network that delivers in time and in order, with a server that says nothing
\* but its CONFIRMs and REPLYs and for ids below half a byte, stdin is not locked for
\* ever (README.md:36).
UnlocksAgain == ~Unlocked ~> (Unlocked \/ Over)
=============================================================================
