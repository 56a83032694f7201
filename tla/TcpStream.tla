------------------------------ MODULE TcpStream ------------------------------
(***************************************************************************)
(* The TCP connection between a client of proj1 and its handler in proj2:  *)
(* two streams.  A message is never split, but TCP knows no messages: what *)
(* was sent as several may come out of one recv, and both programs look    *)
(* only at the beginning of what they received.                            *)
(***************************************************************************)
EXTENDS Integers, Sequences

CONSTANT Coalescing  \* a recv may return several messages
ASSUME StreamAssumption == Coalescing \in BOOLEAN

VARIABLES toServer, toClient,  \* what was sent and not received yet
          closed,              \* the ends that are closed
          merged               \* history: some recv has returned several messages

streamVars == <<toServer, toClient, closed, merged>>

\* What one recv returns: the first n messages.
Batches(s) == {n \in 1 .. Len(s) : Coalescing \/ n = 1}
Rest(s, n) == SubSeq(s, n + 1, Len(s))
Alone(n)   == n = 1
Noted(n)   == merged' = (merged \/ ~Alone(n))
=============================================================================
