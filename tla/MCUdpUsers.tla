----------------------------- MODULE MCUdpUsers -----------------------------
(* An instance of UdpUsers for TLC. *)
EXTENDS UdpUsers, TLC

CONSTANTS p1, p2, p3, s1, s2, a

Near == {p1, p2}
Everybody == {p1, p2, p3}
PortOf == [p \in Peers |-> p]
Sockets == {s1, s2}
Channels == {General, a}
Symmetry == Permutations(Near) \cup Permutations(Sockets)
=============================================================================
