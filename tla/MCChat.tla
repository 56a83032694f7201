------------------------------- MODULE MCChat -------------------------------
(* Instances of ChatServer for TLC: a handful of clients as model values. *)
EXTENDS ChatInvariant, TLC

CONSTANTS t1, t2, u1, u2, a, b

NoClients == {}
OneTcp == {t1}
TwoTcp == {t1, t2}
OneUdp == {u1}
TwoUdp == {u1, u2}
AllSockets == TcpClients \cup UdpClients
OnlyGeneral == {General}
OneName == {General, a}
TwoNames == {General, a, b}

\* What the guards and the properties of most runs read: all but the text of the
\* shared message, and of a channel only the sockets in use.  The flags, the
\* addresses and what the entries past num_users still hold decide only whether a
\* removal may end the process (FreesTwice), which leaves everything as it was.
Listed(ch) == [i \in InUse(ch) |-> ch.address[i].socket]
Essential == <<server, channels, [k \in Chans |-> Listed(chan[k])], userVars, envVars,
               threadVars, callVars, byed>>

Symmetry == Permutations(TcpClients) \cup Permutations(UdpClients)
=============================================================================
