----------------------------- MODULE MCUdpClient -----------------------------
(* Instances of UdpClient for TLC. *)
EXTENDS UdpClientProperties

AllLines  == LineKinds
Requests  == {"auth", "join", "msg"}
AllSays   == ServerSays
Chats     == {"MSG"}
Silent    == {}
=============================================================================
