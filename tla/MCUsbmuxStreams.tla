--------------------------- MODULE MCUsbmuxStreams ---------------------------
(***************************************************************************)
(* Two host ports, lockdownd and one port that goes from service to        *)
(* service; symmetric in the host ports and in the services.               *)
(***************************************************************************)
EXTENDS UsbmuxStreams, TLC

CONSTANTS h1, h2, s1, s2, p

MCHostPorts == {h1, h2}
MCServices == {s1, s2}

\* A property list of neither kind, and the answers that give the port away.
MCMessages == {[service |-> NoName, port |-> NoName]} \cup [service : MCServices, port : {p}]

Symmetry == Permutations(MCHostPorts) \cup Permutations(MCServices)
=============================================================================
