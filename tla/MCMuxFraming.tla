--------------------------- MODULE MCMuxFraming ---------------------------
(***************************************************************************)
(* MuxFraming with packets that have no body, a body that could be a       *)
(* header, and a body that could not.                                      *)
(***************************************************************************)
EXTENDS MuxFraming

\* Packets whose bodies do not look like the beginning of a packet.
MCPlainPackets ==
    {[protocol |-> 0, v2 |-> FALSE, body |-> <<50>>]}
    \cup [protocol : {6}, v2 : BOOLEAN, body : {<<>>, <<50, 60>>}]

MCPackets ==
    MCPlainPackets \cup [protocol : {6}, v2 : BOOLEAN, body : {<<0, 2>>, <<50, 0, 3>>}]

MCTails == {<<50>>, <<60, 50>>, <<50, 60, 50>>, <<3, 60>>, <<60, 3, 50>>}
=============================================================================
