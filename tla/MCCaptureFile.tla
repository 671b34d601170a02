---------------------------- MODULE MCCaptureFile ----------------------------
(***************************************************************************)
(* Files of four blocks after the first header, or two records after that  *)
(* of a pcap file: interfaces of a supported link type and an unsupported  *)
(* one, which has a snap length, packets of two devices, and packets that  *)
(* are too short or no device's.  A shorter file is a longer one cut off.  *)
(***************************************************************************)
EXTENDS CaptureFile

CONSTANTS MaxBlocks, MaxRecords

Block(kind) == [kind |-> kind, magic |-> 0, link |-> 0, snaplen |-> 0, interface |-> 0,
                payload |-> <<>>, length |-> 0]

Section == Block("section")
Interfaces == {[Block("interface") EXCEPT !.link = 249],
               [Block("interface") EXCEPT !.link = 7, !.snaplen = 6]}
Packet(kind, payload, length) ==
    [Block(kind) EXCEPT !.payload = payload, !.length = length]

Enhanced == {Packet("enhanced", <<8>>, 4), Packet("enhanced", <<12, 6>>, 5),
             [Packet("enhanced", <<12, 6>>, 8) EXCEPT !.interface = 1]}
Simple == {Packet("simple", <<8, 6>>, 6), Packet("simple", <<8, 6>>, 10)}
Other == [Block("other") EXCEPT !.payload = <<6>>]

PcapngLayouts[n \in 0..MaxBlocks] ==
    IF n = 0 THEN {<<Section>>}
    ELSE {Append(blocks, b) : blocks \in PcapngLayouts[n - 1],
                              b \in {Section, Other} \cup Interfaces \cup Enhanced \cup Simple}

Pcaps == {[Block("pcap") EXCEPT !.magic = m, !.link = l] :
              m \in {3000, Swap(3001)}, l \in {249, 20249, 7}}
Records == {Packet("record", p, Word * Len(p)) : p \in {<<>>, <<99>>, <<8>>, <<12, 6>>}}

MCLayouts ==
    {blocks \in PcapngLayouts[MaxBlocks] :
        Last(blocks) \in Enhanced \cup Simple /\ PcapngFile(blocks)}
    \cup {<<header>> \o records : header \in Pcaps, records \in [1..MaxRecords -> Records]}

\* Types, lengths, interfaces and magic numbers where they do not belong.
MCValues == {0, 1, 6, 13, 16, 20, 99, 1000}
=============================================================================
