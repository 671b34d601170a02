----------------------------- MODULE MuxFraming -----------------------------
(***************************************************************************)
(* One direction of USBMUXInterfaceExpert: usbmux packets are cut out of   *)
(* the bulk transfers that carry them by the length in their header.       *)
(*                                                                         *)
(* A byte stream is a sequence of 32 bit words, each a natural number; a   *)
(* cut inside a word is not modelled.  A v1 header is two words, protocol  *)
(* and length, and a v2 header four, with a magic number and the sequence  *)
(* numbers.  The peer writes packets to the wire.                          *)
(*                                                                         *)
(* A capture has the direction from its start, and then each transfer      *)
(* takes what it likes of the wire; or it begins late, inside a packet,    *)
(* and then the peer is one that writes one packet in each transfer and    *)
(* whose bodies are not taken for headers.                                 *)
(***************************************************************************)
EXTENDS Integers, Sequences, SequencesExt

CONSTANTS
    Packets,      \* the packets the peer sends: [protocol, v2, body]
    Magic,        \* USBMUX_MAGIC_IN or USBMUX_MAGIC_OUT
    MaxPacket,    \* MAX_MUX_PACKET, in words
    PlainPackets, \* those that are sent in a capture that begins late
    Tails,        \* what of a packet may be on the wire when it begins
    MaxPackets    \* bound on the number of packets sent

V1 == 2           \* MUX_HEADER_V1_SIZE
V2 == 4           \* sizeof(mux_header)
TCP == 6          \* MUX_PROTO_TCP, the largest protocol

ASSUME FramingAssumption ==
    /\ Packets \subseteq [protocol : 0..TCP, v2 : BOOLEAN, body : Seq(Nat)]
    /\ \A p \in Packets : /\ Len(p.body) + V2 <= MaxPacket
                          \* a body is not taken for the rest of a v2 header
                          /\ ~p.v2 /\ Len(p.body) >= V2 - V1 => p.body[1] # Magic
    /\ Magic \in Nat /\ MaxPacket \in Nat /\ MaxPacket >= V2 /\ MaxPackets \in Nat
    /\ PlainPackets \subseteq Packets /\ Tails \subseteq Seq(Nat)

\* What is left of the packet a late capture begins inside is not taken for the
\* header of another one: its length or its protocol is none.
ASSUME TailsAssumption ==
    \A tail \in Tails : /\ Len(tail) = 1 => tail[1] > TCP
                        /\ Len(tail) >= V1 => \/ tail[1] > TCP
                                              \/ tail[2] \notin V1..MaxPacket

VARIABLES
    buffer,       \* Direction::buffer
    resyncs,      \* m_resyncs
    late,         \* whether the capture begins inside a packet
    wire,         \* what the peer wrote and no transfer took yet
    sent,         \* history: the packets sent
    delivered     \* history: the calls of processPacket, as packets

vars == <<buffer, resyncs, late, wire, sent, delivered>>

\* What processPacket is given: the header's version does not show.
Content(p) == [protocol |-> p.protocol, body |-> p.body]

\* Types and their bounds: the buffer never holds a whole packet between two
\* transfers, so what is no packet cannot make it grow beyond the largest
\* one, and framing is never found lost in a direction captured from its start.
TypeOK ==
    /\ buffer \in Seq(Nat) /\ Len(buffer) < MaxPacket
    /\ ~late => resyncs = 0
    /\ wire \in Seq(Nat)
    /\ resyncs \in Nat /\ late \in BOOLEAN
    /\ sent \in Seq({Content(p) : p \in Packets})
    /\ delivered \in Seq([protocol : 0..TCP, body : Seq(Nat)])

Init ==
    /\ late \in BOOLEAN
    /\ wire \in IF late THEN Tails ELSE {<<>>}
    /\ buffer = <<>> /\ resyncs = 0 /\ sent = <<>> /\ delivered = <<>>

-----------------------------------------------------------------------------
LengthOf(b) == b[2]

\* Mutant: a packet that is only a header is not one.
LostFramingEmpty(b) == LengthOf(b) <= V1 \/ LengthOf(b) > MaxPacket \/ b[1] > TCP

\* Mutant: no packet is too long.
LostFramingUnbounded(b) == LengthOf(b) < V1 \/ b[1] > TCP

LostFraming(b) == LengthOf(b) < V1 \/ LengthOf(b) > MaxPacket \/ b[1] > TCP

\* Mutant: the magic number is not looked at, every packet is v2.
HeaderLengthAlwaysV2(b) == IF LengthOf(b) >= V2 THEN V2 ELSE V1

HeaderLength(b) == IF LengthOf(b) >= V2 /\ b[3] = Magic THEN V2 ELSE V1

\* Both waits of the loop, for a v2 header and for the whole packet, leave it
\* with nothing changed, and the second one is the longer.
Complete(b) == Len(b) >= LengthOf(b)

FirstPacket(b) == [protocol |-> b[1], body |-> SubSeq(b, HeaderLength(b) + 1, LengthOf(b))]

AfterPacket(b) == SubSeq(b, LengthOf(b) + 1, Len(b))

\* Mutant: the bad header is dropped and what follows it is looked at.
ResyncAtDropsHeader(b) == SubSeq(b, V1 + 1, Len(b))

\* What is left of the buffer when framing is lost: nothing.
ResyncAt(b) == <<>>

\* The loop of feed from a buffer on: what stays in the buffer, what goes to
\* processPacket, and whether framing was lost.
Parsed[b \in Seq(Nat)] ==
    IF Len(b) < V1 THEN [rest |-> b, packets |-> <<>>, lost |-> 0]
    ELSE IF LostFraming(b) THEN [rest |-> ResyncAt(b), packets |-> <<>>, lost |-> 1]
    ELSE IF ~Complete(b) THEN [rest |-> b, packets |-> <<>>, lost |-> 0]
    ELSE LET more == Parsed[AfterPacket(b)]
         IN  [more EXCEPT !.packets = <<FirstPacket(b)>> \o @]

\* feed, after a transfer of at least one word.
Feed(data) ==
    LET result == Parsed[buffer \o data] IN
    /\ buffer' = result.rest
    /\ delivered' = delivered \o result.packets
    /\ resyncs' = resyncs + result.lost

-----------------------------------------------------------------------------
Encoded(p) ==
    IF p.v2 THEN <<p.protocol, V2 + Len(p.body), Magic, 0>> \o p.body
            ELSE <<p.protocol, V1 + Len(p.body)>> \o p.body

Send ==
    /\ Len(sent) < MaxPackets
    /\ late => wire = <<>>
    /\ \E p \in (IF late THEN PlainPackets ELSE Packets) :
        /\ wire' = wire \o Encoded(p)
        /\ sent' = Append(sent, Content(p))
    /\ UNCHANGED <<buffer, resyncs, late, delivered>>

Transfer ==
    /\ \E n \in (IF late THEN {Len(wire)} ELSE 1..Len(wire)) :
        /\ n > 0
        /\ Feed(SubSeq(wire, 1, n))
        /\ wire' = SubSeq(wire, n + 1, Len(wire))
    /\ UNCHANGED <<late, sent>>

Next == Send \/ Transfer

\* The reader hands on every transfer of the capture (the loop of parse).
Spec == Init /\ [][Next]_vars /\ WF_vars(Transfer)

-----------------------------------------------------------------------------
\* A direction captured from its start is a channel: however the packets are
\* split across and packed into transfers they are decoded whole, in order
\* and once, and none is left behind (README, "split across (or packed into)
\* USB transfers").  A late capture maps to a channel nobody uses.
FromStart(seq) == IF late THEN <<>> ELSE seq
Channel == INSTANCE FifoChannel
               WITH Unit <- {Content(p) : p \in Packets},
                    sent <- FromStart(sent), delivered <- FromStart(delivered)
IsFifoChannel == Channel!Spec

\* A capture that begins inside a packet costs that packet and at most the
\* one after it.
LateStartLosesOnePacket ==
    late => \E k \in {0, 1} : IsPrefix(delivered, SubSeq(sent, k + 1, Len(sent)))

\* After the packets that the beginning cost, the others all come out.
LateStartRecovers ==
    (late /\ Len(sent) = MaxPackets) ~> (Len(delivered) >= MaxPackets - 1)
=============================================================================
