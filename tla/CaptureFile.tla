----------------------------- MODULE CaptureFile -----------------------------
(***************************************************************************)
(* The way of a capture file through the program: InputFile::open chooses  *)
(* the reader, the loop of PcapNGInputFile or PcapInputFile finds the      *)
(* packets, InputFile::processPacket hands each to its device, and main    *)
(* reports what was parsed.                                                *)
(*                                                                         *)
(* A file is a sequence of 32 bit words and a size in bytes; the lengths   *)
(* in it are in bytes, as in the code.  Structures keep the fields the     *)
(* code reads and no others: a section header block has a magic number     *)
(* and one word more, an enhanced packet block an interface and a length,  *)
(* a pcap file header a magic number and a link type, and a record header  *)
(* a length.  The file is a well formed one that may be damaged in one     *)
(* place: cut off after any byte, or with any one word overwritten.        *)
(***************************************************************************)
EXTENDS Integers, Sequences, SequencesExt, FiniteSetsExt

CONSTANTS
    Layouts,          \* the well formed files: sequences of blocks
    Values,           \* the words a damaged one is overwritten with
    Supported,        \* the link types processPacket knows
    BadHeaders,       \* words no packet header of a device begins with
    MaxWarnings       \* MAX_WARNINGS

Word == 4
SectionHeader == 1000             \* TYPE_SECTION_HEADER
InterfaceDescription == 1         \* TIME_INTERFACE_DESCRIPTOR_BLOCK
SimplePacket == 3                 \* TYPE_SIMPLE_PACKET_BLOCK
EnhancedPacket == 6               \* TYPE_ENHANCED_PACKET_BLOCK
ByteOrderMagic == 2000            \* PCAPNG_BYTE_ORDER_MAGIC
ByteOrderMagicSwapped == 2001     \* PCAPNG_BYTE_ORDER_MAGIC_SWAPPED
PcapMagics == {3000, 3001}        \* PCAP_MAGIC_MICROSECONDS, .._NANOSECONDS

\* What a word of a file header or a record header is less than, its other byte
\* order, and the bits of a pcap link type that are not FCS information (scaled).
WordLimit == 200000
Swap(word) == IF word >= 100000 THEN word - 100000 ELSE word + 100000
LinkBits(word) == word % 10000

\* A block of a layout, with the fields that its kind has.  The length of a
\* packet is in bytes: its last word may be padded, and a simple packet block has
\* no more of it than the snap length.
Blocks == [kind : {"section", "interface", "enhanced", "simple", "other", "pcap", "record"},
           magic : Nat, link : Nat, snaplen : Nat, interface : Nat,
           payload : Seq(Nat), length : Nat]

ASSUME FileAssumption ==
    /\ \A layout \in Layouts : layout \in Seq(Blocks) /\ layout # <<>>
    /\ Values \subseteq Nat /\ Supported \subseteq Nat /\ BadHeaders \subseteq Nat
    /\ MaxWarnings \in Nat

\* The section a block is in, and the interfaces the section has declared by
\* then, in order.
SectionOf(blocks, i) == Max({0} \cup {j \in 1..i : blocks[j].kind = "section"})

InterfacesOf(blocks, i) ==
    FlattenSeq([j \in 1..i |->
        IF j > SectionOf(blocks, i) /\ blocks[j].kind = "interface"
        THEN <<[link |-> blocks[j].link, snaplen |-> blocks[j].snaplen]>> ELSE <<>>])

\* A simple packet block has the length of its packet, cut at the snap length.
SimpleLength(blocks, i) ==
    LET snaplen == InterfacesOf(blocks, i)[1].snaplen IN
    IF snaplen # 0 THEN Min({blocks[i].length, snaplen}) ELSE blocks[i].length

\* What a writer writes: a pcapng file begins with a section, its packets are of
\* interfaces their section declares, and what is left of a packet is in its
\* block; a record of a pcap file is as long as it says.
PcapngFile(blocks) ==
    /\ blocks[1].kind = "section"
    /\ \A i \in DOMAIN blocks :
        LET payload == Word * Len(blocks[i].payload) IN
        /\ blocks[i].kind \notin {"pcap", "record"}
        /\ blocks[i].kind = "enhanced" =>
               blocks[i].interface < Len(InterfacesOf(blocks, i)) /\ blocks[i].length <= payload
        /\ blocks[i].kind = "simple" =>
               InterfacesOf(blocks, i) # <<>> /\ SimpleLength(blocks, i) <= payload

PcapFile(blocks) ==
    /\ blocks[1].kind = "pcap" /\ blocks[1].link < WordLimit
    /\ blocks[1].magic \in PcapMagics \cup {Swap(m) : m \in PcapMagics}
    /\ \A i \in 2..Len(blocks) :
        /\ blocks[i].kind = "record"
        /\ blocks[i].length = Word * Len(blocks[i].payload) /\ blocks[i].length < WordLimit

ASSUME LayoutAssumption == \A blocks \in Layouts : PcapngFile(blocks) \/ PcapFile(blocks)

VARIABLES
    layout,                   \* the file as it was written
    damage,                   \* what happened to it
    file,                     \* its words now
    size,                     \* its length now, in bytes
    status,                   \* how far the program is
    offset,                   \* offset, in parse
    interfaces,               \* interfaces, in PcapNGInputFile::parse
    m_packetCount,
    m_warnings,               \* m_warnings, by what each is about
    m_warningCount,
    m_unsupportedLinktypes,
    m_deviceOrder,            \* m_deviceOrder; m_devices has the same keys
    packets                   \* history: the calls of processPacket

fileVars == <<layout, damage, file, size>>
counters == <<m_packetCount, m_warnings, m_warningCount, m_unsupportedLinktypes,
              m_deviceOrder, packets>>
readerVars == <<fileVars, status, offset, interfaces, counters>>

Statuses == {"start", "pcapng", "pcap header", "pcap", "parsed", "error", "refused", "reported"}

FileTypeOK ==
    /\ status \in Statuses
    /\ offset \in 0..size
    /\ \A i \in DOMAIN interfaces : interfaces[i] \in [link : Nat, snaplen : Nat]
    /\ m_packetCount = Len(packets)
    /\ Len(m_warnings) = Min({m_warningCount, MaxWarnings})
    /\ m_unsupportedLinktypes \cap Supported = {}
    /\ \A p \in ToSet(packets) : p \in [link : Nat, at : Nat, length : Nat]

-----------------------------------------------------------------------------
\* What the writer of the file wrote.
Framed(type, body) ==
    LET length == Word * (Len(body) + 3) IN <<type, length>> \o body \o <<length>>

\* A pcap file is in the byte order of its magic number.
Order(word) ==
    IF layout[1].kind = "pcap" /\ layout[1].magic \notin PcapMagics THEN Swap(word) ELSE word

Encoded(block) ==
    CASE block.kind = "section" -> Framed(SectionHeader, <<ByteOrderMagic, 1>>)
      [] block.kind = "interface" -> Framed(InterfaceDescription, <<block.link, block.snaplen>>)
      [] block.kind = "enhanced" -> Framed(EnhancedPacket, <<block.interface, block.length>> \o block.payload)
      [] block.kind = "simple" -> Framed(SimplePacket, <<block.length>> \o block.payload)
      [] block.kind = "other" -> Framed(5, block.payload)
      [] block.kind = "pcap" -> <<block.magic, Order(block.link)>>
      [] block.kind = "record" -> <<Order(block.length)>> \o block.payload

Written(blocks) == FlattenSeq([i \in DOMAIN blocks |-> Encoded(blocks[i])])

\* The one place where a file is damaged: "at" counts bytes for a cut, and
\* words for one that is overwritten.  The words of a pcap file stay aligned.
Damages(words) ==
    {[kind |-> "none", at |-> 0, value |-> 0]}
    \cup {[kind |-> "cut", at |-> n, value |-> 0] : n \in 0..(Word * Len(words) - 1)}
    \cup {[kind |-> "word", at |-> i, value |-> v] : i \in DOMAIN words,
             v \in {v \in Values : layout[1].kind = "pcap" => v % Word = 0}}

FileInit ==
    /\ layout \in Layouts
    /\ LET words == Written(layout) IN
       /\ damage \in Damages(words)
       /\ file = IF damage.kind = "word" THEN [words EXCEPT ![damage.at] = damage.value] ELSE words
       /\ size = IF damage.kind = "cut" THEN damage.at ELSE Word * Len(words)
    /\ status = "start" /\ offset = 0 /\ interfaces = <<>>
    /\ m_packetCount = 0 /\ m_warnings = <<>> /\ m_warningCount = 0
    /\ m_unsupportedLinktypes = {} /\ m_deviceOrder = <<>> /\ packets = <<>>

-----------------------------------------------------------------------------
\* The word at a byte, and whether a structure of n words is there (readStruct).
WordAt(at) == file[at \div Word + 1]
HasStruct(at, n, end) == at + Word * n <= end

\* Mutant: the first warnings make room for the last.
WarnedKeepsLast(warning) ==
    /\ m_warningCount' = m_warningCount + 1
    /\ m_warnings' = Append(m_warnings, warning)

\* warn.
Warned(warning) ==
    /\ m_warningCount' = m_warningCount + 1
    /\ m_warnings' = IF Len(m_warnings) < MaxWarnings THEN Append(m_warnings, warning) ELSE m_warnings

NotWarned == UNCHANGED <<m_warningCount, m_warnings>>

Warn(warning) ==
    /\ Warned(warning)
    /\ UNCHANGED <<m_packetCount, m_unsupportedLinktypes, m_deviceOrder, packets>>

\* Mutant: a device is listed whenever a packet of it is seen.
ListedAgain(id) == Append(m_deviceOrder, id)

\* handleFor.
Listed(id) == IF id \in ToSet(m_deviceOrder) THEN m_deviceOrder ELSE Append(m_deviceOrder, id)

\* processPacket, with the checks of a packet's header that the process_...
\* functions make first: its first word is the device.
ProcessPacket(link, at, length) ==
    /\ m_packetCount' = m_packetCount + 1
    /\ packets' = Append(packets, [link |-> link, at |-> at, length |-> length])
    /\ IF link \notin Supported
       THEN /\ m_unsupportedLinktypes' = m_unsupportedLinktypes \cup {link}
            /\ IF link \in m_unsupportedLinktypes THEN NotWarned ELSE Warned("link type")
            /\ UNCHANGED m_deviceOrder
       ELSE /\ UNCHANGED m_unsupportedLinktypes
            /\ IF length < Word \/ WordAt(at) \in BadHeaders
               THEN Warned("packet header") /\ UNCHANGED m_deviceOrder
               ELSE NotWarned /\ m_deviceOrder' = Listed(WordAt(at))

\* InputFile::open: a file that is too short or begins with no known magic
\* number is refused, and main exits with an error.
Open ==
    /\ status = "start"
    /\ status' = IF size < Word THEN "refused"
                 ELSE IF WordAt(0) = SectionHeader THEN "pcapng"
                 ELSE IF WordAt(0) \in PcapMagics \cup {Swap(m) : m \in PcapMagics} THEN "pcap header"
                 ELSE "refused"
    /\ UNCHANGED <<fileVars, offset, interfaces, counters>>

-----------------------------------------------------------------------------
\* PcapNGInputFile::parse.  The block at "offset".
Overhead == 3 * Word              \* BLOCK_OVERHEAD
BlockType == WordAt(offset)
BlockLength == WordAt(offset + Word)
Body == offset + 2 * Word
BodyLength == BlockLength - Overhead
IsSection == BlockType = SectionHeader

Truncated == size - offset < Overhead

\* What is wrong with a section header: not at the offset 0 only.
BadSection ==
    IsSection /\ (~HasStruct(Body, 2, size) \/ WordAt(Body) # ByteOrderMagic)

\* The length is impossible, or not the one repeated at the end.
BadFraming ==
    \/ BlockLength < Overhead \/ BlockLength % Word # 0 \/ BlockLength > size - offset
    \/ WordAt(offset + BlockLength - Word) # BlockLength

Stop(why) == Warn(why) /\ status' = "parsed" /\ UNCHANGED <<offset, interfaces>>
Throw == status' = "error" /\ UNCHANGED <<offset, interfaces, counters>>

\* Mutant: interfaces are numbered through the whole file.
InterfacesOfFile == interfaces

\* Interface ids are scoped to their section.
InterfacesNow == IF IsSection THEN <<>> ELSE interfaces

InterfaceBlock ==
    IF BodyLength >= 2 * Word
    THEN /\ interfaces' = Append(interfaces, [link |-> WordAt(Body), snaplen |-> WordAt(Body + Word)])
         /\ UNCHANGED counters
    ELSE Warn("interface") /\ UNCHANGED interfaces

\* Mutant: the data of a packet may go beyond its block.
OverrunsFile(captured) == captured > size - Body - 2 * Word

Overruns(captured) == captured > BodyLength - 2 * Word

EnhancedBlock ==
    LET id == WordAt(Body)
        captured == WordAt(Body + Word)
    IN  IF BodyLength < 2 * Word THEN Warn("enhanced packet")
        ELSE IF id >= Len(interfaces) THEN Warn("undeclared interface")
        ELSE IF Overruns(captured) THEN Warn("overrun")
        ELSE ProcessPacket(interfaces[id + 1].link, Body + 2 * Word, captured)

\* A simple packet block has no length of its data but the packet's own, which
\* the snap length of the first interface bounds.
Captured(packetLength, snaplen) ==
    Min({packetLength, BodyLength - Word} \cup (IF snaplen # 0 THEN {snaplen} ELSE {}))

SimpleBlock ==
    IF BodyLength < Word \/ interfaces = <<>> THEN Warn("simple packet")
    ELSE ProcessPacket(interfaces[1].link, Body + Word,
                       Captured(WordAt(Body), interfaces[1].snaplen))

\* One iteration of the loop.
NextBlock ==
    /\ status = "pcapng" /\ offset < size
    /\ IF Truncated THEN Stop("truncated block")
       ELSE IF BadSection \/ (BadFraming /\ offset = 0) THEN Throw
       ELSE IF BadFraming THEN Stop("framing")
       ELSE /\ offset' = offset + BlockLength
            /\ UNCHANGED status
            /\ CASE BlockType = InterfaceDescription -> InterfaceBlock
                 [] BlockType = EnhancedPacket -> EnhancedBlock /\ UNCHANGED interfaces
                 [] BlockType = SimplePacket -> SimpleBlock /\ UNCHANGED interfaces
                 [] OTHER -> interfaces' = InterfacesNow /\ UNCHANGED counters
    /\ UNCHANGED fileVars

-----------------------------------------------------------------------------
\* PcapInputFile::parse.
Value(word) == IF WordAt(0) \in PcapMagics THEN word ELSE Swap(word)
LinkType == LinkBits(Value(WordAt(Word)))

PcapHeader ==
    /\ status = "pcap header"
    /\ IF HasStruct(0, 2, size)
       THEN status' = "pcap" /\ offset' = 2 * Word /\ UNCHANGED <<interfaces, counters>>
       ELSE Throw
    /\ UNCHANGED fileVars

NextRecord ==
    /\ status = "pcap" /\ offset < size
    /\ LET included == Value(WordAt(offset)) IN
       IF ~HasStruct(offset, 1, size) THEN Stop("record header")
       ELSE IF included > size - offset - Word THEN Stop("record")
       ELSE /\ ProcessPacket(LinkType, offset + Word, included)
            /\ offset' = offset + Word + included
            /\ UNCHANGED <<status, interfaces>>
    /\ UNCHANGED fileVars

EndOfFile ==
    /\ status \in {"pcapng", "pcap"} /\ offset >= size
    /\ status' = "parsed"
    /\ UNCHANGED <<fileVars, offset, interfaces, counters>>

\* main reports what was parsed, also after an error in parse, and exits with 0.
Report ==
    /\ status \in {"parsed", "error"}
    /\ status' = "reported"
    /\ UNCHANGED <<fileVars, offset, interfaces, counters>>

FileNext == Open \/ NextBlock \/ PcapHeader \/ NextRecord \/ EndOfFile \/ Report

FileSpec == FileInit /\ [][FileNext]_readerVars

-----------------------------------------------------------------------------
\* What was written, and where the damage is.
StartOf(i) == Word * Len(Written(SubSeq(layout, 1, i - 1)))

IsPacket(i) == layout[i].kind \in {"enhanced", "simple", "record"}

PacketOf(i) ==
    [link |-> CASE layout[i].kind = "enhanced" -> InterfacesOf(layout, i)[layout[i].interface + 1].link
                [] layout[i].kind = "simple" -> InterfacesOf(layout, i)[1].link
                [] layout[i].kind = "record" -> LinkBits(layout[1].link),
     at |-> StartOf(i) + Word * (CASE layout[i].kind = "enhanced" -> 4
                                   [] layout[i].kind = "simple" -> 3
                                   [] layout[i].kind = "record" -> 1),
     length |-> IF layout[i].kind = "simple" THEN SimpleLength(layout, i) ELSE layout[i].length]

\* The packet of a block, if it has one, and those of some blocks in order.
PacketsIn(i) == IF IsPacket(i) THEN <<PacketOf(i)>> ELSE <<>>
PacketsOf(first, last) == FlattenSeq([k \in 1..(last - first + 1) |-> PacketsIn(first + k - 1)])

All == Len(layout)

\* The block the damage is in, and the byte it begins at.
DamagedByte == IF damage.kind = "word" THEN Word * (damage.at - 1) ELSE damage.at
DamagedBlock ==
    IF damage.kind = "none" THEN All + 1
    ELSE Min({i \in 1..All : DamagedByte < StartOf(i + 1)})

\* All packets before the damage are reported: each once, in order, with the
\* link type of its own interface and exactly its own data.  Where nothing is
\* damaged that is all of them, and nothing else is.
ReportedAsWritten ==
    status = "reported" =>
        /\ IsPrefix(PacketsOf(1, DamagedBlock - 1), packets)
        /\ damage.kind = "none" => /\ packets = PacketsOf(1, All)
                                   /\ ToSet(m_warnings) \subseteq {"link type", "packet header"}

\* Damage to what is inside a block, and not to its framing.
InsideBlock(i) ==
    /\ damage.kind = "word"
    /\ IF layout[i].kind = "record" THEN DamagedByte >= StartOf(i) + Word
       ELSE DamagedByte >= StartOf(i) + 2 * Word /\ DamagedByte < StartOf(i + 1) - Word

\* Such damage costs at most the packet of that block: no other is lost,
\* added or moved, and what is taken for its data is inside the block.
DamageIsLocal ==
    LET i == DamagedBlock IN
    (status = "reported" /\ i <= All /\ layout[i].kind \in {"enhanced", "simple", "other", "record"}
        /\ InsideBlock(i)) =>
        \E some \in {<<>>} \cup {<<p>> : p \in ToSet(packets)} :
            /\ packets = PacketsOf(1, i - 1) \o some \o PacketsOf(i + 1, All)
            /\ \A p \in ToSet(some) :
                   p.at >= StartOf(i) /\ p.at + p.length <= StartOf(i + 1)

\* The packets of a device that processPacket can decode.
Decodes(p) == p.link \in Supported /\ p.length >= Word /\ WordAt(p.at) \notin BadHeaders
FirstOf(id) ==
    Min({k \in DOMAIN packets : Decodes(packets[k]) /\ WordAt(packets[k].at) = id})

\* The devices reported are those of the packets that can be decoded, each once
\* and in the order they first appear in the file, also in a damaged one, and no
\* data is read from beyond its end.
DevicesInOrder ==
    /\ \A p \in ToSet(packets) : p.at + p.length <= size
    /\ ToSet(m_deviceOrder) =
           {WordAt(p.at) : p \in {q \in ToSet(packets) : Decodes(q)}}
    /\ \A i, j \in DOMAIN m_deviceOrder :
           i < j => FirstOf(m_deviceOrder[i]) < FirstOf(m_deviceOrder[j])
=============================================================================
