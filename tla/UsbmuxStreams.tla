---------------------------- MODULE UsbmuxStreams ----------------------------
(***************************************************************************)
(* USBMUXInterfaceExpert from processPacket on: the usbmux packets that    *)
(* MuxFraming cuts out are TCP segments, each is given to the MuxStream of *)
(* its connection, and what lockdownd answers names the streams to come.   *)
(*                                                                         *)
(* The environment is usbmuxd and the device: connections are opened,      *)
(* closed by either side and opened again on the same ports, while         *)
(* segments of both directions are under way.  A segment is captured when  *)
(* it arrives.  The bytes of a segment are a whole property list, the      *)
(* first or the second half of one, or a TLS record with one inside        *)
(* (MuxStream has the framing in detail).                                  *)
(***************************************************************************)
EXTENDS Naturals, Sequences, FiniteSets

CONSTANTS
    HostPorts,        \* the ports usbmuxd connects from
    DevicePorts,      \* the ports lockdownd gives to services
    Lockdown,         \* LOCKDOWN_PORT
    Services,         \* the services lockdownd starts
    Messages,         \* the property lists sent: a service and a port, if any
    NoName,           \* the empty string
    Lockdownd,        \* "lockdownd"
    Versions,         \* the versions of usbmux the peers announce
    MaxConnections,   \* bound on the number of connections
    MaxSegments,      \* bound on the number of segments that carry data or close
    MaxUnderWay       \* bound on the segments under way in one direction

Ports == HostPorts \cup DevicePorts \cup {Lockdown}
Names == Services \cup {NoName, Lockdownd}

ASSUME StreamsAssumption ==
    /\ Lockdown \notin DevicePorts \cup HostPorts
    /\ Messages \subseteq [service : Services \cup {NoName}, port : DevicePorts \cup {NoName}]
    /\ {NoName, Lockdownd} \cap Services = {} /\ NoName # Lockdownd
    /\ Versions \subseteq Nat \ {0}
    /\ MaxConnections \in Nat \ {0} /\ {MaxSegments, MaxUnderWay} \subseteq Nat

\* A property list is what stringValue("Service") and uintValue("Port") find in
\* it; NoMessage is none.
NoMessage == [service |-> Lockdownd, port |-> Lockdown]
MaybeMessage == Messages \cup {NoMessage}

\* The bytes of a segment.
Pieces == [kind : {"none", "whole", "head", "tail", "tls"}, message : MaybeMessage]
Bare == [kind |-> "none", message |-> NoMessage]

VARIABLES
    m_version,        \* m_version
    m_streamIndex,    \* m_streamIndex: 0 is a pair of ports it does not have
    m_streams,        \* m_streams, by host port, device port and index
    m_serviceNames,   \* m_serviceNames: NoName is a port it does not have
    conns,            \* the connections, in the order they were opened
    granted,          \* the service the device gave each port to
    unseen,           \* ports whose present grant the capture does not show
    underWay,         \* segments sent and not arrived, by "outbound"
    segments,         \* history: number of data and closing segments sent
    late              \* whether the capture begins among connections

program == <<m_version, m_streamIndex, m_streams, m_serviceNames>>
vars == <<program, conns, granted, unseen, underWay, segments, late>>

\* MuxStream::Direction: "held" is the property list half of which is in the
\* buffer.
Direction == [encoding : {"Unknown", "Plist", "Raw", "TLS"}, held : MaybeMessage]
Stream == [service : Names, closed : BOOLEAN, dir : [BOOLEAN -> Direction],
           messages : Seq([outbound : BOOLEAN, message : Messages])]

Segment == [conn : 1..MaxConnections, source : Ports, destination : Ports,
            syn : BOOLEAN, ack : BOOLEAN, close : BOOLEAN, piece : Pieces]

\* A connection: who may send, where each direction stands in its property
\* list (half) and whether it went over to TLS; and of the capture, which
\* directions it has from the beginning of a property list (clear), and what
\* it has seen: any segment, the end, the property lists.
Connection == [host : HostPorts, device : DevicePorts \cup {Lockdown}, service : Names,
               phase : {"syn", "accepted", "established"},
               open : [BOOLEAN -> BOOLEAN], half : [BOOLEAN -> MaybeMessage],
               tls : [BOOLEAN -> BOOLEAN], clear : [BOOLEAN -> BOOLEAN],
               seen : BOOLEAN, ended : BOOLEAN, named : BOOLEAN,
               got : Seq([outbound : BOOLEAN, message : Messages])]

StreamIds == (Ports \X Ports) \X (1..MaxConnections)

TypeOK ==
    /\ m_version \in Nat
    /\ m_streamIndex \in [Ports \X Ports -> 0..MaxConnections]
    /\ DOMAIN m_streams \subseteq StreamIds
    /\ \A id \in DOMAIN m_streams : m_streams[id] \in Stream
    /\ m_serviceNames \in [DevicePorts -> Services \cup {NoName}]
    /\ conns \in Seq(Connection) /\ Len(conns) <= MaxConnections
    /\ granted \in [DevicePorts -> Services \cup {NoName}]
    /\ unseen \subseteq DevicePorts
    /\ underWay \in [BOOLEAN -> Seq(Segment)]
    /\ segments \in Nat /\ late \in BOOLEAN

-----------------------------------------------------------------------------
\* What drain makes of the bytes of one more segment: the direction after it
\* and the messages it completes.
Nothing(dir) == [dir |-> dir, messages |-> <<>>]
GiveUp(encoding) == Nothing([encoding |-> encoding, held |-> NoMessage])
Decoded(message) == [dir |-> [encoding |-> "Plist", held |-> NoMessage],
                     messages |-> <<message>>]

\* Mutant: a TLS record is taken for a property list it may hold.
ConsumedTLS(dir, piece) ==
    IF piece.kind \in {"whole", "tls"} THEN Decoded(piece.message) ELSE Nothing(dir)

Consumed(dir, piece) ==
    CASE dir.encoding \in {"Raw", "TLS"} \/ piece.kind = "none" -> Nothing(dir)
      [] OTHER ->
         CASE piece.kind = "whole" -> Decoded(piece.message)
           [] piece.kind = "head" ->
                Nothing([encoding |-> "Plist", held |-> piece.message])
           [] piece.kind = "tls" -> GiveUp("TLS")
           [] piece.kind = "tail" -> IF dir.encoding = "Plist" THEN Decoded(dir.held)
                                                               ELSE GiveUp("Raw")

\* The name of a stream begun now (beginStream).
NameFor(device) == IF device = Lockdown THEN Lockdownd ELSE m_serviceNames[device]

NewStream(device) ==
    [service |-> NameFor(device), closed |-> FALSE, messages |-> <<>>,
     dir |-> [outbound \in BOOLEAN |-> [encoding |-> "Unknown", held |-> NoMessage]]]

\* Mutant: whatever the host sends begins a stream.
OpensOnAnything(outbound, segment, ports) == outbound \/ m_streamIndex[ports] = 0

\* Mutant: any SYN begins a stream, also the one the device answers with.
OpensOnAnySyn(outbound, segment, ports) == segment.syn \/ m_streamIndex[ports] = 0

\* beginStream is called: for a bare SYN of the host, and by getStreamId for
\* traffic of a connection opened before the capture.
Opens(outbound, segment, ports) ==
    (outbound /\ segment.syn /\ ~segment.ack) \/ m_streamIndex[ports] = 0

\* STREAM_PORT of a segment: the host is the source of what is outbound.
PortsOf(outbound, segment) ==
    IF outbound THEN <<segment.source, segment.destination>>
                ELSE <<segment.destination, segment.source>>

\* sendBytes or receiveBytes, then close.
Handled(stream, outbound, segment) ==
    LET result == Consumed(stream.dir[outbound], segment.piece)
        added == [i \in DOMAIN result.messages |->
                     [outbound |-> outbound, message |-> result.messages[i]]]
    IN  [stream EXCEPT !.dir[outbound] = result.dir,
                       !.messages = @ \o added,
                       !.closed = @ \/ segment.close]

\* Mutant: a port keeps the first name it was given.
LearntOnce(device, message) ==
    [port \in DevicePorts |->
        IF device = Lockdown /\ ~message.outbound /\ message.message.port = port
           /\ message.message.service # NoName /\ m_serviceNames[port] = NoName
        THEN message.message.service ELSE m_serviceNames[port]]

\* learnServices, for one new message of a stream to a device port.
Learnt(device, message) ==
    [port \in DevicePorts |->
        IF device = Lockdown /\ ~message.outbound /\ message.message.port = port
           /\ message.message.service # NoName
        THEN message.message.service ELSE m_serviceNames[port]]

\* Assignment to a key of a map.
With(map, key, value) ==
    [k \in DOMAIN map \cup {key} |-> IF k = key THEN value ELSE map[k]]

\* processTCP.
ProcessTCP(outbound, segment) ==
    LET ports == PortsOf(outbound, segment)
        opens == Opens(outbound, segment, ports)
        index == IF opens THEN m_streamIndex[ports] + 1 ELSE m_streamIndex[ports]
        before == IF opens THEN NewStream(ports[2]) ELSE m_streams[<<ports, index>>]
        after == Handled(before, outbound, segment)
    IN  /\ m_streamIndex' = [m_streamIndex EXCEPT ![ports] = index]
        /\ m_streams' = With(m_streams, <<ports, index>>, after)
        /\ m_serviceNames' = IF after.messages = before.messages THEN m_serviceNames
                             ELSE Learnt(ports[2], after.messages[Len(after.messages)])
        /\ UNCHANGED m_version

-----------------------------------------------------------------------------
\* usbmuxd and the device.  Nothing of a connection is left: its ports are
\* free again.
Over(c) ==
    /\ \A outbound \in BOOLEAN : ~conns[c].open[outbound]
    /\ \A outbound \in BOOLEAN : \A i \in DOMAIN underWay[outbound] :
           underWay[outbound][i].conn # c

\* The property list gives a port to a service.
Answers(c, outbound, message) ==
    /\ conns[c].device = Lockdown /\ ~outbound
    /\ message.port \in DevicePorts /\ message.service # NoName

\* No answer that gives the port away is being sent.
NoGrantUnderWay(port) ==
    /\ \A i \in DOMAIN underWay[FALSE] : underWay[FALSE][i].piece.message.port # port
    /\ \A c \in DOMAIN conns : conns[c].half[FALSE].port # port

Free(port) ==
    /\ NoGrantUnderWay(port)
    /\ \A c \in DOMAIN conns : conns[c].device = port => Over(c)

SegmentOf(c, outbound, syn, ack, close, piece) ==
    [conn |-> c, syn |-> syn, ack |-> ack, close |-> close, piece |-> piece,
     source |-> IF outbound THEN conns'[c].host ELSE conns'[c].device,
     destination |-> IF outbound THEN conns'[c].device ELSE conns'[c].host]

\* The packets of the handshake that comes before any connection.
Version ==
    /\ m_version = 0 /\ ~late
    /\ m_version' \in Versions
    /\ UNCHANGED <<m_streamIndex, m_streams, m_serviceNames, conns, granted, unseen,
                   underWay, segments, late>>

NewConnection(host, device) ==
    [host |-> host, device |-> device,
     service |-> IF device = Lockdown THEN Lockdownd ELSE granted[device],
     phase |-> "syn", open |-> [outbound \in BOOLEAN |-> TRUE],
     half |-> [outbound \in BOOLEAN |-> NoMessage],
     tls |-> [outbound \in BOOLEAN |-> FALSE], clear |-> [outbound \in BOOLEAN |-> TRUE],
     seen |-> FALSE, ended |-> FALSE, named |-> FALSE, got |-> <<>>]

Open(host, device) ==
    /\ late \/ m_version # 0
    /\ Len(conns) < MaxConnections /\ Len(underWay[TRUE]) < MaxUnderWay
    /\ \A c \in DOMAIN conns : conns[c].host = host => Over(c)
    /\ device # Lockdown => granted[device] # NoName /\ NoGrantUnderWay(device)
    /\ conns' = Append(conns, NewConnection(host, device))
    /\ underWay' = [underWay EXCEPT ![TRUE] = Append(@,
                        SegmentOf(Len(conns'), TRUE, TRUE, FALSE, FALSE, Bare))]
    /\ UNCHANGED <<program, granted, unseen, segments, late>>

\* lockdownd's answers give a port to a service, one that is free; a service may
\* mention services and ports as it likes.
MayBegin(c, outbound, message) ==
    /\ outbound => message.port \notin DevicePorts
    /\ Answers(c, outbound, message) => Free(message.port)

\* What a side may send next: the second half of what it began, or a new
\* property list, plain until it goes over to TLS.  What is in a TLS record
\* matters only if it gives a port away, and an empty segment only if it is the
\* first of its connection that is captured.
MaySend(c, outbound, piece) ==
    LET conn == conns[c] IN
    CASE piece.kind = "tail" -> piece.message = conn.half[outbound] /\ piece.message # NoMessage
      [] piece.kind = "none" -> piece = Bare /\ ~conn.seen
      [] piece.kind = "tls" -> /\ conn.half[outbound] = NoMessage
                               /\ \/ piece.message = NoMessage
                                  \/ /\ Answers(c, outbound, piece.message)
                                     /\ Free(piece.message.port)
      [] OTHER -> /\ conn.half[outbound] = NoMessage /\ ~conn.tls[outbound]
                  /\ piece.message # NoMessage
                  /\ MayBegin(c, outbound, piece.message)

Send(c, outbound) ==
    /\ segments < MaxSegments /\ segments' = segments + 1
    /\ Len(underWay[outbound]) < MaxUnderWay
    /\ conns[c].open[outbound]
    /\ conns[c].phase \in IF outbound THEN {"established"} ELSE {"accepted", "established"}
    /\ \E piece \in Pieces, close \in BOOLEAN :
        /\ IF close THEN piece = Bare ELSE MaySend(c, outbound, piece)
        /\ conns' = [conns EXCEPT
               ![c].half[outbound] = CASE piece.kind = "head" -> piece.message
                                       [] piece.kind = "none" -> @
                                       [] OTHER -> NoMessage,
               ![c].tls[outbound] = @ \/ piece.kind = "tls",
               ![c].open[outbound] = ~close]
        /\ underWay' = [underWay EXCEPT ![outbound] = Append(@,
                            SegmentOf(c, outbound, FALSE, TRUE, close, piece))]
    /\ UNCHANGED <<program, granted, unseen, late>>

\* The device answers a SYN that arrives, or refuses the connection.
Replies(c, segment) ==
    IF ~segment.syn \/ segment.ack THEN {<<>>}
    ELSE {<<SegmentOf(c, FALSE, TRUE, TRUE, FALSE, Bare)>>,
          <<SegmentOf(c, FALSE, FALSE, TRUE, TRUE, Bare)>>}

\* The property list that arrives whole with a segment, and whether the capture
\* shows it.
Completes(piece) == piece.kind \in {"whole", "tail", "tls"}
Shows(c, outbound, piece) == piece.kind \in {"whole", "tail"} /\ conns[c].clear[outbound]

Phase(conn, segment) ==
    IF ~segment.syn THEN conn.phase ELSE IF segment.ack THEN "established" ELSE "accepted"

\* A segment arrives, and is captured.
Arrive(outbound) ==
    /\ underWay[outbound] # <<>>
    /\ LET segment == Head(underWay[outbound])
           c == segment.conn
           conn == conns[c]
           piece == segment.piece
           port == piece.message.port
           grants == Completes(piece) /\ Answers(c, outbound, piece.message)
       IN  /\ ProcessTCP(outbound, segment)
           /\ conns' = [conns EXCEPT ![c] = [conn EXCEPT
                  !.phase = Phase(conn, segment),
                  !.open = IF segment.close THEN [b \in BOOLEAN |-> FALSE] ELSE @,
                  !.seen = TRUE,
                  !.ended = @ \/ segment.close,
                  !.named = IF segment.syn /\ ~segment.ack THEN conn.device \notin unseen ELSE @,
                  !.got = IF ~Shows(c, outbound, piece) THEN @
                          ELSE Append(@, [outbound |-> outbound, message |-> piece.message])]]
           /\ \E reply \in Replies(c, segment) :
                underWay' = [o \in BOOLEAN |->
                    (IF o = outbound THEN Tail(underWay[o]) ELSE underWay[o])
                        \o (IF o THEN <<>> ELSE reply)]
           /\ granted' = IF grants THEN [granted EXCEPT ![port] = piece.message.service] ELSE granted
           /\ unseen' = IF ~grants THEN unseen
                        ELSE IF Shows(c, outbound, piece) THEN unseen \ {port}
                        ELSE unseen \cup {port}
    /\ UNCHANGED <<segments, late>>

Next ==
    \/ Version
    \/ \E host \in HostPorts, device \in DevicePorts \cup {Lockdown} : Open(host, device)
    \/ \E c \in DOMAIN conns, outbound \in BOOLEAN : Send(c, outbound)
    \/ \E outbound \in BOOLEAN : Arrive(outbound)

\* The connection a late capture finds open: the device may be half way through
\* a property list, or the connection may have gone over to TLS.
EarlierConnection(found) ==
    [NewConnection(found.host, found.device) EXCEPT
        !.phase = "established",
        !.half[FALSE] = found.half,
        !.tls = [outbound \in BOOLEAN |-> found.tls],
        !.clear = [outbound \in BOOLEAN |-> outbound \/ found.half = NoMessage]]

Found == {found \in [host : HostPorts, device : DevicePorts \cup {Lockdown},
                     half : MaybeMessage, tls : BOOLEAN] :
              found.tls => found.device = Lockdown /\ found.half = NoMessage}

Init ==
    /\ m_version = 0
    /\ m_streamIndex = [ports \in Ports \X Ports |-> 0]
    /\ m_streams = <<>>
    /\ m_serviceNames = [port \in DevicePorts |-> NoName]
    /\ late \in BOOLEAN
    /\ granted \in IF late THEN [DevicePorts -> Services \cup {NoName}]
                   ELSE {[port \in DevicePorts |-> NoName]}
    /\ unseen = DevicePorts
    /\ underWay = [outbound \in BOOLEAN |-> <<>>]
    /\ segments = 0
    /\ conns \in IF late THEN {<<EarlierConnection(found)>> : found \in Found} ELSE {<<>>}

Spec == Init /\ [][Next]_vars

-----------------------------------------------------------------------------
\* The stream a connection should be: the connections of its ports are
\* numbered in the order the capture sees them.
SamePorts(c, k) == conns[k].host = conns[c].host /\ conns[k].device = conns[c].device
IndexOf(c) == Cardinality({k \in 1..c : conns[k].seen /\ SamePorts(c, k)})
IdOf(c) == <<<<conns[c].host, conns[c].device>>, IndexOf(c)>>
Seen == {c \in DOMAIN conns : conns[c].seen}

\* The streams are the connections the capture saw: each connection is one
\* stream, also where its ports are used again, both sides' segments cross, or
\* it was open before the capture, and it is closed exactly when its end was
\* captured.
StreamIsOneConnection ==
    /\ DOMAIN m_streams = {IdOf(c) : c \in Seen}
    /\ \A c \in Seen : m_streams[IdOf(c)].closed = conns[c].ended

\* A stream has the property lists of its connection, of both directions in the
\* order they were completed: all that are plain, up to a TLS upgrade or a
\* beginning the capture does not have, also when other connections' segments
\* come between two halves, and none of another connection.
MessagesAreConnections ==
    \A c \in Seen : m_streams[IdOf(c)].messages = conns[c].got

\* A connection whose SYN is captured has the name of its service, though ports
\* change services, unless lockdownd gave the port away in an answer the
\* capture does not show.
NamesAreServices ==
    \A c \in Seen : conns[c].named => m_streams[IdOf(c)].service = conns[c].service
=============================================================================
