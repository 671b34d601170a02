------------------------ MODULE UsbmuxStreamsProofs ------------------------
(***************************************************************************)
(* What USBMUXInterfaceExpert guarantees for any number of connections,    *)
(* ports, services and segments: each connection the capture sees is one   *)
(* stream, with its own messages, its own end and the name of its service. *)
(***************************************************************************)
EXTENDS UsbmuxStreams, SequenceTheorems, FiniteSetTheorems, TLAPS

-----------------------------------------------------------------------------
(***************************************************************************)
(* One direction of a connection: where its sender stands, and what it may *)
(* send from there.                                                        *)
(***************************************************************************)
Talk == [half : MaybeMessage, tls : BOOLEAN]

Allowed(talk, piece) ==
    /\ piece.kind = "tail" => piece.message = talk.half /\ piece.message # NoMessage
    /\ piece.kind = "tls" => talk.half = NoMessage
    /\ piece.kind \in {"whole", "head"} =>
           talk.half = NoMessage /\ ~talk.tls /\ piece.message # NoMessage

After(talk, piece) ==
    [half |-> IF piece.kind = "head" THEN piece.message
              ELSE IF piece.kind = "none" THEN talk.half ELSE NoMessage,
     tls |-> talk.tls \/ piece.kind = "tls"]

\* The segments of connection c in a queue are what its sender may send from
\* one standing to the other.
Leads(queue, c, from, to) ==
    \E talk \in [1 .. Len(queue) + 1 -> Talk] :
        /\ talk[1] = from /\ talk[Len(queue) + 1] = to
        /\ \A i \in 1 .. Len(queue) :
              IF queue[i].conn = c
              THEN Allowed(talk[i], queue[i].piece)
                   /\ talk[i + 1] = After(talk[i], queue[i].piece)
              ELSE talk[i + 1] = talk[i]

\* What the capture knows of a direction whose arrived segments led to talk.
Fresh == [encoding |-> "Unknown", held |-> NoMessage]
Reflects(dir, clear, talk) ==
    IF clear
    THEN /\ dir.held = talk.half
         /\ talk.tls => talk.half = NoMessage
         /\ dir.encoding \in {"Unknown", "Plist", "TLS"}
         /\ dir.encoding = "Unknown" => talk.half = NoMessage
         /\ dir.encoding = "Plist" => ~talk.tls
         /\ dir.encoding = "TLS" => talk.tls
    ELSE \/ dir.encoding = "Raw"
         \/ dir = Fresh /\ talk.half # NoMessage

-----------------------------------------------------------------------------
(***************************************************************************)
(* The inductive invariant.                                                *)
(***************************************************************************)
Stands(c, o) == [half |-> conns[c].half[o], tls |-> conns[c].tls[o]]
DirOf(c, o) == IF conns[c].seen THEN m_streams[IdOf(c)].dir[o] ELSE Fresh

\* Each segment belongs to a connection, and has its ports.
SegmentsBelong ==
    \A o \in BOOLEAN : \A i \in DOMAIN underWay[o] :
        LET segment == underWay[o][i] IN
        /\ segment.conn \in DOMAIN conns
        /\ PortsOf(o, segment) = <<conns[segment.conn].host, conns[segment.conn].device>>

\* A SYN is the first segment of its connection, and alone.
IsSyn(segment) == segment.syn /\ ~segment.ack
SynsAreFirst ==
    /\ \A o \in BOOLEAN : \A i \in DOMAIN underWay[o] :
           LET c == underWay[o][i].conn IN
           /\ IsSyn(underWay[o][i]) => o /\ conns[c].phase = "syn" /\ ~underWay[o][i].close
                                       /\ underWay[o][i].piece = Bare
           /\ conns[c].phase = "syn" => IsSyn(underWay[o][i])
           /\ underWay[o][i].syn /\ underWay[o][i].ack => conns[c].seen
    /\ \A i, j \in DOMAIN underWay[TRUE] :
           IsSyn(underWay[TRUE][i]) /\ underWay[TRUE][i].conn = underWay[TRUE][j].conn => i = j
    /\ \A c \in DOMAIN conns :
           /\ conns[c].phase = "syn" => ~conns[c].seen
           /\ ~conns[c].seen /\ conns[c].phase # "syn" => c = 1

\* What is not seen is not over, and ports are used again by the last
\* connection only.
PortsInTurn ==
    /\ \A c \in DOMAIN conns : ~conns[c].seen =>
           /\ ~conns[c].ended /\ conns[c].got = <<>> /\ ~conns[c].named
           /\ \A o \in BOOLEAN : \/ conns[c].open[o]
                                 \/ \E i \in DOMAIN underWay[o] : underWay[o][i].conn = c
    /\ \A c, k \in DOMAIN conns : c < k /\ conns[c].host = conns[k].host => Over(c)

\* The index of a pair of ports counts the connections seen on it.
IndexCounts ==
    \A ports \in Ports \X Ports :
        m_streamIndex[ports] =
            Cardinality({k \in DOMAIN conns : conns[k].seen
                                              /\ <<conns[k].host, conns[k].device>> = ports})

\* Each direction of a stream stands where the arrived segments of its
\* connection led, and those under way lead on to where the sender stands.
StreamsFollow ==
    \A c \in DOMAIN conns, o \in BOOLEAN :
        \E talk \in Talk :
            /\ Reflects(DirOf(c, o), conns[c].clear[o], talk)
            /\ Leads(underWay[o], c, talk, Stands(c, o))

\* The property list gives a port away when it is an answer of lockdownd.
Gives(conn, message, port) ==
    conn.device = Lockdown /\ message.port = port /\ message.service # NoName

\* No answer under way gives away a port that a connection uses.
GrantsAreExclusive ==
    \A c \in DOMAIN conns : conns[c].device \in DevicePorts /\ ~Over(c) =>
        /\ \A i \in DOMAIN underWay[FALSE] :
               ~Gives(conns[underWay[FALSE][i].conn], underWay[FALSE][i].piece.message,
                      conns[c].device)
        /\ \A k \in DOMAIN conns : ~Gives(conns[k], conns[k].half[FALSE], conns[c].device)

\* The names are those of the present grants, as far as the capture shows them,
\* and a connection that is not over has the service of the present grant.
GrantsAreKnown ==
    /\ \A port \in DevicePorts : port \notin unseen => m_serviceNames[port] = granted[port]
    /\ \A c \in DOMAIN conns : ~Over(c) =>
           conns[c].service = IF conns[c].device = Lockdown THEN Lockdownd
                              ELSE granted[conns[c].device]

StreamsInv ==
    /\ TypeOK
    /\ SegmentsBelong
    /\ SynsAreFirst
    /\ PortsInTurn
    /\ IndexCounts
    /\ StreamIsOneConnection
    /\ StreamsFollow
    /\ MessagesAreConnections
    /\ GrantsAreExclusive
    /\ GrantsAreKnown
    /\ NamesAreServices

-----------------------------------------------------------------------------
(***************************************************************************)
(* Lemmas about the operators.                                             *)
(***************************************************************************)

\* NoMessage is none of the messages, and names no device port.
LEMMA NoMessageApart ==
  /\ NoMessage \notin Messages /\ NoMessage \in MaybeMessage
  /\ NoMessage.port \notin DevicePorts
  /\ Bare \in Pieces /\ Bare.kind = "none" /\ Bare.message = NoMessage
  BY StreamsAssumption DEF NoMessage, MaybeMessage, Bare, Pieces

\* What a message says is a service or nothing, and a port or nothing.
LEMMA MessageFields ==
  ASSUME NEW message \in Messages
  PROVE  /\ message.service \in Services \cup {NoName}
         /\ message.port \in DevicePorts \cup {NoName}
  BY StreamsAssumption

\* One segment: the direction keeps up with its sender, and the messages it
\* completes are those the capture has from the beginning.
LEMMA ConsumedFollows ==
  ASSUME NEW dir \in Direction, NEW clear \in BOOLEAN, NEW talk \in Talk, NEW piece \in Pieces,
         Reflects(dir, clear, talk), Allowed(talk, piece)
  PROVE  /\ Consumed(dir, piece).dir \in Direction
         /\ Reflects(Consumed(dir, piece).dir, clear, After(talk, piece))
         /\ After(talk, piece) \in Talk
         /\ piece.kind \in {"whole", "tail"} => piece.message \in Messages
         /\ Consumed(dir, piece).messages = IF piece.kind \in {"whole", "tail"} /\ clear
                                            THEN <<piece.message>> ELSE <<>>
  <1>1. piece.kind \in {"none", "whole", "head", "tail", "tls"} /\ piece.message \in MaybeMessage
    BY DEF Pieces
  <1>2. /\ dir.encoding \in {"Unknown", "Plist", "Raw", "TLS"} /\ dir.held \in MaybeMessage
        /\ dir = [encoding |-> dir.encoding, held |-> dir.held]
    BY DEF Direction
  <1>3. talk.half \in MaybeMessage /\ talk.tls \in BOOLEAN
    BY DEF Talk
  <1>4. After(talk, piece) \in Talk
    BY <1>1, <1>3, NoMessageApart DEF Talk, After
  <1>5. piece.kind \in {"whole", "tail"} => piece.message \in Messages
    BY <1>1 DEF Allowed, MaybeMessage
  <1>6. CASE dir.encoding \in {"Raw", "TLS"} \/ piece.kind = "none"
    <2>1. Consumed(dir, piece) = [dir |-> dir, messages |-> <<>>]
      BY <1>6 DEF Consumed, Nothing
    <2>2. Reflects(dir, clear, After(talk, piece))
      BY <1>1, <1>2, <1>3, <1>6 DEF Reflects, Allowed, After, Fresh
    <2>3. ~(piece.kind \in {"whole", "tail"} /\ clear)
      BY <1>6 DEF Reflects, Allowed
    <2>. QED
      BY <1>4, <1>5, <2>1, <2>2, <2>3
  <1>7. CASE ~(dir.encoding \in {"Raw", "TLS"} \/ piece.kind = "none")
    <2>1. CASE piece.kind = "whole"
      <3>1. Consumed(dir, piece) = Decoded(piece.message)
        BY <1>7, <2>1 DEF Consumed
      <3>2. clear
        BY <1>7, <2>1 DEF Reflects, Allowed
      <3>. QED
        BY <1>1, <1>2, <1>3, <1>4, <1>5, <2>1, <3>1, <3>2, NoMessageApart
           DEF Decoded, Reflects, Allowed, After, Direction
    <2>2. CASE piece.kind = "head"
      <3>1. Consumed(dir, piece) = [dir |-> [encoding |-> "Plist", held |-> piece.message],
                                    messages |-> <<>>]
        BY <1>7, <2>2 DEF Consumed, Nothing
      <3>2. clear
        BY <1>7, <2>2 DEF Reflects, Allowed
      <3>. QED
        BY <1>1, <1>2, <1>3, <1>4, <1>5, <2>2, <3>1, <3>2, NoMessageApart
           DEF Reflects, Allowed, After, Direction
    <2>3. CASE piece.kind = "tls"
      <3>1. Consumed(dir, piece) = [dir |-> [encoding |-> "TLS", held |-> NoMessage],
                                    messages |-> <<>>]
        BY <1>7, <2>3 DEF Consumed, Nothing, GiveUp
      <3>2. clear
        BY <1>7, <2>3 DEF Reflects, Allowed
      <3>3. After(talk, piece).half = NoMessage /\ After(talk, piece).tls
        BY <2>3 DEF After
      <3>4. Reflects([encoding |-> "TLS", held |-> NoMessage], clear, After(talk, piece))
        BY <3>2, <3>3 DEF Reflects
      <3>5. [encoding |-> "TLS", held |-> NoMessage] \in Direction
        BY NoMessageApart DEF Direction
      <3>. QED
        BY <1>4, <2>3, <3>1, <3>4, <3>5
    <2>4. CASE piece.kind = "tail" /\ dir.encoding = "Plist"
      <3>1. Consumed(dir, piece) = Decoded(dir.held)
        BY <1>7, <2>4 DEF Consumed
      <3>2. clear /\ dir.held = piece.message
        BY <1>7, <2>4 DEF Reflects, Allowed, Fresh
      <3>. QED
        BY <1>1, <1>2, <1>3, <1>4, <1>5, <2>4, <3>1, <3>2, NoMessageApart
           DEF Decoded, Reflects, Allowed, After, Direction
    <2>5. CASE piece.kind = "tail" /\ dir.encoding # "Plist"
      <3>1. Consumed(dir, piece) = [dir |-> [encoding |-> "Raw", held |-> NoMessage],
                                    messages |-> <<>>]
        BY <1>7, <2>5 DEF Consumed, Nothing, GiveUp
      <3>2. ~clear
        BY <1>2, <1>7, <2>5 DEF Reflects, Allowed
      <3>. QED
        BY <1>1, <1>2, <1>3, <1>4, <1>5, <2>5, <3>1, <3>2, NoMessageApart
           DEF Reflects, Allowed, After, Direction
    <2>. QED
      BY <1>1, <1>7, <2>1, <2>2, <2>3, <2>4, <2>5
  <1>. QED
    BY <1>6, <1>7

-----------------------------------------------------------------------------
\* A queue without segments of c leads nowhere.
LEMMA LeadsNowhere ==
  ASSUME NEW queue \in Seq(Segment), NEW c, NEW at \in Talk,
         \A i \in 1 .. Len(queue) : queue[i].conn # c
  PROVE  Leads(queue, c, at, at)
  <1>. DEFINE talk == [i \in 1 .. Len(queue) + 1 |-> at]
  <1>1. Len(queue) \in Nat
    BY LenProperties
  <1>2. talk \in [1 .. Len(queue) + 1 -> Talk] /\ talk[1] = at /\ talk[Len(queue) + 1] = at
    BY <1>1
  <1>3. \A i \in 1 .. Len(queue) : talk[i + 1] = talk[i]
    BY <1>1
  <1>. HIDE DEF talk
  <1>. QED
    BY <1>2, <1>3 DEF Leads

\* A queue one segment longer.
LEMMA LeadsOn ==
  ASSUME NEW queue \in Seq(Segment), NEW c, NEW from \in Talk, NEW to \in Talk, NEW next \in Talk,
         NEW segment \in Segment,
         Leads(queue, c, from, to),
         IF segment.conn = c THEN Allowed(to, segment.piece) /\ next = After(to, segment.piece)
                             ELSE next = to
  PROVE  Leads(Append(queue, segment), c, from, next)
  <1>. DEFINE n == Len(queue)
              longer == Append(queue, segment)
  <1>1. n \in Nat /\ Len(longer) = n + 1
    BY LenProperties
  <1>2. longer[n + 1] = segment /\ \A i \in 1 .. n : longer[i] = queue[i]
    BY <1>1
  <1>. HIDE DEF n, longer
  <1>3. PICK talk \in [1 .. n + 1 -> Talk] :
            /\ talk[1] = from /\ talk[n + 1] = to
            /\ \A i \in 1 .. n :
                  IF queue[i].conn = c
                  THEN Allowed(talk[i], queue[i].piece)
                       /\ talk[i + 1] = After(talk[i], queue[i].piece)
                  ELSE talk[i + 1] = talk[i]
    BY DEF Leads, n
  <1>. DEFINE more == [i \in 1 .. n + 2 |-> IF i = n + 2 THEN next ELSE talk[i]]
  <1>4. more \in [1 .. (n + 1) + 1 -> Talk] /\ more[1] = from /\ more[(n + 1) + 1] = next
    BY <1>1, <1>3
  <1>5. \A i \in 1 .. n : more[i] = talk[i] /\ more[i + 1] = talk[i + 1]
    BY <1>1
  <1>6. more[n + 1] = to
    BY <1>1, <1>3
  <1>. HIDE DEF more
  <1>7. ASSUME NEW i \in 1 .. n + 1
        PROVE  IF longer[i].conn = c
               THEN Allowed(more[i], longer[i].piece)
                    /\ more[i + 1] = After(more[i], longer[i].piece)
               ELSE more[i + 1] = more[i]
    <2>1. CASE i = n + 1
      BY <1>2, <1>4, <1>6, <2>1
    <2>2. CASE i \in 1 .. n
      BY <1>2, <1>3, <1>5, <2>2
    <2>. QED
      BY <1>1, <2>1, <2>2
  <1>. QED
    BY <1>1, <1>4, <1>7 DEF Leads, longer

\* A queue without its first segment.
LEMMA LeadsFrom ==
  ASSUME NEW queue \in Seq(Segment), queue # <<>>, NEW c, NEW from \in Talk, NEW to \in Talk,
         Leads(queue, c, from, to)
  PROVE  IF Head(queue).conn = c
         THEN Allowed(from, Head(queue).piece)
              /\ Leads(Tail(queue), c, After(from, Head(queue).piece), to)
         ELSE Leads(Tail(queue), c, from, to)
  <1>. DEFINE n == Len(queue) - 1
              shorter == Tail(queue)
  <1>1. n \in Nat /\ Len(queue) = n + 1 /\ Len(shorter) = n
    BY LenProperties, EmptySeq, HeadTailProperties
  <1>2. Head(queue) = queue[1] /\ \A i \in 1 .. n : shorter[i] = queue[i + 1]
    BY <1>1, HeadTailProperties
  <1>. HIDE DEF n, shorter
  <1>3. PICK talk \in [1 .. (n + 1) + 1 -> Talk] :
            /\ talk[1] = from /\ talk[(n + 1) + 1] = to
            /\ \A i \in 1 .. n + 1 :
                  IF queue[i].conn = c
                  THEN Allowed(talk[i], queue[i].piece)
                       /\ talk[i + 1] = After(talk[i], queue[i].piece)
                  ELSE talk[i + 1] = talk[i]
    BY <1>1 DEF Leads
  <1>. DEFINE rest == [i \in 1 .. n + 1 |-> talk[i + 1]]
  <1>4. rest \in [1 .. n + 1 -> Talk] /\ rest[1] = talk[2] /\ rest[n + 1] = to
    BY <1>1, <1>3
  <1>5. \A i \in 1 .. n : /\ i + 1 \in 1 .. n + 1 /\ rest[i] = talk[i + 1]
                          /\ rest[i + 1] = talk[(i + 1) + 1]
    BY <1>1
  <1>. HIDE DEF rest
  <1>6. \A i \in 1 .. n :
            IF shorter[i].conn = c
            THEN Allowed(rest[i], shorter[i].piece)
                 /\ rest[i + 1] = After(rest[i], shorter[i].piece)
            ELSE rest[i + 1] = rest[i]
    BY <1>2, <1>3, <1>5
  <1>7. Leads(shorter, c, talk[2], to)
    BY <1>1, <1>4, <1>6 DEF Leads
  <1>8. IF queue[1].conn = c
        THEN Allowed(talk[1], queue[1].piece) /\ talk[2] = After(talk[1], queue[1].piece)
        ELSE talk[2] = talk[1]
    BY <1>1, <1>3
  <1>. QED
    BY <1>2, <1>3, <1>7, <1>8 DEF shorter

-----------------------------------------------------------------------------
(***************************************************************************)
(* The index of a stream: how many connections of its ports were seen up   *)
(* to it.                                                                  *)
(***************************************************************************)
PortsIn(cs, c) == <<cs[c].host, cs[c].device>>
SeenUpTo(cs, c) == {k \in 1 .. c : cs[k].seen /\ PortsIn(cs, k) = PortsIn(cs, c)}
SeenOn(cs, ports) == {k \in DOMAIN cs : cs[k].seen /\ PortsIn(cs, k) = ports}
IndexIn(cs, c) == Cardinality(SeenUpTo(cs, c))
IdIn(cs, c) == <<PortsIn(cs, c), IndexIn(cs, c)>>

\* c is the last of the connections of its ports.
IsLast(cs, c) == \A k \in DOMAIN cs : k > c => PortsIn(cs, k) # PortsIn(cs, c)

\* after differs from before in that c is seen, in what concerns the index.
Sees(before, after, c) ==
    /\ DOMAIN after = DOMAIN before
    /\ \A k \in DOMAIN before :
           /\ PortsIn(after, k) = PortsIn(before, k)
           /\ after[k].seen <=> (k = c \/ before[k].seen)

LEMMA SeenSets ==
  ASSUME NEW cs \in Seq(Connection), NEW c \in DOMAIN cs
  PROVE  /\ IsFiniteSet(SeenUpTo(cs, c)) /\ IndexIn(cs, c) \in 0 .. c
         /\ \A ports : IsFiniteSet(SeenOn(cs, ports)) /\ Cardinality(SeenOn(cs, ports)) \in Nat
         /\ cs[c].seen => c \in SeenUpTo(cs, c) /\ IndexIn(cs, c) \in 1 .. c
  <1>1. Len(cs) \in Nat /\ DOMAIN cs = 1 .. Len(cs) /\ c \in Nat
    BY LenProperties
  <1>2. IsFiniteSet(1 .. c) /\ Cardinality(1 .. c) = c
    BY <1>1, FS_Interval
  <1>3. SeenUpTo(cs, c) \subseteq 1 .. c
    BY DEF SeenUpTo
  <1>4. IsFiniteSet(SeenUpTo(cs, c)) /\ IndexIn(cs, c) \in Nat /\ IndexIn(cs, c) <= c
    BY <1>1, <1>2, <1>3, FS_Subset, FS_CardinalityType DEF IndexIn
  <1>5. ASSUME NEW ports
        PROVE  IsFiniteSet(SeenOn(cs, ports)) /\ Cardinality(SeenOn(cs, ports)) \in Nat
    <2>1. SeenOn(cs, ports) \subseteq 1 .. Len(cs)
      BY <1>1 DEF SeenOn
    <2>2. IsFiniteSet(1 .. Len(cs))
      BY <1>1, FS_Interval
    <2>. QED
      BY <2>1, <2>2, FS_Subset, FS_CardinalityType
  <1>6. ASSUME cs[c].seen
        PROVE  c \in SeenUpTo(cs, c) /\ IndexIn(cs, c) # 0
    <2>1. c \in SeenUpTo(cs, c)
      BY <1>1, <1>6 DEF SeenUpTo
    <2>2. SeenUpTo(cs, c) # {}
      BY <2>1
    <2>. QED
      BY <1>4, <2>1, <2>2, FS_EmptySet DEF IndexIn
  <1>. QED
    BY <1>1, <1>4, <1>5, <1>6

\* No two connections are the same stream.
LEMMA IdsDiffer ==
  ASSUME NEW cs \in Seq(Connection), NEW c \in DOMAIN cs, NEW k \in DOMAIN cs,
         cs[c].seen, cs[k].seen, c # k
  PROVE  IdIn(cs, c) # IdIn(cs, k)
  <1>1. Len(cs) \in Nat /\ DOMAIN cs = 1 .. Len(cs)
    BY LenProperties
  <1>2. ASSUME NEW a \in DOMAIN cs, NEW b \in DOMAIN cs, cs[b].seen, a < b,
               PortsIn(cs, a) = PortsIn(cs, b)
        PROVE  IndexIn(cs, a) < IndexIn(cs, b)
    <2>1. SeenUpTo(cs, a) \subseteq SeenUpTo(cs, b)
      BY <1>1, <1>2 DEF SeenUpTo
    <2>2. b \in SeenUpTo(cs, b) /\ b \notin SeenUpTo(cs, a)
      BY <1>1, <1>2 DEF SeenUpTo
    <2>3. IsFiniteSet(SeenUpTo(cs, b))
      BY SeenSets
    <2>. QED
      BY <2>1, <2>2, <2>3, FS_Subset, FS_CardinalityType DEF IndexIn
  <1>3. c < k \/ k < c
    BY <1>1
  <1>4. IndexIn(cs, c) \in Nat /\ IndexIn(cs, k) \in Nat
    BY <1>1, SeenSets
  <1>5. PortsIn(cs, c) = PortsIn(cs, k) => IndexIn(cs, c) # IndexIn(cs, k)
    BY <1>2, <1>3, <1>4
  <1>. QED
    BY <1>5, Zenon DEF IdIn

\* Connections are numbered by those before them.
LEMMA SameIds ==
  ASSUME NEW before, NEW after, NEW c \in Nat,
         \A k \in 1 .. c : PortsIn(after, k) = PortsIn(before, k) /\ after[k].seen = before[k].seen,
         c # 0
  PROVE  IdIn(after, c) = IdIn(before, c)
  <1>1. PortsIn(after, c) = PortsIn(before, c)
    OBVIOUS
  <1>2. SeenUpTo(after, c) = SeenUpTo(before, c)
    BY <1>1 DEF SeenUpTo
  <1>. QED
    BY <1>1, <1>2 DEF IdIn, IndexIn

\* What it is to see one more segment of the last connection of some ports: it
\* has the next index if it was not seen yet, and no other index changes.
LEMMA SeeingCounts ==
  ASSUME NEW before \in Seq(Connection), NEW after \in Seq(Connection), NEW c \in DOMAIN before,
         before[c].seen \in BOOLEAN, IsLast(before, c), Sees(before, after, c)
  PROVE  /\ IndexIn(after, c) = Cardinality(SeenOn(before, PortsIn(before, c)))
                                + (IF before[c].seen THEN 0 ELSE 1)
         /\ \A ports : Cardinality(SeenOn(after, ports)) =
                IF ports = PortsIn(before, c) THEN IndexIn(after, c)
                                              ELSE Cardinality(SeenOn(before, ports))
         /\ \A k \in DOMAIN before : before[k].seen /\ k # c => IdIn(after, k) = IdIn(before, k)
         /\ before[c].seen => IdIn(after, c) = IdIn(before, c)
  <1>. DEFINE ports0 == PortsIn(before, c)
  <1>1. Len(before) \in Nat /\ DOMAIN before = 1 .. Len(before) /\ DOMAIN after = DOMAIN before
    BY LenProperties DEF Sees
  <1>2. PortsIn(after, c) = ports0
    BY DEF Sees
  <1>3. SeenUpTo(after, c) = SeenOn(before, ports0) \cup {c}
    <2>1. ASSUME NEW k \in SeenUpTo(after, c)
          PROVE  k \in SeenOn(before, ports0) \cup {c}
      <3>1. k \in 1 .. c /\ after[k].seen /\ PortsIn(after, k) = ports0
        BY <1>2, <2>1 DEF SeenUpTo
      <3>2. k \in DOMAIN before
        BY <1>1, <3>1
      <3>3. PortsIn(after, k) = PortsIn(before, k) /\ (k = c \/ before[k].seen)
        BY <3>1, <3>2 DEF Sees
      <3>. QED
        BY <3>1, <3>2, <3>3 DEF SeenOn
    <2>2. ASSUME NEW k \in SeenOn(before, ports0)
          PROVE  k \in SeenUpTo(after, c)
      <3>1. k \in DOMAIN before /\ before[k].seen /\ PortsIn(before, k) = ports0
        BY <2>2 DEF SeenOn
      <3>2. k \in 1 .. c
        BY <1>1, <3>1 DEF IsLast
      <3>. QED
        BY <1>2, <3>1, <3>2 DEF SeenUpTo, Sees
    <2>3. c \in SeenUpTo(after, c)
      <3>1. after[c].seen
        BY DEF Sees
      <3>2. c \in 1 .. c
        BY <1>1
      <3>. QED
        BY <3>1, <3>2 DEF SeenUpTo
    <2>. QED
      BY <2>1, <2>2, <2>3
  <1>4. c \in SeenOn(before, ports0) <=> before[c].seen
    BY DEF SeenOn
  <1>5. IndexIn(after, c) = Cardinality(SeenOn(before, ports0)) + (IF before[c].seen THEN 0 ELSE 1)
    <2>1. IsFiniteSet(SeenOn(before, ports0)) /\ Cardinality(SeenOn(before, ports0)) \in Nat
      BY SeenSets
    <2>2. Cardinality(SeenOn(before, ports0) \cup {c}) =
              IF c \in SeenOn(before, ports0) THEN Cardinality(SeenOn(before, ports0))
              ELSE Cardinality(SeenOn(before, ports0)) + 1
      BY <2>1, FS_AddElement
    <2>. HIDE DEF ports0
    <2>. QED
      BY <1>3, <1>4, <2>1, <2>2 DEF IndexIn
  <1>6. ASSUME NEW ports
        PROVE  Cardinality(SeenOn(after, ports)) =
                   IF ports = ports0 THEN IndexIn(after, c) ELSE Cardinality(SeenOn(before, ports))
    <2>1. CASE ports = ports0
      <3>1. SeenOn(after, ports) = SeenOn(before, ports0) \cup {c}
        BY <1>1, <2>1 DEF SeenOn, Sees
      <3>. QED
        BY <1>3, <2>1, <3>1 DEF IndexIn
    <2>2. CASE ports # ports0
      <3>1. SeenOn(after, ports) = SeenOn(before, ports)
        BY <1>1, <2>2 DEF SeenOn, Sees
      <3>. QED
        BY <2>2, <3>1
    <2>. QED
      BY <2>1, <2>2
  <1>7. ASSUME NEW k \in DOMAIN before, before[k].seen, k # c \/ before[c].seen
        PROVE  IdIn(after, k) = IdIn(before, k)
    <2>1. PortsIn(after, k) = PortsIn(before, k)
      BY DEF Sees
    <2>2. SeenUpTo(after, k) = SeenUpTo(before, k)
      <3>1. ~before[c].seen /\ c \in 1 .. k => PortsIn(before, k) # ports0
        BY <1>1, <1>7 DEF IsLast
      <3>2. 1 .. k \subseteq DOMAIN before
        BY <1>1
      <3>3. \A i \in 1 .. k : /\ PortsIn(after, i) = PortsIn(before, i)
                              /\ after[i].seen <=> (i = c \/ before[i].seen)
        BY <3>2 DEF Sees
      <3>. QED
        BY <2>1, <3>1, <3>3 DEF SeenUpTo
    <2>. QED
      BY <2>1, <2>2 DEF IdIn, IndexIn
  <1>. QED
    BY <1>5, <1>6, <1>7

\* The names the specification has for the same things.
LEMMA IdOfIs ==
  /\ \A c : IdOf(c) = IdIn(conns, c)
  /\ \A c : IdOf(c)' = IdIn(conns', c)
  <1>1. ASSUME NEW c PROVE IndexOf(c) = IndexIn(conns, c)
    <2>1. {k \in 1 .. c : conns[k].seen /\ SamePorts(c, k)} = SeenUpTo(conns, c)
      BY DEF SeenUpTo, SamePorts, PortsIn
    <2>. QED
      BY <2>1 DEF IndexOf, IndexIn
  <1>2. ASSUME NEW c PROVE IndexOf(c)' = IndexIn(conns', c)
    <2>1. {k \in 1 .. c : conns[k].seen /\ SamePorts(c, k)}' = SeenUpTo(conns', c)
      BY DEF SeenUpTo, SamePorts, PortsIn
    <2>. QED
      BY <2>1 DEF IndexOf, IndexIn
  <1>. QED
    BY <1>1, <1>2 DEF IdOf, IdIn, PortsIn

-----------------------------------------------------------------------------
(***************************************************************************)
(* The steps.                                                              *)
(***************************************************************************)
LEMMA ConnectionFields ==
  ASSUME NEW conn \in Connection
  PROVE  /\ conn.host \in HostPorts /\ conn.device \in DevicePorts \cup {Lockdown}
         /\ conn.service \in Names /\ conn.phase \in {"syn", "accepted", "established"}
         /\ conn.open \in [BOOLEAN -> BOOLEAN] /\ conn.half \in [BOOLEAN -> MaybeMessage]
         /\ conn.tls \in [BOOLEAN -> BOOLEAN] /\ conn.clear \in [BOOLEAN -> BOOLEAN]
         /\ conn.seen \in BOOLEAN /\ conn.ended \in BOOLEAN /\ conn.named \in BOOLEAN
         /\ conn.got \in Seq([outbound : BOOLEAN, message : Messages])
         /\ <<conn.host, conn.device>> \in Ports \X Ports
  BY DEF Connection, Ports

LEMMA SegmentFields ==
  ASSUME NEW segment \in Segment
  PROVE  /\ segment.conn \in 1 .. MaxConnections
         /\ segment.syn \in BOOLEAN /\ segment.ack \in BOOLEAN /\ segment.close \in BOOLEAN
         /\ segment.piece \in Pieces /\ segment.piece.message \in MaybeMessage
         /\ segment.piece.kind \in {"none", "whole", "head", "tail", "tls"}
  BY DEF Segment, Pieces

LEMMA StateTypes ==
  ASSUME TypeOK
  PROVE  /\ Len(conns) \in Nat /\ DOMAIN conns = 1 .. Len(conns)
         /\ \A c \in DOMAIN conns : conns[c] \in Connection
         /\ \A o \in BOOLEAN :
               /\ underWay[o] \in Seq(Segment) /\ Len(underWay[o]) \in Nat
               /\ DOMAIN underWay[o] = 1 .. Len(underWay[o])
               /\ \A i \in DOMAIN underWay[o] : underWay[o][i] \in Segment
  BY LenProperties, ElementOfSeq DEF TypeOK

\* Where a sender stands is a Talk.
LEMMA StandsType ==
  ASSUME TypeOK, NEW c \in DOMAIN conns, NEW o \in BOOLEAN
  PROVE  Stands(c, o) \in Talk
  BY ZenonT(60), StateTypes, ConnectionFields DEF Stands, Talk

\* What the capture has of connection k, and what identifies it.
SameCapture(before, after, k) ==
    /\ PortsIn(after, k) = PortsIn(before, k)
    /\ after[k].service = before[k].service /\ after[k].clear = before[k].clear
    /\ after[k].seen = before[k].seen /\ after[k].ended = before[k].ended
    /\ after[k].named = before[k].named /\ after[k].got = before[k].got

\* A step that captures nothing changes no stream and the place of none.
LEMMA NothingCaptured ==
  ASSUME StreamsInv,
         DOMAIN conns \subseteq DOMAIN conns',
         \A k \in DOMAIN conns : SameCapture(conns, conns', k),
         \A k \in DOMAIN conns' : k \notin DOMAIN conns => ~conns'[k].seen,
         UNCHANGED <<m_streamIndex, m_streams>>
  PROVE  /\ IndexCounts' /\ StreamIsOneConnection' /\ MessagesAreConnections' /\ NamesAreServices'
         /\ \A k \in DOMAIN conns, o \in BOOLEAN : DirOf(k, o)' = DirOf(k, o)
  <1>1. DOMAIN conns = 1 .. Len(conns) /\ Len(conns) \in Nat
    BY StateTypes DEF StreamsInv
  <1>2. Seen' = Seen
    BY DEF Seen, SameCapture
  <1>3. ASSUME NEW k \in DOMAIN conns
        PROVE  IdOf(k)' = IdOf(k)
    <2>1. k \in Nat /\ k # 0 /\ \A i \in 1 .. k : i \in DOMAIN conns
      BY <1>1
    <2>2. IdIn(conns', k) = IdIn(conns, k)
      BY <2>1, SameIds DEF SameCapture
    <2>. QED
      BY <2>2, IdOfIs
  <1>4. Seen \subseteq DOMAIN conns
    BY DEF Seen
  <1>5. IndexCounts'
    <2>1. ASSUME NEW ports \in Ports \X Ports
          PROVE  {k \in DOMAIN conns' : conns'[k].seen
                     /\ <<conns'[k].host, conns'[k].device>> = ports}
                 = {k \in DOMAIN conns : conns[k].seen
                       /\ <<conns[k].host, conns[k].device>> = ports}
      BY DEF SameCapture, PortsIn
    <2>. QED
      BY <2>1 DEF IndexCounts, StreamsInv
  <1>6. StreamIsOneConnection'
    <2>1. DOMAIN m_streams' = {IdOf(c)' : c \in Seen'}
      BY <1>2, <1>3, <1>4 DEF StreamsInv, StreamIsOneConnection
    <2>2. \A c \in Seen' : m_streams'[IdOf(c)'].closed = conns'[c].ended
      BY <1>2, <1>3, <1>4 DEF StreamsInv, StreamIsOneConnection, SameCapture
    <2>. QED
      BY <2>1, <2>2 DEF StreamIsOneConnection
  <1>7. MessagesAreConnections'
    BY <1>2, <1>3, <1>4 DEF StreamsInv, MessagesAreConnections, SameCapture
  <1>8. NamesAreServices'
    BY <1>2, <1>3, <1>4 DEF StreamsInv, NamesAreServices, SameCapture
  <1>9. \A k \in DOMAIN conns, o \in BOOLEAN : DirOf(k, o)' = DirOf(k, o)
    BY <1>3 DEF DirOf, SameCapture
  <1>. QED
    BY <1>5, <1>6, <1>7, <1>8, <1>9

LEMMA InitStreams == Init => StreamsInv
  <1>. SUFFICES ASSUME Init PROVE StreamsInv
    OBVIOUS
  <1>1. /\ m_version = 0 /\ m_streamIndex = [ports \in Ports \X Ports |-> 0] /\ m_streams = <<>>
        /\ m_serviceNames = [port \in DevicePorts |-> NoName]
        /\ granted \in [DevicePorts -> Services \cup {NoName}] /\ unseen = DevicePorts
        /\ underWay = [outbound \in BOOLEAN |-> <<>>] /\ segments = 0 /\ late \in BOOLEAN
    BY DEF Init
  <1>2. ASSUME NEW host \in HostPorts, NEW device \in DevicePorts \cup {Lockdown},
               NEW half \in MaybeMessage, NEW tls \in BOOLEAN, tls => half = NoMessage,
               NEW found, found = [host |-> host, device |-> device, half |-> half, tls |-> tls],
               NEW conn, conn = EarlierConnection(found)
        PROVE  /\ conn \in Connection
               /\ conn.device = device /\ conn.phase = "established" /\ ~conn.seen
               /\ ~conn.ended /\ ~conn.named /\ conn.got = <<>>
               /\ \A b \in BOOLEAN : conn.open[b]
               /\ \A b \in BOOLEAN : Reflects(Fresh, conn.clear[b],
                                               [half |-> conn.half[b], tls |-> conn.tls[b]])
               /\ conn.service = IF device = Lockdown THEN Lockdownd ELSE granted[device]
    <2>. DEFINE halves == [b \in BOOLEAN |-> IF b = FALSE THEN half ELSE NoMessage]
                gone == [b \in BOOLEAN |-> tls]
                clears == [b \in BOOLEAN |-> b \/ half = NoMessage]
                service == IF device = Lockdown THEN Lockdownd ELSE granted[device]
    <2>1. conn = [host |-> host, device |-> device, service |-> service, phase |-> "established",
                  open |-> [b \in BOOLEAN |-> TRUE], half |-> halves, tls |-> gone,
                  clear |-> clears, seen |-> FALSE, ended |-> FALSE, named |-> FALSE,
                  got |-> <<>>]
      <3>1. [[b \in BOOLEAN |-> NoMessage] EXCEPT ![FALSE] = half] = halves
        OBVIOUS
      <3>. QED
        BY <1>2, <3>1 DEF EarlierConnection, NewConnection
    <2>2. halves \in [BOOLEAN -> MaybeMessage] /\ halves[FALSE] = half /\ halves[TRUE] = NoMessage
      BY NoMessageApart
    <2>3. /\ gone \in [BOOLEAN -> BOOLEAN] /\ clears \in [BOOLEAN -> BOOLEAN]
          /\ [b \in BOOLEAN |-> TRUE] \in [BOOLEAN -> BOOLEAN]
      BY Zenon
    <2>4. /\ gone[TRUE] = tls /\ gone[FALSE] = tls /\ clears[TRUE]
          /\ clears[FALSE] <=> half = NoMessage
      OBVIOUS
    <2>5. service \in Names
      BY <1>1 DEF Names
    <2>. HIDE DEF halves, gone, clears, service
    <2>6. conn \in Connection
      BY <2>1, <2>2, <2>3, <2>5, EmptySeq DEF Connection
    <2>7. \A b \in BOOLEAN : Reflects(Fresh, clears[b], [half |-> halves[b], tls |-> gone[b]])
      BY <1>2, <2>2, <2>4 DEF Reflects, Fresh
    <2>. QED
      BY <2>1, <2>6, <2>7 DEF service
  <1>3. /\ conns \in Seq(Connection) /\ DOMAIN conns \subseteq {1} /\ Len(conns) <= MaxConnections
        /\ \A c \in DOMAIN conns :
              /\ conns[c] \in Connection
              /\ conns[c].phase = "established" /\ ~conns[c].seen
              /\ ~conns[c].ended /\ ~conns[c].named /\ conns[c].got = <<>>
              /\ \A b \in BOOLEAN : conns[c].open[b]
              /\ \A b \in BOOLEAN : Reflects(Fresh, conns[c].clear[b], Stands(c, b))
              /\ conns[c].service = IF conns[c].device = Lockdown THEN Lockdownd
                                    ELSE granted[conns[c].device]
    <2>1. CASE ~late
      <3>1. conns = <<>>
        BY <2>1 DEF Init
      <3>. QED
        BY <3>1, EmptySeq, StreamsAssumption
    <2>2. CASE late
      <3>1. PICK found \in Found : conns = <<EarlierConnection(found)>>
        BY <2>2 DEF Init
      <3>. DEFINE conn == EarlierConnection(found)
      <3>2. /\ found.host \in HostPorts /\ found.device \in DevicePorts \cup {Lockdown}
            /\ found.half \in MaybeMessage /\ found.tls \in BOOLEAN
            /\ found.tls => found.half = NoMessage
            /\ found = [host |-> found.host, device |-> found.device, half |-> found.half,
                        tls |-> found.tls]
        BY DEF Found
      <3>3. DOMAIN conns = {1} /\ conns[1] = conn /\ Len(conns) = 1
        BY <3>1
      <3>4. /\ conn \in Connection
            /\ conn.device = found.device /\ conn.phase = "established" /\ ~conn.seen
            /\ ~conn.ended /\ ~conn.named /\ conn.got = <<>>
            /\ \A b \in BOOLEAN : conn.open[b]
            /\ \A b \in BOOLEAN : Reflects(Fresh, conn.clear[b],
                                            [half |-> conn.half[b], tls |-> conn.tls[b]])
            /\ conn.service = IF found.device = Lockdown THEN Lockdownd
                              ELSE granted[found.device]
        BY <1>2, <3>2
      <3>. HIDE DEF conn
      <3>5. conns \in Seq(Connection)
        BY <3>1, <3>4 DEF conn
      <3>6. Len(conns) <= MaxConnections
        BY <3>3, StreamsAssumption
      <3>. HIDE <3>1
      <3>. QED
        BY <3>3, <3>4, <3>5, <3>6 DEF Stands
    <2>. QED
      BY <1>1, <2>1, <2>2
  <1>4. underWay \in [BOOLEAN -> Seq(Segment)] /\ \A b \in BOOLEAN : underWay[b] = <<>>
    BY <1>1
  <1>5. TypeOK
    BY <1>1, <1>3, <1>4, StreamsAssumption DEF TypeOK
  <1>6. SegmentsBelong /\ SynsAreFirst
    <2>1. \A b \in BOOLEAN : DOMAIN underWay[b] = {}
      BY <1>4
    <2>2. \A c \in DOMAIN conns : conns[c].phase # "syn" /\ c = 1
      BY <1>3
    <2>. QED
      BY <2>1, <2>2 DEF SegmentsBelong, SynsAreFirst
  <1>7. PortsInTurn
    BY <1>3 DEF PortsInTurn
  <1>8. IndexCounts
    <2>1. \A ports : {k \in DOMAIN conns : conns[k].seen
                         /\ <<conns[k].host, conns[k].device>> = ports} = {}
      BY <1>3
    <2>. QED
      BY <1>1, <2>1, FS_EmptySet DEF IndexCounts
  <1>9. Seen = {}
    BY <1>3 DEF Seen
  <1>10. StreamIsOneConnection /\ MessagesAreConnections /\ NamesAreServices
    <2>1. DOMAIN m_streams = {}
      BY <1>1
    <2>. QED
      BY <1>9, <2>1 DEF StreamIsOneConnection, MessagesAreConnections, NamesAreServices
  <1>11. StreamsFollow
    <2>. SUFFICES ASSUME NEW c \in DOMAIN conns, NEW o \in BOOLEAN
                  PROVE  /\ Stands(c, o) \in Talk
                         /\ Reflects(DirOf(c, o), conns[c].clear[o], Stands(c, o))
                         /\ Leads(underWay[o], c, Stands(c, o), Stands(c, o))
      BY DEF StreamsFollow
    <2>1. Stands(c, o) \in Talk
      BY <1>5, StandsType
    <2>2. Leads(underWay[o], c, Stands(c, o), Stands(c, o))
      BY <1>4, <2>1, LeadsNowhere
    <2>. QED
      BY <1>3, <2>1, <2>2 DEF DirOf
  <1>12. GrantsAreExclusive
    <2>1. DOMAIN underWay[FALSE] = {}
      BY <1>1
    <2>2. \A c, k \in DOMAIN conns : c = k
      BY <1>3
    <2>3. Lockdown \notin DevicePorts
      BY StreamsAssumption
    <2>. QED
      BY <2>1, <2>2, <2>3 DEF GrantsAreExclusive, Gives
  <1>13. GrantsAreKnown
    BY <1>1, <1>3 DEF GrantsAreKnown
  <1>. QED
    BY <1>5, <1>6, <1>7, <1>8, <1>10, <1>11, <1>12, <1>13 DEF StreamsInv

\* The handshake.
LEMMA VersionStreams == StreamsInv /\ Version => StreamsInv'
  <1>. SUFFICES ASSUME StreamsInv, Version PROVE StreamsInv'
    OBVIOUS
  <1>1. TypeOK'
    BY StreamsAssumption DEF StreamsInv, TypeOK, Version
  <1>2. \A k \in DOMAIN conns : SameCapture(conns, conns', k)
    BY DEF Version, SameCapture, PortsIn
  <1>3. /\ IndexCounts' /\ StreamIsOneConnection' /\ MessagesAreConnections' /\ NamesAreServices'
        /\ \A k \in DOMAIN conns, o \in BOOLEAN : DirOf(k, o)' = DirOf(k, o)
    BY <1>2, NothingCaptured DEF Version
  <1>4. SegmentsBelong' /\ SynsAreFirst'
    BY ZenonT(60) DEF StreamsInv, Version, SegmentsBelong, SynsAreFirst, IsSyn, PortsOf
  <1>5. PortsInTurn'
    BY DEF StreamsInv, Version, PortsInTurn, Over
  <1>7. GrantsAreExclusive'
    BY DEF StreamsInv, Version, GrantsAreExclusive, Over, Answers
  <1>8. GrantsAreKnown'
    BY DEF StreamsInv, Version, GrantsAreKnown, Over
  <1>6. StreamsFollow'
    BY <1>3 DEF StreamsInv, Version, StreamsFollow, Stands
  <1>. QED
    BY <1>1, <1>3, <1>4, <1>5, <1>6, <1>7, <1>8 DEF StreamsInv

\* What Send changes.
LEMMA SendChanges ==
  ASSUME TypeOK, NEW c \in DOMAIN conns, NEW o \in BOOLEAN, Send(c, o)
  PROVE  /\ conns' \in Seq(Connection) /\ DOMAIN conns' = DOMAIN conns /\ Len(conns') = Len(conns)
         /\ \A k \in DOMAIN conns :
               SameCapture(conns, conns', k) /\ conns'[k].phase = conns[k].phase
               /\ conns'[k].host = conns[k].host /\ conns'[k].device = conns[k].device
         /\ \A k \in DOMAIN conns, b \in BOOLEAN : k # c \/ b # o =>
               /\ Stands(k, b)' = Stands(k, b) /\ conns'[k].open[b] = conns[k].open[b]
               /\ conns'[k].half[b] = conns[k].half[b]
         /\ conns[c].open[o] /\ conns[c].phase # "syn"
         /\ \E segment \in Segment :
               /\ underWay' = [underWay EXCEPT ![o] = Append(@, segment)]
               /\ segment.conn = c /\ ~segment.syn /\ segment.ack
               /\ PortsOf(o, segment) = <<conns[c].host, conns[c].device>>
               /\ Allowed(Stands(c, o), segment.piece)
               /\ Stands(c, o)' = After(Stands(c, o), segment.piece)
               /\ Answers(c, o, segment.piece.message) =>
                     \/ segment.piece.message = conns[c].half[o]
                     \/ Free(segment.piece.message.port)
               /\ conns'[c].half[o] \in {NoMessage, conns[c].half[o], segment.piece.message}
  <1>1. PICK piece \in Pieces, close \in BOOLEAN :
          /\ IF close THEN piece = Bare ELSE MaySend(c, o, piece)
          /\ conns' = [conns EXCEPT
                 ![c].half[o] = CASE piece.kind = "head" -> piece.message
                                  [] piece.kind = "none" -> @
                                  [] OTHER -> NoMessage,
                 ![c].tls[o] = @ \/ piece.kind = "tls",
                 ![c].open[o] = ~close]
          /\ underWay' = [underWay EXCEPT ![o] = Append(@,
                              SegmentOf(c, o, FALSE, TRUE, close, piece))]
    BY DEF Send
  <1>2. DOMAIN conns' = DOMAIN conns /\ \A k \in DOMAIN conns : k # c => conns'[k] = conns[k]
    BY <1>1
  <1>. DEFINE half == CASE piece.kind = "head" -> piece.message
                        [] piece.kind = "none" -> conns[c].half[o]
                        [] OTHER -> NoMessage
  <1>3. conns'[c] = [conns[c] EXCEPT !.half[o] = half,
                                     !.tls[o] = conns[c].tls[o] \/ piece.kind = "tls",
                                     !.open[o] = ~close]
    BY <1>1
  <1>4. conns[c] \in Connection /\ piece.message \in MaybeMessage
    BY StateTypes DEF Pieces
  <1>5. half = After(Stands(c, o), piece).half /\ half \in MaybeMessage
    BY <1>4, NoMessageApart, ConnectionFields DEF After, Stands
  <1>. HIDE DEF half
  <1>6. /\ conns[c].half \in [BOOLEAN -> MaybeMessage] /\ conns[c].tls \in [BOOLEAN -> BOOLEAN]
        /\ conns[c].open \in [BOOLEAN -> BOOLEAN]
    BY <1>4, ConnectionFields
  <1>7. /\ conns'[c].half = [conns[c].half EXCEPT ![o] = half]
        /\ conns'[c].tls = [conns[c].tls EXCEPT ![o] = conns[c].tls[o] \/ piece.kind = "tls"]
        /\ conns'[c].open = [conns[c].open EXCEPT ![o] = ~close]
        /\ conns'[c].host = conns[c].host /\ conns'[c].device = conns[c].device
        /\ conns'[c].service = conns[c].service /\ conns'[c].phase = conns[c].phase
        /\ conns'[c].clear = conns[c].clear /\ conns'[c].seen = conns[c].seen
        /\ conns'[c].ended = conns[c].ended /\ conns'[c].named = conns[c].named
        /\ conns'[c].got = conns[c].got
    BY <1>3, <1>4 DEF Connection
  <1>8. conns'[c] \in Connection
    <2>. DEFINE halves == [conns[c].half EXCEPT ![o] = half]
                gone == [conns[c].tls EXCEPT ![o] = conns[c].tls[o] \/ piece.kind = "tls"]
                opens == [conns[c].open EXCEPT ![o] = ~close]
    <2>1. halves \in [BOOLEAN -> MaybeMessage]
      BY <1>5, <1>6
    <2>2. gone \in [BOOLEAN -> BOOLEAN] /\ opens \in [BOOLEAN -> BOOLEAN]
      BY <1>6, Zenon
    <2>3. conns'[c] = [conns[c] EXCEPT !.half = halves, !.tls = gone, !.open = opens]
      BY <1>3
    <2>. HIDE DEF halves, gone, opens
    <2>. QED
      BY <1>4, <2>1, <2>2, <2>3 DEF Connection
  <1>9. conns' \in Seq(Connection) /\ Len(conns') = Len(conns)
    <2>1. conns' = [conns EXCEPT ![c] = conns'[c]]
      BY ZenonT(60), <1>1
    <2>2. conns \in Seq(Connection)
      BY DEF TypeOK
    <2>. HIDE <1>1
    <2>. QED
      BY <1>8, <2>1, <2>2, ExceptSeq
  <1>10. \A k \in DOMAIN conns :
               SameCapture(conns, conns', k) /\ conns'[k].phase = conns[k].phase
               /\ conns'[k].host = conns[k].host /\ conns'[k].device = conns[k].device
    BY <1>2, <1>7 DEF SameCapture, PortsIn
  <1>11. \A k \in DOMAIN conns, b \in BOOLEAN : k # c \/ b # o =>
               /\ Stands(k, b)' = Stands(k, b) /\ conns'[k].open[b] = conns[k].open[b]
               /\ conns'[k].half[b] = conns[k].half[b]
    BY <1>2, <1>6, <1>7 DEF Stands
  <1>12. conns[c].open[o] /\ conns[c].phase # "syn"
    BY DEF Send
  <1>. DEFINE segment == SegmentOf(c, o, FALSE, TRUE, close, piece)
  <1>13. /\ segment.conn = c /\ ~segment.syn /\ segment.ack /\ segment.piece = piece
         /\ PortsOf(o, segment) = <<conns[c].host, conns[c].device>>
    BY <1>7 DEF SegmentOf, PortsOf
  <1>14. segment \in Segment
    <2>1. c \in 1 .. MaxConnections
      BY StreamsAssumption DEF TypeOK
    <2>2. conns'[c].host \in Ports /\ conns'[c].device \in Ports
      BY <1>8, ConnectionFields DEF Ports
    <2>. QED
      BY <2>1, <2>2 DEF SegmentOf, Segment
  <1>15. Allowed(Stands(c, o), piece)
    <2>1. CASE close
      BY <1>1, <2>1, NoMessageApart DEF Allowed
    <2>2. CASE ~close
      BY <1>1, <1>4, <2>2 DEF MaySend, Allowed, Stands, Pieces
    <2>. QED
      BY <2>1, <2>2
  <1>16. Stands(c, o)' = After(Stands(c, o), piece)
    <2>1. conns'[c].half[o] = half /\ conns'[c].tls[o] = (conns[c].tls[o] \/ piece.kind = "tls")
      BY <1>6, <1>7
    <2>2. After(Stands(c, o), piece).tls = (conns[c].tls[o] \/ piece.kind = "tls")
      BY DEF After, Stands
    <2>. QED
      BY <1>5, <2>1, <2>2 DEF Stands, After
  <1>17. Answers(c, o, piece.message) =>
             piece.message = conns[c].half[o] \/ Free(piece.message.port)
    <2>1. CASE close
      BY <1>1, <2>1, NoMessageApart DEF Answers
    <2>2. CASE ~close
      BY <1>1, <1>4, <2>2, NoMessageApart DEF MaySend, MayBegin, Answers, Pieces
    <2>. QED
      BY <2>1, <2>2
  <1>18. conns'[c].half[o] \in {NoMessage, conns[c].half[o], piece.message}
    <2>1. conns'[c].half[o] = half
      BY <1>6, <1>7
    <2>2. half \in {NoMessage, conns[c].half[o], piece.message}
      BY DEF half
    <2>. QED
      BY <2>1, <2>2
  <1>19. underWay' = [underWay EXCEPT ![o] = Append(@, segment)]
    BY <1>1
  <1>. HIDE DEF segment
  <1>20. /\ Allowed(Stands(c, o), segment.piece)
         /\ Stands(c, o)' = After(Stands(c, o), segment.piece)
         /\ Answers(c, o, segment.piece.message) =>
               \/ segment.piece.message = conns[c].half[o]
               \/ Free(segment.piece.message.port)
         /\ conns'[c].half[o] \in {NoMessage, conns[c].half[o], segment.piece.message}
    BY <1>13, <1>15, <1>16, <1>17, <1>18
  <1>. QED
    BY <1>2, <1>9, <1>10, <1>11, <1>12, <1>13, <1>14, <1>19, <1>20

\* A queue one segment longer has the segments it had, and that one.
LEMMA Appended ==
  ASSUME underWay \in [BOOLEAN -> Seq(Segment)], NEW o \in BOOLEAN, NEW segment \in Segment,
         underWay' = [underWay EXCEPT ![o] = Append(@, segment)]
  PROVE  /\ underWay' \in [BOOLEAN -> Seq(Segment)]
         /\ underWay'[o] = Append(underWay[o], segment)
         /\ \A b \in BOOLEAN : b # o => underWay'[b] = underWay[b]
         /\ \A b \in BOOLEAN : \A i \in DOMAIN underWay[b] :
               i \in DOMAIN underWay'[b] /\ underWay'[b][i] = underWay[b][i]
         /\ \A b \in BOOLEAN : \A i \in DOMAIN underWay'[b] :
               \/ i \in DOMAIN underWay[b] /\ underWay'[b][i] = underWay[b][i]
               \/ b = o /\ i = Len(underWay[o]) + 1 /\ underWay'[b][i] = segment
         /\ Len(underWay[o]) + 1 \in DOMAIN underWay'[o]
         /\ underWay'[o][Len(underWay[o]) + 1] = segment
  <1>. DEFINE queue == underWay[o]
              longer == Append(queue, segment)
  <1>1. queue \in Seq(Segment)
    OBVIOUS
  <1>2. underWay'[o] = longer /\ \A b \in BOOLEAN : b # o => underWay'[b] = underWay[b]
    OBVIOUS
  <1>3. /\ longer \in Seq(Segment) /\ Len(queue) \in Nat
        /\ DOMAIN queue = 1 .. Len(queue) /\ DOMAIN longer = 1 .. Len(queue) + 1
        /\ \A i \in 1 .. Len(queue) : longer[i] = queue[i]
        /\ longer[Len(queue) + 1] = segment
    BY <1>1, AppendProperties, LenProperties
  <1>4. underWay' \in [BOOLEAN -> Seq(Segment)]
    BY <1>3
  <1>5. \A i \in DOMAIN queue : i \in DOMAIN longer /\ longer[i] = queue[i]
    BY <1>3
  <1>6. ASSUME NEW i \in DOMAIN longer
        PROVE  \/ i \in DOMAIN queue /\ longer[i] = queue[i]
               \/ i = Len(queue) + 1 /\ longer[i] = segment
    <2>1. i = Len(queue) + 1 \/ i \in 1 .. Len(queue)
      BY <1>3
    <2>. QED
      BY <1>3, <2>1
  <1>7. Len(queue) + 1 \in DOMAIN longer
    BY <1>3
  <1>. HIDE DEF longer
  <1>. QED
    BY <1>2, <1>3, <1>4, <1>5, <1>6, <1>7 DEF longer

LEMMA SendStreams ==
  ASSUME StreamsInv, NEW c \in DOMAIN conns, NEW o \in BOOLEAN, Send(c, o)
  PROVE  StreamsInv'
  <1>1. TypeOK
    BY DEF StreamsInv
  <1>2. PICK segment \in Segment :
               /\ underWay' = [underWay EXCEPT ![o] = Append(@, segment)]
               /\ segment.conn = c /\ ~segment.syn /\ segment.ack
               /\ PortsOf(o, segment) = <<conns[c].host, conns[c].device>>
               /\ Allowed(Stands(c, o), segment.piece)
               /\ Stands(c, o)' = After(Stands(c, o), segment.piece)
               /\ Answers(c, o, segment.piece.message) =>
                     \/ segment.piece.message = conns[c].half[o]
                     \/ Free(segment.piece.message.port)
               /\ conns'[c].half[o] \in {NoMessage, conns[c].half[o], segment.piece.message}
    BY <1>1, SendChanges
  <1>3. /\ conns' \in Seq(Connection) /\ DOMAIN conns' = DOMAIN conns /\ Len(conns') = Len(conns)
        /\ \A k \in DOMAIN conns :
               SameCapture(conns, conns', k) /\ conns'[k].phase = conns[k].phase
               /\ conns'[k].host = conns[k].host /\ conns'[k].device = conns[k].device
        /\ \A k \in DOMAIN conns, b \in BOOLEAN : k # c \/ b # o =>
               /\ Stands(k, b)' = Stands(k, b) /\ conns'[k].open[b] = conns[k].open[b]
               /\ conns'[k].half[b] = conns[k].half[b]
        /\ conns[c].open[o] /\ conns[c].phase # "syn"
    BY <1>1, SendChanges
  <1>4. underWay \in [BOOLEAN -> Seq(Segment)]
    BY <1>1 DEF TypeOK
  <1>. DEFINE last == Len(underWay[o]) + 1
  <1>5. /\ underWay' \in [BOOLEAN -> Seq(Segment)]
        /\ underWay'[o] = Append(underWay[o], segment)
        /\ \A b \in BOOLEAN : b # o => underWay'[b] = underWay[b]
    BY <1>2, <1>4, Appended
  <1>6. \A b \in BOOLEAN : \A i \in DOMAIN underWay[b] :
               i \in DOMAIN underWay'[b] /\ underWay'[b][i] = underWay[b][i]
    BY <1>2, <1>4, Appended
  <1>7. \A b \in BOOLEAN : \A i \in DOMAIN underWay'[b] :
               \/ i \in DOMAIN underWay[b] /\ underWay'[b][i] = underWay[b][i]
               \/ b = o /\ i = last /\ underWay'[b][i] = segment
    BY <1>2, <1>4, Appended
  <1>8. last \in DOMAIN underWay'[o] /\ underWay'[o][last] = segment
    BY <1>2, <1>4, Appended
  <1>. HIDE DEF last
  <1>9. /\ UNCHANGED <<m_version, m_streamIndex, m_streams, m_serviceNames, granted, unseen, late>>
        /\ segments' \in Nat
    BY <1>1 DEF Send, program, TypeOK
  <1>10. TypeOK'
    BY <1>1, <1>3, <1>5, <1>9 DEF TypeOK
  <1>11. /\ IndexCounts' /\ StreamIsOneConnection' /\ MessagesAreConnections' /\ NamesAreServices'
         /\ \A k \in DOMAIN conns, b \in BOOLEAN : DirOf(k, b)' = DirOf(k, b)
    BY <1>3, <1>9, NothingCaptured
  <1>12. \A k \in DOMAIN conns : Over(k) => Over(k)'
    <2>. SUFFICES ASSUME NEW k \in DOMAIN conns, Over(k) PROVE Over(k)'
      OBVIOUS
    <2>1. k # c
      BY <1>3 DEF Over
    <2>2. \A b \in BOOLEAN : ~conns'[k].open[b]
      BY <1>3, <2>1 DEF Over
    <2>3. \A b \in BOOLEAN : \A i \in DOMAIN underWay'[b] : underWay'[b][i].conn # k
      BY <1>2, <1>7, <2>1 DEF Over
    <2>. QED
      BY <2>2, <2>3 DEF Over
  <1>13. SegmentsBelong'
    <2>. SUFFICES ASSUME NEW b \in BOOLEAN, NEW i \in DOMAIN underWay'[b]
                  PROVE  /\ underWay'[b][i].conn \in DOMAIN conns'
                         /\ PortsOf(b, underWay'[b][i]) =
                               <<conns'[underWay'[b][i].conn].host, conns'[underWay'[b][i].conn].device>>
      BY DEF SegmentsBelong, PortsOf
    <2>1. CASE i \in DOMAIN underWay[b] /\ underWay'[b][i] = underWay[b][i]
      BY <1>3, <2>1 DEF StreamsInv, SegmentsBelong
    <2>2. CASE b = o /\ underWay'[b][i] = segment
      BY <1>2, <1>3, <2>2
    <2>. QED
      BY <1>7, <2>1, <2>2
  <1>14. SynsAreFirst'
    <2>1. ASSUME NEW b \in BOOLEAN, NEW i \in DOMAIN underWay'[b]
          PROVE  LET k == underWay'[b][i].conn IN
                 /\ IsSyn(underWay'[b][i]) => b /\ conns'[k].phase = "syn" /\ ~underWay'[b][i].close
                                             /\ underWay'[b][i].piece = Bare
                 /\ conns'[k].phase = "syn" => IsSyn(underWay'[b][i])
                 /\ underWay'[b][i].syn /\ underWay'[b][i].ack => conns'[k].seen
      <3>1. CASE i \in DOMAIN underWay[b] /\ underWay'[b][i] = underWay[b][i]
        <4>1. underWay[b][i].conn \in DOMAIN conns
          BY <3>1 DEF StreamsInv, SegmentsBelong
        <4>. QED
          BY <1>3, <3>1, <4>1 DEF StreamsInv, SynsAreFirst, SameCapture
      <3>2. CASE underWay'[b][i] = segment
        BY <1>2, <1>3, <3>2 DEF IsSyn
      <3>. QED
        BY <1>7, <3>1, <3>2
    <2>2. ASSUME NEW i \in DOMAIN underWay'[TRUE], NEW j \in DOMAIN underWay'[TRUE],
                 IsSyn(underWay'[TRUE][i]), underWay'[TRUE][i].conn = underWay'[TRUE][j].conn
          PROVE  i = j
      <3>1. i \in DOMAIN underWay[TRUE] /\ underWay'[TRUE][i] = underWay[TRUE][i]
        BY <1>2, <1>7, <2>2 DEF IsSyn
      <3>2. underWay[TRUE][i].conn # c
        BY ZenonT(60), <1>3, <2>2, <3>1 DEF StreamsInv, SynsAreFirst
      <3>3. j \in DOMAIN underWay[TRUE] /\ underWay'[TRUE][j] = underWay[TRUE][j]
        BY <1>2, <1>7, <2>2, <3>1, <3>2
      <3>. QED
        BY <2>2, <3>1, <3>3 DEF StreamsInv, SynsAreFirst
    <2>3. \A k \in DOMAIN conns' :
              /\ conns'[k].phase = "syn" => ~conns'[k].seen
              /\ ~conns'[k].seen /\ conns'[k].phase # "syn" => k = 1
      BY <1>3 DEF StreamsInv, SynsAreFirst, SameCapture
    <2>. QED
      BY <2>1, <2>2, <2>3 DEF SynsAreFirst, IsSyn
  <1>15. PortsInTurn'
    <2>1. ASSUME NEW k \in DOMAIN conns, ~conns[k].seen, NEW b \in BOOLEAN
          PROVE  conns'[k].open[b] \/ \E i \in DOMAIN underWay'[b] : underWay'[b][i].conn = k
      <3>1. CASE k = c /\ b = o
        BY <1>2, <1>8, <3>1
      <3>2. CASE k # c \/ b # o
        BY <1>3, <1>6, <2>1, <3>2 DEF StreamsInv, PortsInTurn
      <3>. QED
        BY <3>1, <3>2
    <2>2. \A k, j \in DOMAIN conns' : k < j /\ conns'[k].host = conns'[j].host => Over(k)'
      BY <1>3, <1>12 DEF StreamsInv, PortsInTurn
    <2>3. \A k \in DOMAIN conns' : ~conns'[k].seen =>
              ~conns'[k].ended /\ conns'[k].got = <<>> /\ ~conns'[k].named
      BY <1>3 DEF StreamsInv, PortsInTurn, SameCapture
    <2>. QED
      BY <1>3, <2>1, <2>2, <2>3 DEF PortsInTurn, SameCapture
  <1>16. StreamsFollow'
    <2>. SUFFICES ASSUME NEW k \in DOMAIN conns, NEW b \in BOOLEAN
                  PROVE  \E talk \in Talk :
                            /\ Reflects(DirOf(k, b), conns[k].clear[b], talk)
                            /\ Leads(underWay'[b], k, talk, Stands(k, b)')
      BY <1>3, <1>11 DEF StreamsFollow, SameCapture
    <2>1. PICK talk \in Talk : /\ Reflects(DirOf(k, b), conns[k].clear[b], talk)
                               /\ Leads(underWay[b], k, talk, Stands(k, b))
      BY DEF StreamsInv, StreamsFollow
    <2>2. Stands(k, b) \in Talk /\ Stands(k, b)' \in Talk
      <3>1. Stands(k, b) \in Talk
        BY <1>1, StandsType
      <3>2. conns'[k] \in Connection
        BY <1>3, ElementOfSeq, LenProperties
      <3>. QED
        BY <3>1, <3>2, ConnectionFields DEF Stands, Talk
    <2>3. CASE b = o /\ k = c
      <3>1. Leads(Append(underWay[b], segment), k, talk, Stands(k, b)')
        BY <1>2, <1>4, <2>1, <2>2, <2>3, LeadsOn
      <3>. QED
        BY <1>5, <2>1, <2>3, <3>1
    <2>4. CASE b = o /\ k # c
      <3>1. Stands(k, b)' = Stands(k, b)
        BY <1>3, <2>4
      <3>2. Leads(Append(underWay[b], segment), k, talk, Stands(k, b)')
        BY <1>2, <1>4, <2>1, <2>2, <2>4, <3>1, LeadsOn
      <3>. QED
        BY <1>5, <2>1, <2>4, <3>2
    <2>5. CASE b # o
      BY <1>3, <1>5, <2>1, <2>5
    <2>. QED
      BY <2>3, <2>4, <2>5
  <1>17. GrantsAreExclusive'
    <2>. SUFFICES ASSUME NEW k \in DOMAIN conns, conns[k].device \in DevicePorts, ~Over(k)
                  PROVE  /\ \A i \in DOMAIN underWay'[FALSE] :
                               ~Gives(conns'[underWay'[FALSE][i].conn],
                                      underWay'[FALSE][i].piece.message, conns[k].device)
                         /\ \A j \in DOMAIN conns :
                               ~Gives(conns'[j], conns'[j].half[FALSE], conns[k].device)
      BY <1>3, <1>12 DEF GrantsAreExclusive
    <2>1. /\ \A i \in DOMAIN underWay[FALSE] :
                ~Gives(conns[underWay[FALSE][i].conn], underWay[FALSE][i].piece.message,
                       conns[k].device)
          /\ \A j \in DOMAIN conns : ~Gives(conns[j], conns[j].half[FALSE], conns[k].device)
      BY DEF StreamsInv, GrantsAreExclusive
    <2>2. o = FALSE => ~Gives(conns[c], segment.piece.message, conns[k].device)
      BY <1>2, <2>1 DEF Free, Gives, Answers
    <2>3. \A i \in DOMAIN underWay[FALSE] : underWay[FALSE][i].conn \in DOMAIN conns
      BY DEF StreamsInv, SegmentsBelong
    <2>4. ASSUME NEW i \in DOMAIN underWay'[FALSE]
          PROVE  ~Gives(conns'[underWay'[FALSE][i].conn], underWay'[FALSE][i].piece.message,
                        conns[k].device)
      <3>1. CASE i \in DOMAIN underWay[FALSE] /\ underWay'[FALSE][i] = underWay[FALSE][i]
        <4>. DEFINE j == underWay[FALSE][i].conn
        <4>1. conns'[j].device = conns[j].device
          BY <1>3, <2>3, <3>1
        <4>2. ~Gives(conns[j], underWay[FALSE][i].piece.message, conns[k].device)
          BY <2>1, <3>1
        <4>. QED
          BY <3>1, <4>1, <4>2 DEF Gives
      <3>2. CASE o = FALSE /\ underWay'[FALSE][i] = segment
        BY ZenonT(60), <1>2, <1>3, <2>2, <3>2 DEF Gives
      <3>. QED
        BY <1>7, <3>1, <3>2
    <2>5. ASSUME NEW j \in DOMAIN conns
          PROVE  ~Gives(conns'[j], conns'[j].half[FALSE], conns[k].device)
      <3>1. CASE conns'[j].half[FALSE] = conns[j].half[FALSE]
        BY ZenonT(60), <1>3, <2>1, <3>1 DEF Gives
      <3>2. CASE conns'[j].half[FALSE] = NoMessage
        BY <3>2, NoMessageApart DEF Gives
      <3>3. CASE o = FALSE /\ j = c /\ conns'[j].half[FALSE] = segment.piece.message
        BY <1>3, <2>2, <3>3 DEF Gives
      <3>. QED
        BY <1>2, <1>3, <3>1, <3>2, <3>3
    <2>. QED
      BY <2>4, <2>5
  <1>18. GrantsAreKnown'
    BY <1>3, <1>9, <1>12 DEF StreamsInv, GrantsAreKnown, SameCapture
  <1>. QED
    BY <1>10, <1>11, <1>13, <1>14, <1>15, <1>16, <1>17, <1>18 DEF StreamsInv

LEMMA OpenStreams ==
  ASSUME StreamsInv, NEW host \in HostPorts, NEW device \in DevicePorts \cup {Lockdown},
         Open(host, device)
  PROVE  StreamsInv'
  <1>. DEFINE conn == NewConnection(host, device)
              c == Len(conns) + 1
              segment == SegmentOf(c, TRUE, TRUE, FALSE, FALSE, Bare)
              last == Len(underWay[TRUE]) + 1
  <1>1. TypeOK /\ Len(conns) \in Nat /\ DOMAIN conns = 1 .. Len(conns)
    BY StateTypes DEF StreamsInv
  <1>2. /\ Len(conns) < MaxConnections
        /\ \A k \in DOMAIN conns : conns[k].host = host => Over(k)
        /\ device # Lockdown => granted[device] # NoName /\ NoGrantUnderWay(device)
        /\ conns' = Append(conns, conn)
        /\ underWay' = [underWay EXCEPT ![TRUE] = Append(@,
                             SegmentOf(Len(conns'), TRUE, TRUE, FALSE, FALSE, Bare))]
        /\ UNCHANGED <<m_version, m_streamIndex, m_streams, m_serviceNames, granted, unseen,
                       segments, late>>
    BY DEF Open, program
  <1>3. conn \in Connection
    <2>1. (IF device = Lockdown THEN Lockdownd ELSE granted[device]) \in Names
      BY <1>1 DEF TypeOK, Names
    <2>. QED
      BY <2>1, NoMessageApart, EmptySeq DEF NewConnection, Connection
  <1>4. /\ conn.host = host /\ conn.device = device /\ conn.phase = "syn" /\ ~conn.seen
        /\ ~conn.ended /\ ~conn.named /\ conn.got = <<>>
        /\ \A b \in BOOLEAN : conn.open[b] /\ conn.half[b] = NoMessage /\ ~conn.tls[b] /\ conn.clear[b]
                              /\ conn.tls[b] = FALSE
        /\ conn.service = IF device = Lockdown THEN Lockdownd ELSE granted[device]
    BY DEF NewConnection
  <1>. HIDE DEF conn
  <1>5. /\ conns' \in Seq(Connection) /\ Len(conns') = c /\ DOMAIN conns' = 1 .. c
        /\ conns'[c] = conn /\ \A k \in DOMAIN conns : k \in DOMAIN conns' /\ conns'[k] = conns[k]
        /\ \A k \in DOMAIN conns' : k = c \/ k \in DOMAIN conns
        /\ c \notin DOMAIN conns /\ c \in DOMAIN conns' /\ c \in 1 .. MaxConnections
    <2>1. conns \in Seq(Connection)
      BY <1>1 DEF TypeOK
    <2>2. /\ conns' \in Seq(Connection) /\ Len(conns') = c /\ conns'[c] = conn
          /\ \A k \in 1 .. Len(conns) : conns'[k] = conns[k]
      BY <1>2, <1>3, <2>1, AppendProperties
    <2>3. DOMAIN conns' = 1 .. c
      BY <2>2, LenProperties
    <2>4. \A k \in 1 .. c : k = c \/ k \in 1 .. Len(conns)
      BY <1>1
    <2>5. c \in 1 .. MaxConnections
      BY <1>1, <1>2, StreamsAssumption
    <2>. QED
      BY <1>1, <2>2, <2>3, <2>4, <2>5
  <1>6. /\ segment \in Segment /\ segment.conn = c /\ segment.syn /\ ~segment.ack /\ ~segment.close
        /\ segment.piece = Bare /\ segment.source = host /\ segment.destination = device
    <2>1. segment = [conn |-> c, syn |-> TRUE, ack |-> FALSE, close |-> FALSE, piece |-> Bare,
                     source |-> host, destination |-> device]
      BY <1>4, <1>5 DEF SegmentOf
    <2>2. host \in Ports /\ device \in Ports
      BY DEF Ports
    <2>3. c \in 1 .. MaxConnections
      BY <1>5
    <2>. HIDE DEF segment, c
    <2>. QED
      BY <2>1, <2>2, <2>3, NoMessageApart DEF Segment
  <1>7. underWay' = [underWay EXCEPT ![TRUE] = Append(@, segment)]
    BY <1>2, <1>5
  <1>8. underWay \in [BOOLEAN -> Seq(Segment)]
    BY <1>1 DEF TypeOK
  <1>. HIDE DEF segment
  <1>9. /\ underWay' \in [BOOLEAN -> Seq(Segment)]
        /\ underWay'[TRUE] = Append(underWay[TRUE], segment) /\ underWay'[FALSE] = underWay[FALSE]
    BY <1>6, <1>7, <1>8, Appended
  <1>10. \A b \in BOOLEAN : \A i \in DOMAIN underWay[b] :
                i \in DOMAIN underWay'[b] /\ underWay'[b][i] = underWay[b][i]
    BY <1>6, <1>7, <1>8, Appended
  <1>11. \A b \in BOOLEAN : \A i \in DOMAIN underWay'[b] :
                \/ i \in DOMAIN underWay[b] /\ underWay'[b][i] = underWay[b][i]
                \/ b = TRUE /\ i = last /\ underWay'[b][i] = segment
    BY <1>6, <1>7, <1>8, Appended
  <1>. HIDE DEF c, last
  <1>12. \A b \in BOOLEAN : \A i \in DOMAIN underWay[b] :
             underWay[b][i].conn \in DOMAIN conns /\ underWay[b][i].conn # c
    BY <1>5 DEF StreamsInv, SegmentsBelong
  <1>13. TypeOK'
    <2>1. Len(conns') <= MaxConnections
      BY <1>5, StreamsAssumption
    <2>2. /\ m_version' = m_version /\ m_streamIndex' = m_streamIndex /\ m_streams' = m_streams
          /\ m_serviceNames' = m_serviceNames /\ granted' = granted /\ unseen' = unseen
          /\ segments' = segments /\ late' = late
      BY <1>2
    <2>. QED
      BY <1>1, <1>5, <1>9, <2>1, <2>2 DEF TypeOK
  <1>14. /\ IndexCounts' /\ StreamIsOneConnection' /\ MessagesAreConnections' /\ NamesAreServices'
         /\ \A k \in DOMAIN conns, b \in BOOLEAN : DirOf(k, b)' = DirOf(k, b)
    <2>1. \A k \in DOMAIN conns : SameCapture(conns, conns', k)
      BY <1>5 DEF SameCapture, PortsIn
    <2>2. \A k \in DOMAIN conns' : k \notin DOMAIN conns => ~conns'[k].seen
      BY <1>4, <1>5
    <2>3. DOMAIN conns \subseteq DOMAIN conns'
      BY <1>5
    <2>. QED
      BY <1>2, <2>1, <2>2, <2>3, NothingCaptured
  <1>15. \A k \in DOMAIN conns : Over(k) => Over(k)'
    BY <1>5, <1>6, <1>11, <1>12 DEF Over
  <1>16. SegmentsBelong'
    <2>. SUFFICES ASSUME NEW b \in BOOLEAN, NEW i \in DOMAIN underWay'[b]
                  PROVE  /\ underWay'[b][i].conn \in DOMAIN conns'
                         /\ PortsOf(b, underWay'[b][i]) =
                               <<conns'[underWay'[b][i].conn].host, conns'[underWay'[b][i].conn].device>>
      BY DEF SegmentsBelong, PortsOf
    <2>1. CASE i \in DOMAIN underWay[b] /\ underWay'[b][i] = underWay[b][i]
      BY <1>5, <2>1 DEF StreamsInv, SegmentsBelong
    <2>2. CASE b = TRUE /\ underWay'[b][i] = segment
      BY <1>4, <1>5, <1>6, <2>2 DEF PortsOf
    <2>. QED
      BY <1>11, <2>1, <2>2
  <1>17. SynsAreFirst'
    <2>1. ASSUME NEW b \in BOOLEAN, NEW i \in DOMAIN underWay'[b]
          PROVE  LET k == underWay'[b][i].conn IN
                 /\ IsSyn(underWay'[b][i]) => b /\ conns'[k].phase = "syn" /\ ~underWay'[b][i].close
                                             /\ underWay'[b][i].piece = Bare
                 /\ conns'[k].phase = "syn" => IsSyn(underWay'[b][i])
                 /\ underWay'[b][i].syn /\ underWay'[b][i].ack => conns'[k].seen
      <3>1. CASE i \in DOMAIN underWay[b] /\ underWay'[b][i] = underWay[b][i]
        BY <1>5, <1>12, <3>1 DEF StreamsInv, SynsAreFirst
      <3>2. CASE b = TRUE /\ underWay'[b][i] = segment
        BY <1>4, <1>5, <1>6, <3>2 DEF IsSyn
      <3>. QED
        BY <1>11, <3>1, <3>2
    <2>2. ASSUME NEW i \in DOMAIN underWay'[TRUE], NEW j \in DOMAIN underWay'[TRUE],
                 IsSyn(underWay'[TRUE][i]), underWay'[TRUE][i].conn = underWay'[TRUE][j].conn
          PROVE  i = j
      <3>1. CASE i \in DOMAIN underWay[TRUE] /\ underWay'[TRUE][i] = underWay[TRUE][i]
        <4>1. j \in DOMAIN underWay[TRUE] /\ underWay'[TRUE][j] = underWay[TRUE][j]
          BY <1>6, <1>11, <1>12, <2>2, <3>1
        <4>. QED
          BY <2>2, <3>1, <4>1 DEF StreamsInv, SynsAreFirst
      <3>2. CASE i = last /\ underWay'[TRUE][i] = segment
        BY <1>6, <1>11, <1>12, <2>2, <3>2
      <3>. QED
        BY <1>11, <3>1, <3>2
    <2>3. \A k \in DOMAIN conns' :
              /\ conns'[k].phase = "syn" => ~conns'[k].seen
              /\ ~conns'[k].seen /\ conns'[k].phase # "syn" => k = 1
      BY <1>4, <1>5 DEF StreamsInv, SynsAreFirst
    <2>. QED
      BY <2>1, <2>2, <2>3 DEF SynsAreFirst, IsSyn
  <1>18. PortsInTurn'
    <2>1. ASSUME NEW k \in DOMAIN conns', ~conns'[k].seen
          PROVE  /\ ~conns'[k].ended /\ conns'[k].got = <<>> /\ ~conns'[k].named
                 /\ \A b \in BOOLEAN : \/ conns'[k].open[b]
                                       \/ \E i \in DOMAIN underWay'[b] : underWay'[b][i].conn = k
      <3>1. CASE k = c
        BY <1>4, <1>5, <3>1
      <3>2. CASE k \in DOMAIN conns
        BY <1>5, <1>10, <2>1, <3>2 DEF StreamsInv, PortsInTurn
      <3>. QED
        BY <1>5, <3>1, <3>2
    <2>2. ASSUME NEW k \in DOMAIN conns', NEW j \in DOMAIN conns', k < j,
                 conns'[k].host = conns'[j].host
          PROVE  Over(k)'
      <3>1. k \in DOMAIN conns
        BY <1>1, <1>5, <2>2 DEF c
      <3>2. CASE j = c
        BY <1>2, <1>4, <1>5, <1>15, <2>2, <3>1, <3>2
      <3>3. CASE j \in DOMAIN conns
        BY <1>5, <1>15, <2>2, <3>1, <3>3 DEF StreamsInv, PortsInTurn
      <3>. QED
        BY <1>5, <3>2, <3>3
    <2>. QED
      BY <2>1, <2>2 DEF PortsInTurn
  <1>19. StreamsFollow'
    <2>. SUFFICES ASSUME NEW k \in DOMAIN conns', NEW b \in BOOLEAN
                  PROVE  \E talk \in Talk :
                            /\ Reflects(DirOf(k, b)', conns'[k].clear[b], talk)
                            /\ Leads(underWay'[b], k, talk, Stands(k, b)')
      BY DEF StreamsFollow
    <2>1. CASE k = c
      <3>. DEFINE idle == [half |-> NoMessage, tls |-> FALSE]
      <3>1. Stands(k, b)' = idle /\ idle \in Talk
        BY <1>4, <1>5, <2>1, NoMessageApart DEF Stands, Talk
      <3>2. DirOf(k, b)' = Fresh
        BY <1>4, <1>5, <2>1 DEF DirOf
      <3>3. conns'[k].clear[b] /\ Reflects(Fresh, conns'[k].clear[b], idle)
        BY <1>4, <1>5, <2>1 DEF Reflects, Fresh
      <3>. HIDE DEF idle
      <3>4. Leads(underWay[b], c, idle, idle)
        <4>1. \A i \in 1 .. Len(underWay[b]) : underWay[b][i].conn # c
          BY <1>1, <1>12, StateTypes
        <4>. QED
          BY <1>8, <3>1, <4>1, LeadsNowhere
      <3>5. After(idle, Bare) = idle /\ Allowed(idle, Bare)
        BY NoMessageApart DEF After, Allowed, idle
      <3>6. Leads(Append(underWay[b], segment), c, idle, idle)
        BY <1>6, <1>8, <3>1, <3>4, <3>5, LeadsOn
      <3>. QED
        BY <1>9, <2>1, <3>1, <3>2, <3>3, <3>4, <3>6
    <2>2. CASE k \in DOMAIN conns
      <3>1. PICK talk \in Talk : /\ Reflects(DirOf(k, b), conns[k].clear[b], talk)
                                 /\ Leads(underWay[b], k, talk, Stands(k, b))
        BY <2>2 DEF StreamsInv, StreamsFollow
      <3>2. Stands(k, b)' = Stands(k, b) /\ Stands(k, b) \in Talk
        BY <1>1, <1>5, <2>2, StandsType DEF Stands
      <3>3. Leads(Append(underWay[b], segment), k, talk, Stands(k, b))
        BY <1>5, <1>6, <1>8, <2>2, <3>1, <3>2, LeadsOn
      <3>. QED
        BY <1>5, <1>9, <1>14, <2>2, <3>1, <3>2, <3>3
    <2>. QED
      BY <1>5, <2>1, <2>2
  <1>20. GrantsAreExclusive'
    <2>. SUFFICES ASSUME NEW k \in DOMAIN conns', conns'[k].device \in DevicePorts, ~Over(k)'
                  PROVE  /\ \A i \in DOMAIN underWay'[FALSE] :
                               ~Gives(conns'[underWay'[FALSE][i].conn],
                                      underWay'[FALSE][i].piece.message, conns'[k].device)
                         /\ \A j \in DOMAIN conns' :
                               ~Gives(conns'[j], conns'[j].half[FALSE], conns'[k].device)
      BY DEF GrantsAreExclusive
    <2>1. /\ \A i \in DOMAIN underWay[FALSE] :
                ~Gives(conns[underWay[FALSE][i].conn], underWay[FALSE][i].piece.message,
                       conns'[k].device)
          /\ \A j \in DOMAIN conns : ~Gives(conns[j], conns[j].half[FALSE], conns'[k].device)
      <3>1. CASE k = c
        <4>1. conns'[k].device = device /\ NoGrantUnderWay(device)
          BY <1>2, <1>4, <1>5, <3>1, StreamsAssumption
        <4>. QED
          BY <4>1 DEF NoGrantUnderWay, Gives
      <3>2. CASE k \in DOMAIN conns
        BY <1>5, <1>15, <3>2 DEF StreamsInv, GrantsAreExclusive
      <3>. QED
        BY <1>5, <3>1, <3>2
    <2>2. \A i \in DOMAIN underWay[FALSE] : conns'[underWay[FALSE][i].conn] = conns[underWay[FALSE][i].conn]
      BY <1>5, <1>12
    <2>3. ~Gives(conns'[c], conns'[c].half[FALSE], conns'[k].device)
      BY <1>4, <1>5, NoMessageApart DEF Gives
    <2>. QED
      BY ZenonT(60), <1>5, <1>9, <2>1, <2>2, <2>3
  <1>21. GrantsAreKnown'
    <2>1. \A k \in DOMAIN conns' : ~Over(k)' =>
              conns'[k].service = IF conns'[k].device = Lockdown THEN Lockdownd
                                  ELSE granted[conns'[k].device]
      BY <1>4, <1>5, <1>15 DEF StreamsInv, GrantsAreKnown
    <2>. QED
      BY <1>2, <2>1 DEF StreamsInv, GrantsAreKnown
  <1>. QED
    BY <1>13, <1>14, <1>16, <1>17, <1>18, <1>19, <1>20, <1>21 DEF StreamsInv

\* The segment that arrives: it is of the last connection of its ports, and is
\* what its sender may send from where the capture has the direction.
LEMMA ArrivalIsNext ==
  ASSUME StreamsInv, NEW o \in BOOLEAN, underWay[o] # <<>>
  PROVE  LET segment == Head(underWay[o])
             c == segment.conn
         IN
         /\ segment \in Segment /\ c \in DOMAIN conns /\ conns[c] \in Connection
         /\ 1 \in DOMAIN underWay[o] /\ underWay[o][1] = segment
         /\ PortsOf(o, segment) = PortsIn(conns, c) /\ PortsIn(conns, c) \in Ports \X Ports
         /\ PortsIn(conns, c) = <<conns[c].host, conns[c].device>>
         /\ ~Over(c) /\ IsLast(conns, c)
         /\ IsSyn(segment) => o = TRUE /\ conns[c].phase = "syn" /\ ~segment.close
                              /\ segment.piece = Bare /\ ~conns[c].seen
         /\ conns[c].phase = "syn" => IsSyn(segment)
         /\ DirOf(c, o) \in Direction
         /\ \E talk \in Talk :
               /\ Reflects(DirOf(c, o), conns[c].clear[o], talk)
               /\ Allowed(talk, segment.piece)
               /\ Leads(Tail(underWay[o]), c, After(talk, segment.piece), Stands(c, o))
  <1>. DEFINE segment == Head(underWay[o])
              c == segment.conn
  <1>1. TypeOK
    BY DEF StreamsInv
  <1>2. underWay[o] \in Seq(Segment)
    BY <1>1, StateTypes
  <1>3. segment \in Segment /\ 1 \in DOMAIN underWay[o] /\ underWay[o][1] = segment
    BY <1>2, HeadTailProperties, EmptySeq, LenProperties
  <1>4. c \in DOMAIN conns /\ PortsOf(o, segment) = PortsIn(conns, c)
    BY <1>3 DEF StreamsInv, SegmentsBelong, PortsIn
  <1>5. conns[c] \in Connection /\ PortsIn(conns, c) \in Ports \X Ports
    BY <1>1, <1>4, StateTypes, ConnectionFields DEF PortsIn
  <1>6. ~Over(c)
    BY <1>3 DEF Over
  <1>7. IsLast(conns, c)
    BY <1>4, <1>6 DEF IsLast, PortsIn, StreamsInv, PortsInTurn
  <1>8. IsSyn(segment) => o /\ conns[c].phase = "syn" /\ ~segment.close
                          /\ segment.piece = Bare /\ ~conns[c].seen
    BY <1>3, <1>4 DEF StreamsInv, SynsAreFirst
  <1>9. conns[c].phase = "syn" => IsSyn(segment)
    BY <1>3 DEF StreamsInv, SynsAreFirst
  <1>10. DirOf(c, o) \in Direction
    <2>1. CASE conns[c].seen
      <3>1. IdOf(c) \in DOMAIN m_streams
        BY <1>4, <2>1 DEF StreamsInv, StreamIsOneConnection, Seen
      <3>2. m_streams[IdOf(c)] \in Stream
        BY <1>1, <3>1 DEF TypeOK
      <3>. QED
        BY <2>1, <3>2 DEF DirOf, Stream
    <2>2. CASE ~conns[c].seen
      BY <2>2, NoMessageApart DEF DirOf, Fresh, Direction
    <2>. QED
      BY <2>1, <2>2
  <1>11. PICK talk \in Talk : /\ Reflects(DirOf(c, o), conns[c].clear[o], talk)
                              /\ Leads(underWay[o], c, talk, Stands(c, o))
    BY <1>4 DEF StreamsInv, StreamsFollow
  <1>12. /\ Allowed(talk, segment.piece)
         /\ Leads(Tail(underWay[o]), c, After(talk, segment.piece), Stands(c, o))
    <2>1. Stands(c, o) \in Talk
      BY <1>1, <1>4, StandsType
    <2>. QED
      BY <1>2, <1>11, <2>1, LeadsFrom
  <1>. QED
    BY <1>3, <1>4, <1>5, <1>6, <1>7, <1>8, <1>9, <1>10, <1>11, <1>12 DEF PortsIn

\* What the arrival changes of its connection, and what the capture completes.
LEMMA ArrivalChanges ==
  ASSUME StreamsInv, NEW o \in BOOLEAN, Arrive(o)
  PROVE  LET segment == Head(underWay[o])
             c == segment.conn
         IN
         /\ conns' \in Seq(Connection) /\ DOMAIN conns' = DOMAIN conns /\ Len(conns') = Len(conns)
         /\ \A k \in DOMAIN conns : k # c => conns'[k] = conns[k]
         /\ conns'[c].host = conns[c].host /\ conns'[c].device = conns[c].device
         /\ conns'[c].service = conns[c].service /\ conns'[c].half = conns[c].half
         /\ conns'[c].tls = conns[c].tls /\ conns'[c].clear = conns[c].clear
         /\ conns'[c].phase = Phase(conns[c], segment)
         /\ conns'[c].open = IF segment.close THEN [b \in BOOLEAN |-> FALSE] ELSE conns[c].open
         /\ conns'[c].seen = TRUE
         /\ conns'[c].ended = (conns[c].ended \/ segment.close)
         /\ conns'[c].named = IF IsSyn(segment) THEN conns[c].device \notin unseen
                              ELSE conns[c].named
         /\ conns'[c].got = IF ~Shows(c, o, segment.piece) THEN conns[c].got
                            ELSE Append(conns[c].got,
                                        [outbound |-> o, message |-> segment.piece.message])
         /\ Shows(c, o, segment.piece) => segment.piece.message \in Messages
         /\ Consumed(DirOf(c, o), segment.piece).dir \in Direction
         /\ Consumed(DirOf(c, o), segment.piece).messages =
                IF Shows(c, o, segment.piece) THEN <<segment.piece.message>> ELSE <<>>
         /\ \E talk \in Talk :
               /\ Reflects(Consumed(DirOf(c, o), segment.piece).dir, conns[c].clear[o], talk)
               /\ Leads(Tail(underWay[o]), c, talk, Stands(c, o))
  <1>. DEFINE segment == Head(underWay[o])
              c == segment.conn
              phase == Phase(conns[c], segment)
              open == IF segment.close THEN [b \in BOOLEAN |-> FALSE] ELSE conns[c].open
              ended == conns[c].ended \/ segment.close
              named == IF IsSyn(segment) THEN conns[c].device \notin unseen ELSE conns[c].named
              got == IF ~Shows(c, o, segment.piece) THEN conns[c].got
                     ELSE Append(conns[c].got,
                                 [outbound |-> o, message |-> segment.piece.message])
  <1>1. underWay[o] # <<>>
    BY DEF Arrive
  <1>2. /\ segment \in Segment /\ c \in DOMAIN conns /\ conns[c] \in Connection
        /\ DirOf(c, o) \in Direction
    BY <1>1, ArrivalIsNext
  <1>3. PICK talk \in Talk :
               /\ Reflects(DirOf(c, o), conns[c].clear[o], talk)
               /\ Allowed(talk, segment.piece)
               /\ Leads(Tail(underWay[o]), c, After(talk, segment.piece), Stands(c, o))
    BY <1>1, ArrivalIsNext
  <1>4. segment.piece \in Pieces /\ conns[c].clear[o] \in BOOLEAN
    BY <1>2, SegmentFields, ConnectionFields
  <1>5. /\ Consumed(DirOf(c, o), segment.piece).dir \in Direction
        /\ Reflects(Consumed(DirOf(c, o), segment.piece).dir, conns[c].clear[o],
                    After(talk, segment.piece))
        /\ After(talk, segment.piece) \in Talk
        /\ segment.piece.kind \in {"whole", "tail"} => segment.piece.message \in Messages
        /\ Consumed(DirOf(c, o), segment.piece).messages =
               IF segment.piece.kind \in {"whole", "tail"} /\ conns[c].clear[o]
               THEN <<segment.piece.message>> ELSE <<>>
    BY <1>2, <1>3, <1>4, ConsumedFollows
  <1>6. conns' = [conns EXCEPT ![c] = [conns[c] EXCEPT
                     !.phase = phase, !.open = open, !.seen = TRUE,
                     !.ended = ended, !.named = named, !.got = got]]
    BY DEF Arrive, IsSyn
  <1>7. /\ phase \in {"syn", "accepted", "established"} /\ open \in [BOOLEAN -> BOOLEAN]
        /\ ended \in BOOLEAN /\ named \in BOOLEAN
        /\ got \in Seq([outbound : BOOLEAN, message : Messages])
    <2>1. phase \in {"syn", "accepted", "established"}
      BY <1>2, ConnectionFields DEF Phase
    <2>2. open \in [BOOLEAN -> BOOLEAN] /\ ended \in BOOLEAN /\ named \in BOOLEAN
      BY <1>2, ConnectionFields, SegmentFields, Zenon
    <2>3. got \in Seq([outbound : BOOLEAN, message : Messages])
      <3>1. Shows(c, o, segment.piece) => segment.piece.message \in Messages
        BY <1>5 DEF Shows
      <3>2. conns[c].got \in Seq([outbound : BOOLEAN, message : Messages])
        BY <1>2, ConnectionFields
      <3>. QED
        BY <3>1, <3>2, AppendProperties
    <2>. QED
      BY <2>1, <2>2, <2>3
  <1>8. conns'[c] = [conns[c] EXCEPT !.phase = phase, !.open = open, !.seen = TRUE,
                                     !.ended = ended, !.named = named, !.got = got]
    BY <1>2, <1>6
  <1>9. conns' = [conns EXCEPT ![c] = conns'[c]]
    BY <1>6
  <1>. HIDE DEF phase, open, ended, named, got
  <1>10. conns'[c] \in Connection
    BY <1>2, <1>7, <1>8 DEF Connection
  <1>11. /\ conns' \in Seq(Connection) /\ DOMAIN conns' = DOMAIN conns /\ Len(conns') = Len(conns)
         /\ \A k \in DOMAIN conns : k # c => conns'[k] = conns[k]
    <2>1. conns \in Seq(Connection) /\ c \in 1 .. Len(conns)
      BY <1>2, LenProperties DEF StreamsInv, TypeOK
    <2>2. [conns EXCEPT ![c] = conns'[c]] \in Seq(Connection)
          /\ Len([conns EXCEPT ![c] = conns'[c]]) = Len(conns)
      BY <1>10, <2>1, ExceptSeq
    <2>3. conns' \in Seq(Connection) /\ Len(conns') = Len(conns)
      BY <1>9, <2>2
    <2>. QED
      BY <1>9, <2>3
  <1>12. /\ conns'[c].host = conns[c].host /\ conns'[c].device = conns[c].device
         /\ conns'[c].service = conns[c].service /\ conns'[c].half = conns[c].half
         /\ conns'[c].tls = conns[c].tls /\ conns'[c].clear = conns[c].clear
         /\ conns'[c].phase = phase /\ conns'[c].open = open /\ conns'[c].seen = TRUE
         /\ conns'[c].ended = ended /\ conns'[c].named = named /\ conns'[c].got = got
    BY <1>2, <1>8 DEF Connection
  <1>13. Shows(c, o, segment.piece) <=>
             segment.piece.kind \in {"whole", "tail"} /\ conns[c].clear[o]
    BY DEF Shows
  <1>. QED
    BY <1>3, <1>5, <1>11, <1>12, <1>13 DEF phase, open, ended, named, got

\* What the arrival changes of the queues: its segment is gone, and when that was
\* a SYN the device's reply is under way.
IsReply(reply, c) ==
    /\ reply \in Segment /\ reply.conn = c /\ reply.ack /\ reply.piece = Bare
    /\ PortsOf(FALSE, reply) = PortsIn(conns, c)

LEMMA ArrivalQueues ==
  ASSUME StreamsInv, NEW o \in BOOLEAN, Arrive(o)
  PROVE  LET segment == Head(underWay[o])
             c == segment.conn
         IN
         /\ underWay' \in [BOOLEAN -> Seq(Segment)]
         /\ underWay'[o] = Tail(underWay[o])
         /\ \A b \in BOOLEAN : b # o =>
               \/ underWay'[b] = underWay[b]
               \/ /\ b = FALSE /\ o = TRUE /\ IsSyn(segment)
                  /\ \E reply : IsReply(reply, c) /\ underWay'[b] = Append(underWay[b], reply)
         /\ \A i \in DOMAIN underWay'[o] :
               i + 1 \in DOMAIN underWay[o] /\ i + 1 # 1 /\ underWay'[o][i] = underWay[o][i + 1]
         /\ \A b \in BOOLEAN : b # o => \A i \in DOMAIN underWay'[b] :
               \/ i \in DOMAIN underWay[b] /\ underWay'[b][i] = underWay[b][i]
               \/ b = FALSE /\ o = TRUE /\ IsSyn(segment) /\ IsReply(underWay'[b][i], c)
         /\ \A b \in BOOLEAN : \A i \in DOMAIN underWay[b] :
               \/ b = o /\ underWay[b][i] = segment
               \/ \E j \in DOMAIN underWay'[b] : underWay'[b][j] = underWay[b][i]
  <1>. DEFINE segment == Head(underWay[o])
              c == segment.conn
  <1>1. underWay[o] # <<>>
    BY DEF Arrive
  <1>2. /\ segment \in Segment /\ c \in DOMAIN conns /\ conns[c] \in Connection
        /\ underWay[o][1] = segment
        /\ IsSyn(segment) => o = TRUE
    BY <1>1, ArrivalIsNext
  <1>3. /\ conns'[c].host = conns[c].host /\ conns'[c].device = conns[c].device
    BY ArrivalChanges
  <1>4. /\ underWay \in [BOOLEAN -> Seq(Segment)] /\ c \in 1 .. MaxConnections
    BY <1>2, SegmentFields DEF StreamsInv, TypeOK
  <1>5. PICK answer \in Replies(c, segment) :
            underWay' = [b \in BOOLEAN |->
                            (IF b = o THEN Tail(underWay[b]) ELSE underWay[b])
                                \o (IF b THEN <<>> ELSE answer)]
    BY DEF Arrive
  <1>6. \/ answer = <<>>
        \/ /\ o = TRUE /\ IsSyn(segment)
           /\ \E reply : IsReply(reply, c) /\ answer = <<reply>>
    <2>1. CASE ~IsSyn(segment)
      BY <2>1 DEF Replies, IsSyn
    <2>2. CASE IsSyn(segment)
      <3>1. PICK syn \in BOOLEAN, close \in BOOLEAN :
                answer = <<SegmentOf(c, FALSE, syn, TRUE, close, Bare)>>
        BY <2>2 DEF Replies, IsSyn
      <3>. DEFINE reply == SegmentOf(c, FALSE, syn, TRUE, close, Bare)
      <3>2. reply = [conn |-> c, syn |-> syn, ack |-> TRUE, close |-> close, piece |-> Bare,
                     source |-> conns[c].device, destination |-> conns[c].host]
        BY <1>3 DEF SegmentOf
      <3>3. conns[c].device \in Ports /\ conns[c].host \in Ports
        BY <1>2, ConnectionFields DEF Ports
      <3>. HIDE DEF reply
      <3>4. reply \in Segment /\ reply.conn = c /\ reply.ack /\ reply.piece = Bare
        BY <1>4, <3>2, <3>3, NoMessageApart DEF Segment
      <3>5. PortsOf(FALSE, reply) = PortsIn(conns, c)
        BY <3>2 DEF PortsOf, PortsIn
      <3>. QED
        BY <1>2, <2>2, <3>1, <3>4, <3>5 DEF IsReply, reply
    <2>. QED
      BY <2>1, <2>2
  <1>7. underWay'[o] = Tail(underWay[o]) /\ Tail(underWay[o]) \in Seq(Segment)
    <2>1. underWay[o] \in Seq(Segment) /\ Tail(underWay[o]) \in Seq(Segment)
      BY <1>1, <1>4, HeadTailProperties
    <2>2. o = TRUE \/ answer = <<>>
      BY <1>6
    <2>3. underWay'[o] = Tail(underWay[o]) \o <<>>
      BY <1>5, <2>2
    <2>. QED
      BY <2>1, <2>3, ConcatEmptySeq
  <1>8. ASSUME NEW b \in BOOLEAN, b # o
        PROVE  \/ underWay'[b] = underWay[b]
               \/ /\ b = FALSE /\ o = TRUE /\ IsSyn(segment)
                  /\ \E reply : IsReply(reply, c) /\ underWay'[b] = Append(underWay[b], reply)
    <2>1. underWay[b] \in Seq(Segment)
      BY <1>4
    <2>2. CASE b = TRUE \/ answer = <<>>
      <3>1. underWay'[b] = underWay[b] \o <<>>
        BY <1>5, <1>8, <2>2
      <3>. QED
        BY <2>1, <3>1, ConcatEmptySeq
    <2>3. CASE b = FALSE /\ answer # <<>>
      <3>1. PICK reply : IsReply(reply, c) /\ answer = <<reply>>
        BY <1>6, <2>3
      <3>2. underWay'[b] = underWay[b] \o <<reply>>
        BY <1>5, <1>8, <2>3, <3>1
      <3>3. reply \in Segment
        BY <3>1 DEF IsReply
      <3>4. underWay[b] \o <<reply>> = Append(underWay[b], reply)
        BY <2>1, <3>3, AppendIsConcat
      <3>. QED
        BY <1>6, <2>3, <3>1, <3>2, <3>4
    <2>. QED
      BY <2>2, <2>3
  <1>9. ASSUME NEW b \in BOOLEAN, b # o
        PROVE  /\ underWay'[b] \in Seq(Segment)
               /\ \A i \in DOMAIN underWay'[b] :
                     \/ i \in DOMAIN underWay[b] /\ underWay'[b][i] = underWay[b][i]
                     \/ b = FALSE /\ o = TRUE /\ IsSyn(segment) /\ IsReply(underWay'[b][i], c)
               /\ \A i \in DOMAIN underWay[b] :
                     i \in DOMAIN underWay'[b] /\ underWay'[b][i] = underWay[b][i]
    <2>. DEFINE queue == underWay[b]
    <2>1. queue \in Seq(Segment) /\ Len(queue) \in Nat /\ DOMAIN queue = 1 .. Len(queue)
      BY <1>4, LenProperties
    <2>2. CASE underWay'[b] = queue
      BY <2>1, <2>2
    <2>3. CASE underWay'[b] # queue
      <3>1. PICK reply : IsReply(reply, c) /\ underWay'[b] = Append(queue, reply)
        BY <1>8, <1>9, <2>3
      <3>2. reply \in Segment /\ b = FALSE /\ o = TRUE /\ IsSyn(segment)
        BY <1>8, <1>9, <2>3, <3>1 DEF IsReply
      <3>. DEFINE longer == Append(queue, reply)
      <3>3. /\ longer \in Seq(Segment) /\ DOMAIN longer = 1 .. Len(queue) + 1
            /\ longer[Len(queue) + 1] = reply /\ \A i \in 1 .. Len(queue) : longer[i] = queue[i]
        BY <2>1, <3>2, AppendProperties, LenProperties
      <3>4. \A i \in 1 .. Len(queue) + 1 : i = Len(queue) + 1 \/ i \in 1 .. Len(queue)
        BY <2>1
      <3>5. 1 .. Len(queue) \subseteq 1 .. Len(queue) + 1
        BY <2>1
      <3>6. \A i \in DOMAIN longer :
                (i \in DOMAIN queue /\ longer[i] = queue[i]) \/ IsReply(longer[i], c)
        BY <2>1, <3>1, <3>3, <3>4
      <3>7. \A i \in DOMAIN queue : i \in DOMAIN longer /\ longer[i] = queue[i]
        BY <2>1, <3>3, <3>5
      <3>8. underWay'[b] = longer
        BY <3>1
      <3>. HIDE DEF longer, queue
      <3>. QED
        BY <3>2, <3>3, <3>6, <3>7, <3>8 DEF queue
    <2>. QED
      BY <2>2, <2>3
  <1>10. /\ \A i \in DOMAIN underWay'[o] :
               i + 1 \in DOMAIN underWay[o] /\ i + 1 # 1 /\ underWay'[o][i] = underWay[o][i + 1]
         /\ \A i \in DOMAIN underWay[o] :
               \/ underWay[o][i] = segment
               \/ \E j \in DOMAIN underWay'[o] : underWay'[o][j] = underWay[o][i]
    <2>. DEFINE queue == underWay[o]
                n == Len(queue) - 1
                shorter == Tail(queue)
    <2>1. queue \in Seq(Segment) /\ queue # <<>>
      BY <1>1, <1>4
    <2>2. /\ n \in Nat /\ DOMAIN queue = 1 .. n + 1 /\ DOMAIN shorter = 1 .. n
          /\ \A i \in 1 .. n : shorter[i] = queue[i + 1]
      BY <2>1, HeadTailProperties, LenProperties, EmptySeq
    <2>3. underWay'[o] = shorter /\ queue[1] = segment
      BY <1>2, <1>7
    <2>. HIDE DEF n, shorter, queue
    <2>4. \A i \in 1 .. n : i + 1 \in 1 .. n + 1 /\ i + 1 # 1
      BY <2>2
    <2>5. \A i \in 1 .. n + 1 : i = 1 \/ (i - 1 \in 1 .. n /\ (i - 1) + 1 = i)
      BY <2>2
    <2>6. ASSUME NEW i \in DOMAIN queue, queue[i] # segment
          PROVE  \E j \in DOMAIN shorter : shorter[j] = queue[i]
      <3>1. i - 1 \in 1 .. n /\ (i - 1) + 1 = i
        BY <2>2, <2>3, <2>5, <2>6
      <3>2. shorter[i - 1] = queue[i]
        BY <2>2, <3>1
      <3>. QED
        BY <2>2, <3>1, <3>2
    <2>. QED
      BY <2>2, <2>3, <2>4, <2>6 DEF queue
  <1>11. underWay' \in [BOOLEAN -> Seq(Segment)]
    <2>1. \A b \in BOOLEAN : underWay'[b] \in Seq(Segment)
      BY <1>7, <1>9
    <2>. QED
      BY <1>5, <2>1
  <1>. QED
    BY <1>7, <1>8, <1>9, <1>10, <1>11

\* What the arrival changes of the streams: it goes to the stream of its
\* connection, which is begun if it is the first segment seen.
LEMMA ArrivalStream ==
  ASSUME StreamsInv, NEW o \in BOOLEAN, Arrive(o)
  PROVE  LET segment == Head(underWay[o])
             c == segment.conn
             before == IF conns[c].seen THEN m_streams[IdOf(c)] ELSE NewStream(conns[c].device)
             after == Handled(before, o, segment)
         IN
         /\ m_streams' = With(m_streams, IdIn(conns', c), after)
         /\ before \in Stream /\ before.dir[o] = DirOf(c, o)
         /\ m_serviceNames' = IF after.messages = before.messages THEN m_serviceNames
                              ELSE Learnt(conns[c].device, after.messages[Len(after.messages)])
         /\ m_version' = m_version
         /\ m_streamIndex' \in [Ports \X Ports -> 0 .. MaxConnections]
         /\ IndexCounts'
         /\ IdIn(conns', c) \in StreamIds
         /\ conns[c].seen => IdIn(conns', c) = IdOf(c)
         /\ \A k \in Seen : k # c => IdIn(conns', k) = IdOf(k) /\ IdIn(conns', k) # IdIn(conns', c)
         /\ Seen' = Seen \cup {c}
  <1>. DEFINE segment == Head(underWay[o])
              c == segment.conn
              ports == PortsIn(conns, c)
              before == IF conns[c].seen THEN m_streams[IdOf(c)] ELSE NewStream(conns[c].device)
              after == Handled(before, o, segment)
              index == m_streamIndex[ports] + (IF conns[c].seen THEN 0 ELSE 1)
  <1>1. underWay[o] # <<>> /\ TypeOK
    BY DEF Arrive, StreamsInv
  <1>2. /\ segment \in Segment /\ c \in DOMAIN conns /\ conns[c] \in Connection
        /\ PortsOf(o, segment) = ports /\ ports \in Ports \X Ports
        /\ ports = <<conns[c].host, conns[c].device>> /\ IsLast(conns, c)
        /\ IsSyn(segment) => o = TRUE /\ ~conns[c].seen
        /\ conns[c].phase = "syn" => IsSyn(segment)
    BY <1>1, ArrivalIsNext
  <1>3. /\ conns' \in Seq(Connection) /\ DOMAIN conns' = DOMAIN conns
        /\ \A k \in DOMAIN conns : k # c => conns'[k] = conns[k]
        /\ conns'[c].host = conns[c].host /\ conns'[c].device = conns[c].device
        /\ conns'[c].seen = TRUE
    BY ArrivalChanges
  <1>4. /\ m_streamIndex' = [m_streamIndex EXCEPT ![PortsOf(o, segment)] =
               IF Opens(o, segment, PortsOf(o, segment)) THEN m_streamIndex[PortsOf(o, segment)] + 1
               ELSE m_streamIndex[PortsOf(o, segment)]]
        /\ m_version' = m_version
    BY DEF Arrive, ProcessTCP
  <1>. HIDE DEF segment
  <1>5. /\ conns \in Seq(Connection) /\ Len(conns) \in Nat /\ DOMAIN conns = 1 .. Len(conns)
        /\ Len(conns) <= MaxConnections /\ c \in 1 .. Len(conns)
    BY <1>1, <1>2, StateTypes DEF TypeOK
  <1>6. \A p \in Ports \X Ports : m_streamIndex[p] = Cardinality(SeenOn(conns, p))
    <2>1. \A p : {k \in DOMAIN conns : conns[k].seen /\ <<conns[k].host, conns[k].device>> = p}
                 = SeenOn(conns, p)
      BY DEF SeenOn, PortsIn
    <2>. QED
      BY <2>1 DEF StreamsInv, IndexCounts
  <1>7. Opens(o, segment, ports) <=> ~conns[c].seen
    <2>1. CASE conns[c].seen
      <3>1. c \in SeenOn(conns, ports)
        BY <1>2, <2>1 DEF SeenOn
      <3>2. m_streamIndex[ports] # 0
        BY <1>2, <1>5, <1>6, <3>1, SeenSets, FS_EmptySet
      <3>. QED
        BY <1>2, <2>1, <3>2 DEF Opens, IsSyn
    <2>2. CASE ~conns[c].seen /\ IsSyn(segment)
      BY <1>2, <2>2 DEF Opens, IsSyn
    <2>3. CASE ~conns[c].seen /\ ~IsSyn(segment)
      <3>1. c = 1
        BY <1>2, <2>3 DEF StreamsInv, SynsAreFirst
      <3>2. \A k \in DOMAIN conns : k = c \/ k > c
        BY <1>5, <3>1
      <3>3. SeenOn(conns, ports) = {}
        BY <1>2, <2>3, <3>2 DEF SeenOn, IsLast
      <3>4. m_streamIndex[ports] = 0
        BY <1>2, <1>6, <3>3, FS_EmptySet
      <3>. QED
        BY <2>3, <3>4 DEF Opens
    <2>. QED
      BY <2>1, <2>2, <2>3
  <1>8. Sees(conns, conns', c)
    BY <1>2, <1>3 DEF Sees, PortsIn
  <1>9. conns[c].seen \in BOOLEAN
    BY <1>2, ConnectionFields
  <1>10. /\ IndexIn(conns', c) = Cardinality(SeenOn(conns, ports)) + (IF conns[c].seen THEN 0 ELSE 1)
         /\ \A p : Cardinality(SeenOn(conns', p)) =
               IF p = ports THEN IndexIn(conns', c) ELSE Cardinality(SeenOn(conns, p))
         /\ \A k \in DOMAIN conns : conns[k].seen /\ k # c => IdIn(conns', k) = IdIn(conns, k)
         /\ conns[c].seen => IdIn(conns', c) = IdIn(conns, c)
    BY <1>2, <1>3, <1>5, <1>8, <1>9, SeeingCounts
  <1>11. IndexIn(conns', c) = index
    BY <1>2, <1>6, <1>10
  <1>12. PortsIn(conns', c) = ports /\ IdIn(conns', c) = <<ports, index>>
    BY <1>2, <1>3, <1>11 DEF PortsIn, IdIn
  <1>13. index \in 1 .. MaxConnections
    <2>1. IndexIn(conns', c) \in 1 .. c
      BY <1>2, <1>3, SeenSets
    <2>. HIDE DEF index, c
    <2>. QED
      BY <1>5, <1>11, <2>1, StreamsAssumption
  <1>14. m_streamIndex' = [m_streamIndex EXCEPT ![ports] = index]
    <2>1. m_streamIndex[ports] \in Nat
      BY <1>1, <1>2 DEF TypeOK
    <2>2. m_streamIndex' = [m_streamIndex EXCEPT ![ports] =
               IF Opens(o, segment, ports) THEN m_streamIndex[ports] + 1 ELSE m_streamIndex[ports]]
      BY <1>2, <1>4
    <2>3. (IF Opens(o, segment, ports) THEN m_streamIndex[ports] + 1 ELSE m_streamIndex[ports])
          = index
      BY <1>7, <2>1
    <2>. HIDE DEF ports, index
    <2>. QED
      BY <2>2, <2>3
  <1>15. /\ m_streamIndex' \in [Ports \X Ports -> 0 .. MaxConnections]
         /\ \A p \in Ports \X Ports :
               m_streamIndex'[p] = IF p = ports THEN index ELSE m_streamIndex[p]
    <2>1. m_streamIndex \in [Ports \X Ports -> 0 .. MaxConnections]
      BY <1>1 DEF TypeOK
    <2>2. index \in 0 .. MaxConnections
      BY <1>13, StreamsAssumption
    <2>. HIDE DEF index, ports
    <2>. QED
      BY <1>14, <2>1, <2>2
  <1>16. IndexCounts'
    <2>1. \A p : {k \in DOMAIN conns : conns[k].seen /\ <<conns[k].host, conns[k].device>> = p}'
                 = SeenOn(conns', p)
      BY DEF SeenOn, PortsIn
    <2>2. \A p \in Ports \X Ports : m_streamIndex'[p] = Cardinality(SeenOn(conns', p))
      BY <1>6, <1>10, <1>11, <1>15
    <2>. QED
      BY <2>1, <2>2 DEF IndexCounts
  <1>17. IdIn(conns', c) = <<ports, index>>
    BY <1>12
  <1>18. IdIn(conns', c) \in StreamIds
    BY <1>2, <1>13, <1>17 DEF StreamIds
  <1>19. conns[c].seen => IdIn(conns', c) = IdOf(c)
    BY <1>10, IdOfIs
  <1>20. ASSUME NEW k \in Seen, k # c
         PROVE  IdIn(conns', k) = IdOf(k) /\ IdIn(conns', k) # IdIn(conns', c)
    <2>1. k \in DOMAIN conns /\ conns[k].seen
      BY <1>20 DEF Seen
    <2>2. IdIn(conns', k) = IdIn(conns, k)
      BY <1>10, <1>20, <2>1
    <2>3. IdIn(conns', k) # IdIn(conns', c)
      BY <1>2, <1>3, <1>20, <2>1, IdsDiffer
    <2>. QED
      BY <2>2, <2>3, IdOfIs
  <1>21. Seen' = Seen \cup {c}
    BY <1>2, <1>3 DEF Seen
  <1>22. before \in Stream /\ before.dir[o] = DirOf(c, o)
    <2>1. CASE conns[c].seen
      <3>1. IdOf(c) \in DOMAIN m_streams
        BY <1>2, <2>1 DEF StreamsInv, StreamIsOneConnection, Seen
      <3>. QED
        BY <1>1, <2>1, <3>1 DEF TypeOK, DirOf
    <2>2. CASE ~conns[c].seen
      <3>. DEFINE device == conns[c].device
                  directions == [b \in BOOLEAN |-> Fresh]
      <3>1. NameFor(device) \in Names
        BY <1>1, <1>2, ConnectionFields DEF NameFor, Names, TypeOK
      <3>2. Fresh \in Direction
        BY NoMessageApart DEF Fresh, Direction
      <3>3. directions \in [BOOLEAN -> Direction] /\ directions[o] = Fresh
        BY <3>2
      <3>4. NewStream(device) = [service |-> NameFor(device), closed |-> FALSE,
                                 messages |-> <<>>, dir |-> directions]
        BY DEF NewStream, Fresh
      <3>. HIDE DEF directions
      <3>5. NewStream(device) \in Stream /\ NewStream(device).dir[o] = Fresh
        BY <3>1, <3>3, <3>4, EmptySeq DEF Stream
      <3>. QED
        BY <2>2, <3>5 DEF DirOf
    <2>. QED
      BY <2>1, <2>2
  <1>23. /\ m_streams' = With(m_streams, IdIn(conns', c), after)
         /\ m_serviceNames' = IF after.messages = before.messages THEN m_serviceNames
                              ELSE Learnt(conns[c].device, after.messages[Len(after.messages)])
    <2>. DEFINE opens == Opens(o, segment, PortsOf(o, segment))
                at == IF opens THEN m_streamIndex[PortsOf(o, segment)] + 1
                      ELSE m_streamIndex[PortsOf(o, segment)]
                stream == IF opens THEN NewStream(PortsOf(o, segment)[2])
                          ELSE m_streams[<<PortsOf(o, segment), at>>]
                handled == Handled(stream, o, segment)
    <2>1. /\ m_streams' = With(m_streams, <<PortsOf(o, segment), at>>, handled)
          /\ m_serviceNames' = IF handled.messages = stream.messages THEN m_serviceNames
                               ELSE Learnt(PortsOf(o, segment)[2],
                                           handled.messages[Len(handled.messages)])
      BY Zenon DEF Arrive, ProcessTCP, segment
    <2>2. at = index
      <3>1. m_streamIndex[ports] \in Nat
        BY <1>1, <1>2 DEF TypeOK
      <3>. HIDE DEF ports
      <3>. QED
        BY <1>2, <1>7, <3>1
    <2>3. PortsOf(o, segment)[2] = conns[c].device
      BY <1>2
    <2>4. stream = before
      <3>1. CASE conns[c].seen
        <4>1. IdOf(c) = <<ports, index>>
          BY <1>17, <1>19, <3>1
        <4>. HIDE DEF ports, index, at
        <4>. QED
          BY <1>2, <1>7, <2>2, <3>1, <4>1
      <3>2. CASE ~conns[c].seen
        <4>. HIDE DEF ports, index, at
        <4>. QED
          BY <1>2, <1>7, <2>3, <3>2
      <3>. QED
        BY <3>1, <3>2
    <2>5. <<PortsOf(o, segment), at>> = IdIn(conns', c)
      BY <1>2, <1>17, <2>2
    <2>. HIDE DEF stream, before, at
    <2>. QED
      BY <2>1, <2>3, <2>4, <2>5
  <1>. QED
    BY <1>4, <1>15, <1>16, <1>18, <1>19, <1>20, <1>21, <1>22, <1>23 DEF segment

\* sendBytes or receiveBytes of one segment, by what it completes.
LEMMA HandledStream ==
  ASSUME NEW stream \in Stream, NEW o \in BOOLEAN, NEW segment \in Segment,
         NEW dir \in Direction, NEW shown \in BOOLEAN,
         shown => segment.piece.message \in Messages,
         Consumed(stream.dir[o], segment.piece).dir = dir,
         Consumed(stream.dir[o], segment.piece).messages =
             IF shown THEN <<segment.piece.message>> ELSE <<>>
  PROVE  LET after == Handled(stream, o, segment)
         IN
         /\ after \in Stream
         /\ after.service = stream.service /\ after.closed = (stream.closed \/ segment.close)
         /\ after.dir[o] = dir /\ \A b \in BOOLEAN : b # o => after.dir[b] = stream.dir[b]
         /\ after.messages = IF shown
                             THEN Append(stream.messages,
                                         [outbound |-> o, message |-> segment.piece.message])
                             ELSE stream.messages
  <1>. DEFINE Note == [outbound : BOOLEAN, message : Messages]
              note == [outbound |-> o, message |-> segment.piece.message]
              result == Consumed(stream.dir[o], segment.piece)
              added == [i \in DOMAIN result.messages |->
                           [outbound |-> o, message |-> result.messages[i]]]
              messages == IF shown THEN Append(stream.messages, note) ELSE stream.messages
              closed == stream.closed \/ segment.close
              dirs == [stream.dir EXCEPT ![o] = dir]
  <1>1. /\ stream.messages \in Seq(Note) /\ stream.dir \in [BOOLEAN -> Direction]
        /\ stream.closed \in BOOLEAN /\ segment.close \in BOOLEAN
    BY SegmentFields DEF Stream
  <1>2. Handled(stream, o, segment) =
            [stream EXCEPT !.dir = [stream.dir EXCEPT ![o] = result.dir],
                           !.messages = stream.messages \o added, !.closed = closed]
    BY DEF Handled
  <1>3. stream.messages \o added = messages /\ messages \in Seq(Note)
    <2>1. CASE shown
      <3>1. note \in Note
        BY <2>1
      <3>2. added = <<note>>
        BY <2>1
      <3>. HIDE DEF Note, note, added
      <3>3. stream.messages \o <<note>> = Append(stream.messages, note)
            /\ Append(stream.messages, note) \in Seq(Note)
        BY <1>1, <3>1, AppendIsConcat, AppendProperties
      <3>. QED
        BY <2>1, <3>2, <3>3
    <2>2. CASE ~shown
      <3>1. added = <<>>
        BY <2>2
      <3>. HIDE DEF Note, added
      <3>2. stream.messages \o <<>> = stream.messages
        BY <1>1, ConcatEmptySeq
      <3>. QED
        BY <1>1, <2>2, <3>1, <3>2
    <2>. QED
      BY <2>1, <2>2
  <1>4. closed \in BOOLEAN
    BY <1>1, Zenon
  <1>5. dirs \in [BOOLEAN -> Direction] /\ dirs[o] = dir /\ \A b \in BOOLEAN : b # o => dirs[b] = stream.dir[b]
    BY <1>1
  <1>6. Handled(stream, o, segment) = [stream EXCEPT !.dir = dirs, !.messages = messages,
                                                     !.closed = closed]
    BY <1>2, <1>3
  <1>. HIDE DEF dirs, closed, messages
  <1>7. /\ Handled(stream, o, segment) \in Stream
        /\ Handled(stream, o, segment).service = stream.service
        /\ Handled(stream, o, segment).closed = closed
        /\ Handled(stream, o, segment).dir = dirs
        /\ Handled(stream, o, segment).messages = messages
    BY <1>3, <1>4, <1>5, <1>6 DEF Stream
  <1>. QED
    BY <1>5, <1>7 DEF closed, messages

\* The stream an arrival finds, or begins, is that of its connection so far.
LEMMA StreamSoFar ==
  ASSUME StreamsInv, NEW c \in DOMAIN conns,
         NEW before, before = IF conns[c].seen THEN m_streams[IdOf(c)]
                              ELSE NewStream(conns[c].device)
  PROVE  /\ before.closed = conns[c].ended /\ before.messages = conns[c].got
         /\ \A b \in BOOLEAN : before.dir[b] = DirOf(c, b)
  <1>1. conns[c] \in Connection
    BY StateTypes DEF StreamsInv
  <1>2. CASE conns[c].seen
    <2>1. c \in Seen
      BY <1>2 DEF Seen
    <2>. QED
      BY <1>2, <2>1 DEF StreamsInv, StreamIsOneConnection, MessagesAreConnections, DirOf
  <1>3. CASE ~conns[c].seen
    <2>1. ~conns[c].ended /\ conns[c].got = <<>>
      BY <1>3 DEF StreamsInv, PortsInTurn
    <2>2. conns[c].ended = FALSE
      BY <1>1, <2>1, ConnectionFields
    <2>. QED
      BY <1>3, <2>1, <2>2 DEF NewStream, DirOf, Fresh
  <1>. QED
    BY <1>2, <1>3

LEMMA ArriveStreams ==
  ASSUME StreamsInv, NEW o \in BOOLEAN, Arrive(o)
  PROVE  StreamsInv'
  <1>1. PICK segment, c, piece, before, after, shown, id :
            /\ segment = Head(underWay[o]) /\ c = segment.conn /\ piece = segment.piece
            /\ before = (IF conns[c].seen THEN m_streams[IdOf(c)] ELSE NewStream(conns[c].device))
            /\ after = Handled(before, o, segment)
            /\ shown = Shows(c, o, piece)
            /\ id = IdIn(conns', c)
    OBVIOUS
  <1>2. underWay[o] # <<>> /\ TypeOK
    BY DEF Arrive, StreamsInv
  <1>3. /\ segment \in Segment /\ c \in DOMAIN conns /\ conns[c] \in Connection
        /\ 1 \in DOMAIN underWay[o] /\ underWay[o][1] = segment
        /\ ~Over(c)
        /\ IsSyn(segment) => o = TRUE /\ ~segment.close /\ piece = Bare /\ ~conns[c].seen
        /\ conns[c].phase = "syn" => IsSyn(segment)
    BY <1>1, <1>2, ArrivalIsNext
  <1>4. /\ conns' \in Seq(Connection) /\ DOMAIN conns' = DOMAIN conns /\ Len(conns') = Len(conns)
        /\ \A k \in DOMAIN conns : k # c => conns'[k] = conns[k]
        /\ conns'[c].host = conns[c].host /\ conns'[c].device = conns[c].device
        /\ conns'[c].service = conns[c].service /\ conns'[c].half = conns[c].half
        /\ conns'[c].tls = conns[c].tls /\ conns'[c].clear = conns[c].clear
        /\ conns'[c].phase = Phase(conns[c], segment)
        /\ conns'[c].seen = TRUE
        /\ conns'[c].ended = (conns[c].ended \/ segment.close)
        /\ conns'[c].named = IF IsSyn(segment) THEN conns[c].device \notin unseen
                             ELSE conns[c].named
    BY <1>1, ArrivalChanges
  <1>5. /\ conns'[c].got = IF ~shown THEN conns[c].got
                           ELSE Append(conns[c].got, [outbound |-> o, message |-> piece.message])
        /\ shown => piece.message \in Messages
        /\ Consumed(DirOf(c, o), piece).dir \in Direction
        /\ Consumed(DirOf(c, o), piece).messages = IF shown THEN <<piece.message>> ELSE <<>>
    BY <1>1, ArrivalChanges
  <1>6. \E talk \in Talk :
            /\ Reflects(Consumed(DirOf(c, o), piece).dir, conns[c].clear[o], talk)
            /\ Leads(Tail(underWay[o]), c, talk, Stands(c, o))
    BY <1>1, ArrivalChanges
  <1>7. /\ underWay' \in [BOOLEAN -> Seq(Segment)]
        /\ underWay'[o] = Tail(underWay[o])
        /\ \A b \in BOOLEAN : b # o =>
              \/ underWay'[b] = underWay[b]
              \/ /\ b = FALSE /\ o = TRUE /\ IsSyn(segment)
                 /\ \E reply : IsReply(reply, c) /\ underWay'[b] = Append(underWay[b], reply)
    BY <1>1, ArrivalQueues
  <1>8. /\ \A i \in DOMAIN underWay'[o] :
              i + 1 \in DOMAIN underWay[o] /\ i + 1 # 1 /\ underWay'[o][i] = underWay[o][i + 1]
        /\ \A b \in BOOLEAN : b # o => \A i \in DOMAIN underWay'[b] :
              \/ i \in DOMAIN underWay[b] /\ underWay'[b][i] = underWay[b][i]
              \/ b = FALSE /\ o = TRUE /\ IsSyn(segment) /\ IsReply(underWay'[b][i], c)
        /\ \A b \in BOOLEAN : \A i \in DOMAIN underWay[b] :
              \/ b = o /\ underWay[b][i] = segment
              \/ \E j \in DOMAIN underWay'[b] : underWay'[b][j] = underWay[b][i]
    <2>1. /\ \A i \in DOMAIN underWay'[o] :
                i + 1 \in DOMAIN underWay[o] /\ i + 1 # 1 /\ underWay'[o][i] = underWay[o][i + 1]
          /\ \A b \in BOOLEAN : b # o => \A i \in DOMAIN underWay'[b] :
                \/ i \in DOMAIN underWay[b] /\ underWay'[b][i] = underWay[b][i]
                \/ /\ b = FALSE /\ o = TRUE /\ IsSyn(Head(underWay[o]))
                   /\ IsReply(underWay'[b][i], Head(underWay[o]).conn)
          /\ \A b \in BOOLEAN : \A i \in DOMAIN underWay[b] :
                \/ b = o /\ underWay[b][i] = Head(underWay[o])
                \/ \E j \in DOMAIN underWay'[b] : underWay'[b][j] = underWay[b][i]
      BY ArrivalQueues, Zenon
    <2>. QED
      BY <1>1, <2>1
  <1>9. /\ m_streams' = With(m_streams, id, after)
        /\ before \in Stream /\ before.dir[o] = DirOf(c, o)
        /\ m_serviceNames' = IF after.messages = before.messages THEN m_serviceNames
                             ELSE Learnt(conns[c].device, after.messages[Len(after.messages)])
        /\ m_version' = m_version
        /\ m_streamIndex' \in [Ports \X Ports -> 0 .. MaxConnections]
        /\ IndexCounts'
        /\ id \in StreamIds
    BY <1>1, ArrivalStream
  <1>10. /\ conns[c].seen => id = IdOf(c)
         /\ \A k \in Seen : k # c => IdIn(conns', k) = IdOf(k) /\ IdIn(conns', k) # id
         /\ Seen' = Seen \cup {c}
    BY <1>1, ArrivalStream
  <1>11. IdOf(c)' = id /\ \A k \in Seen : k # c => IdOf(k)' = IdOf(k) /\ IdOf(k)' # id
    BY <1>1, <1>10, IdOfIs
  <1>12. /\ before.closed = conns[c].ended /\ before.messages = conns[c].got
         /\ \A b \in BOOLEAN : before.dir[b] = DirOf(c, b)
    BY ZenonT(60), <1>1, <1>3, StreamSoFar
  <1>13. shown \in BOOLEAN
    BY <1>1 DEF Shows
  <1>14. /\ after \in Stream
         /\ after.service = before.service /\ after.closed = (before.closed \/ segment.close)
         /\ after.dir[o] = Consumed(DirOf(c, o), piece).dir
         /\ \A b \in BOOLEAN : b # o => after.dir[b] = before.dir[b]
         /\ after.messages = IF shown
                             THEN Append(before.messages, [outbound |-> o, message |-> piece.message])
                             ELSE before.messages
    <2>. DEFINE dir == Consumed(DirOf(c, o), piece).dir
    <2>1. /\ Consumed(before.dir[o], segment.piece).dir = dir
          /\ Consumed(before.dir[o], segment.piece).messages =
                 IF shown THEN <<segment.piece.message>> ELSE <<>>
      BY <1>1, <1>5, <1>9
    <2>2. dir \in Direction /\ (shown => segment.piece.message \in Messages)
      BY <1>1, <1>5
    <2>. HIDE DEF dir
    <2>3. /\ Handled(before, o, segment) \in Stream
          /\ Handled(before, o, segment).service = before.service
          /\ Handled(before, o, segment).closed = (before.closed \/ segment.close)
          /\ Handled(before, o, segment).dir[o] = dir
          /\ \A b \in BOOLEAN : b # o => Handled(before, o, segment).dir[b] = before.dir[b]
          /\ Handled(before, o, segment).messages = IF shown
                  THEN Append(before.messages, [outbound |-> o, message |-> segment.piece.message])
                  ELSE before.messages
      BY <1>3, <1>9, <1>13, <2>1, <2>2, HandledStream
    <2>. QED
      BY <1>1, <2>3 DEF dir
  <1>15. conns'[c].phase # "syn"
    BY <1>3, <1>4 DEF Phase, IsSyn
  <1>16. /\ \A k \in DOMAIN conns : conns'[k].host = conns[k].host
                                    /\ conns'[k].device = conns[k].device
                                    /\ conns'[k].service = conns[k].service
                                    /\ conns'[k].half = conns[k].half
                                    /\ conns'[k].clear = conns[k].clear
         /\ \A k \in DOMAIN conns, b \in BOOLEAN : Stands(k, b)' = Stands(k, b)
    BY <1>4 DEF Stands
  <1>17. /\ UNCHANGED <<segments, late>>
         /\ granted' = IF Completes(piece) /\ Answers(c, o, piece.message)
                       THEN [granted EXCEPT ![piece.message.port] = piece.message.service]
                       ELSE granted
         /\ unseen' = IF ~(Completes(piece) /\ Answers(c, o, piece.message)) THEN unseen
                      ELSE IF shown THEN unseen \ {piece.message.port}
                      ELSE unseen \cup {piece.message.port}
    BY <1>1, Zenon DEF Arrive
  <1>18. /\ DOMAIN m_streams' = DOMAIN m_streams \cup {id} /\ m_streams'[id] = after
         /\ \A k \in DOMAIN m_streams : k # id => m_streams'[k] = m_streams[k]
    BY <1>9 DEF With
  <1>19. \A k \in Seen : IdOf(k) \in DOMAIN m_streams
    BY DEF StreamsInv, StreamIsOneConnection
  <1>20. \A k \in Seen : k # c => m_streams'[IdOf(k)'] = m_streams[IdOf(k)]
    BY <1>11, <1>18, <1>19
  <1>21. m_streams'[IdOf(c)'] = after
    BY <1>11, <1>18
  <1>22. \A b \in BOOLEAN : \A i \in DOMAIN underWay'[b] :
             \/ \E j \in DOMAIN underWay[b] : underWay'[b][i] = underWay[b][j] /\ (b = o => j # 1)
             \/ b = FALSE /\ o = TRUE /\ IsSyn(segment) /\ IsReply(underWay'[b][i], c)
    BY <1>8
  <1>23. \A k \in DOMAIN conns : Over(k) => Over(k)'
    <2>. SUFFICES ASSUME NEW k \in DOMAIN conns, Over(k) PROVE Over(k)'
      OBVIOUS
    <2>1. k # c
      BY <1>3
    <2>2. \A b \in BOOLEAN : ~conns'[k].open[b]
      BY <1>4, <2>1 DEF Over
    <2>3. ASSUME NEW b \in BOOLEAN, NEW i \in DOMAIN underWay'[b]
          PROVE  underWay'[b][i].conn # k
      <3>1. CASE \E j \in DOMAIN underWay[b] : underWay'[b][i] = underWay[b][j]
        BY <3>1 DEF Over
      <3>2. CASE IsReply(underWay'[b][i], c)
        BY <2>1, <3>2 DEF IsReply
      <3>. QED
        BY <1>22, <3>1, <3>2
    <2>. QED
      BY <2>2, <2>3 DEF Over
  <1>24. SegmentsBelong'
    <2>. SUFFICES ASSUME NEW b \in BOOLEAN, NEW i \in DOMAIN underWay'[b]
                  PROVE  /\ underWay'[b][i].conn \in DOMAIN conns'
                         /\ PortsOf(b, underWay'[b][i]) =
                               <<conns'[underWay'[b][i].conn].host, conns'[underWay'[b][i].conn].device>>
      BY DEF SegmentsBelong, PortsOf
    <2>1. CASE \E j \in DOMAIN underWay[b] : underWay'[b][i] = underWay[b][j]
      BY <1>4, <1>16, <2>1 DEF StreamsInv, SegmentsBelong
    <2>2. CASE b = FALSE /\ IsReply(underWay'[b][i], c)
      BY <1>3, <1>4, <2>2 DEF IsReply, PortsIn
    <2>. QED
      BY <1>22, <2>1, <2>2
  <1>25. SynsAreFirst'
    <2>1. ASSUME NEW b \in BOOLEAN, NEW i \in DOMAIN underWay'[b]
          PROVE  LET k == underWay'[b][i].conn IN
                 /\ IsSyn(underWay'[b][i]) => b /\ conns'[k].phase = "syn" /\ ~underWay'[b][i].close
                                             /\ underWay'[b][i].piece = Bare
                 /\ conns'[k].phase = "syn" => IsSyn(underWay'[b][i])
                 /\ underWay'[b][i].syn /\ underWay'[b][i].ack => conns'[k].seen
      <3>1. CASE \E j \in DOMAIN underWay[b] : underWay'[b][i] = underWay[b][j] /\ (b = o => j # 1)
        <4>1. PICK j \in DOMAIN underWay[b] : underWay'[b][i] = underWay[b][j] /\ (b = o => j # 1)
          BY <3>1
        <4>2. underWay[b][j].conn \in DOMAIN conns
          BY DEF StreamsInv, SegmentsBelong
        <4>3. /\ IsSyn(underWay[b][j]) => b /\ conns[underWay[b][j].conn].phase = "syn"
                                         /\ ~underWay[b][j].close /\ underWay[b][j].piece = Bare
              /\ conns[underWay[b][j].conn].phase = "syn" => IsSyn(underWay[b][j])
              /\ underWay[b][j].syn /\ underWay[b][j].ack => conns[underWay[b][j].conn].seen
          BY DEF StreamsInv, SynsAreFirst
        <4>4. CASE underWay[b][j].conn # c
          BY <1>4, <4>1, <4>2, <4>3, <4>4
        <4>5. CASE underWay[b][j].conn = c
          <5>1. ~IsSyn(underWay[b][j])
            <6>. SUFFICES ASSUME IsSyn(underWay[b][j]) PROVE FALSE
              OBVIOUS
            <6>1. b = TRUE /\ o = TRUE /\ IsSyn(segment)
              BY <1>3, <4>3, <4>5
            <6>2. \A d, e \in DOMAIN underWay[TRUE] :
                      IsSyn(underWay[TRUE][d]) /\ underWay[TRUE][d].conn = underWay[TRUE][e].conn
                          => d = e
              BY DEF StreamsInv, SynsAreFirst
            <6>3. j \in DOMAIN underWay[TRUE] /\ 1 \in DOMAIN underWay[TRUE]
                  /\ underWay[TRUE][1] = segment /\ underWay[TRUE][j].conn = c
              BY <1>3, <4>5, <6>1
            <6>4. j = 1
              BY <1>1, <6>1, <6>2, <6>3
            <6>. QED
              BY <4>1, <6>1, <6>4
          <5>. QED
            BY <1>4, <1>15, <4>1, <4>5, <5>1
        <4>. QED
          BY <4>4, <4>5
      <3>2. CASE IsReply(underWay'[b][i], c)
        BY <1>4, <1>15, <3>2 DEF IsReply, IsSyn
      <3>. QED
        BY <1>22, <3>1, <3>2
    <2>2. ASSUME NEW i \in DOMAIN underWay'[TRUE], NEW j \in DOMAIN underWay'[TRUE],
                 IsSyn(underWay'[TRUE][i]), underWay'[TRUE][i].conn = underWay'[TRUE][j].conn
          PROVE  i = j
      <3>1. \A a, b \in DOMAIN underWay[TRUE] :
                IsSyn(underWay[TRUE][a]) /\ underWay[TRUE][a].conn = underWay[TRUE][b].conn => a = b
        BY DEF StreamsInv, SynsAreFirst
      <3>2. CASE o = TRUE
        <4>1. \A a \in DOMAIN underWay'[TRUE] :
                  a + 1 \in DOMAIN underWay[TRUE] /\ underWay'[TRUE][a] = underWay[TRUE][a + 1]
          BY <1>8, <3>2
        <4>2. i + 1 = j + 1
          BY <2>2, <3>1, <4>1
        <4>3. underWay'[TRUE] \in Seq(Segment)
          BY <1>7
        <4>4. i \in Nat /\ j \in Nat
          <5>1. DOMAIN underWay'[TRUE] = 1 .. Len(underWay'[TRUE])
            BY <4>3, LenProperties
          <5>. QED
            BY <5>1
        <4>. QED
          BY <4>2, <4>4
      <3>3. CASE o = FALSE
        <4>1. \A a \in DOMAIN underWay'[TRUE] :
                  a \in DOMAIN underWay[TRUE] /\ underWay'[TRUE][a] = underWay[TRUE][a]
          BY <1>8, <3>3
        <4>. QED
          BY <2>2, <3>1, <4>1
      <3>. QED
        BY <3>2, <3>3
    <2>3. \A k \in DOMAIN conns' :
              /\ conns'[k].phase = "syn" => ~conns'[k].seen
              /\ ~conns'[k].seen /\ conns'[k].phase # "syn" => k = 1
      BY <1>4, <1>15 DEF StreamsInv, SynsAreFirst
    <2>. QED
      BY <2>1, <2>2, <2>3 DEF SynsAreFirst, IsSyn
  <1>26. PortsInTurn'
    <2>1. ASSUME NEW k \in DOMAIN conns', ~conns'[k].seen
          PROVE  /\ ~conns'[k].ended /\ conns'[k].got = <<>> /\ ~conns'[k].named
                 /\ \A b \in BOOLEAN : \/ conns'[k].open[b]
                                       \/ \E i \in DOMAIN underWay'[b] : underWay'[b][i].conn = k
      <3>1. k # c /\ k \in DOMAIN conns /\ conns'[k] = conns[k] /\ segment.conn # k
        BY <1>1, <1>4, <2>1
      <3>2. /\ ~conns[k].ended /\ conns[k].got = <<>> /\ ~conns[k].named
            /\ \A b \in BOOLEAN : \/ conns[k].open[b]
                                  \/ \E i \in DOMAIN underWay[b] : underWay[b][i].conn = k
        BY <2>1, <3>1 DEF StreamsInv, PortsInTurn
      <3>3. ASSUME NEW b \in BOOLEAN, NEW i \in DOMAIN underWay[b], underWay[b][i].conn = k
            PROVE  \E j \in DOMAIN underWay'[b] : underWay'[b][j].conn = k
        BY <1>8, <3>1, <3>3
      <3>. QED
        BY <3>1, <3>2, <3>3
    <2>2. \A k, j \in DOMAIN conns' : k < j /\ conns'[k].host = conns'[j].host => Over(k)'
      BY <1>4, <1>16, <1>23 DEF StreamsInv, PortsInTurn
    <2>. QED
      BY <2>1, <2>2 DEF PortsInTurn
  <1>27. StreamIsOneConnection'
    <2>1. DOMAIN m_streams' = {IdOf(k)' : k \in Seen'}
      <3>1. DOMAIN m_streams = {IdOf(k) : k \in Seen}
        BY DEF StreamsInv, StreamIsOneConnection
      <3>2. ASSUME NEW k \in Seen
            PROVE  IdOf(k) \in {IdOf(j)' : j \in Seen'}
        <4>1. CASE k = c
          <5>1. conns[c].seen
            BY <4>1 DEF Seen
          <5>. QED
            BY <1>10, <1>11, <4>1, <5>1
        <4>2. CASE k # c
          BY <1>10, <1>11, <4>2
        <4>. QED
          BY <4>1, <4>2
      <3>3. id \in {IdOf(j)' : j \in Seen'}
        BY <1>10, <1>11
      <3>4. ASSUME NEW k \in Seen'
            PROVE  IdOf(k)' \in DOMAIN m_streams \cup {id}
        BY <1>10, <1>11, <1>19, <3>4
      <3>. QED
        BY <1>18, <3>1, <3>2, <3>3, <3>4
    <2>2. ASSUME NEW k \in Seen'
          PROVE  m_streams'[IdOf(k)'].closed = conns'[k].ended
      <3>1. CASE k = c
        BY <1>4, <1>12, <1>14, <1>21, <3>1
      <3>2. CASE k # c
        <4>1. k \in Seen /\ k \in DOMAIN conns
          BY <1>10, <3>2 DEF Seen
        <4>. QED
          BY <1>4, <1>20, <3>2, <4>1 DEF StreamsInv, StreamIsOneConnection
      <3>. QED
        BY <3>1, <3>2
    <2>. QED
      BY <2>1, <2>2 DEF StreamIsOneConnection
  <1>28. MessagesAreConnections'
    <2>. SUFFICES ASSUME NEW k \in Seen' PROVE m_streams'[IdOf(k)'].messages = conns'[k].got
      BY DEF MessagesAreConnections
    <2>1. CASE k = c
      BY <1>5, <1>12, <1>14, <1>21, <2>1
    <2>2. CASE k # c
      <3>1. k \in Seen /\ k \in DOMAIN conns
        BY <1>10, <2>2 DEF Seen
      <3>. QED
        BY <1>4, <1>20, <2>2, <3>1 DEF StreamsInv, MessagesAreConnections
    <2>. QED
      BY <2>1, <2>2
  <1>29. StreamsFollow'
    <2>. SUFFICES ASSUME NEW k \in DOMAIN conns, NEW b \in BOOLEAN
                  PROVE  \E talk \in Talk :
                            /\ Reflects(DirOf(k, b)', conns[k].clear[b], talk)
                            /\ Leads(underWay'[b], k, talk, Stands(k, b))
      BY <1>4, <1>16 DEF StreamsFollow
    <2>1. underWay[b] \in Seq(Segment) /\ Stands(k, b) \in Talk
      BY <1>2, StandsType DEF TypeOK
    <2>2. k # c => DirOf(k, b)' = DirOf(k, b)
      BY <1>4, <1>20 DEF DirOf, Seen
    <2>3. DirOf(c, b)' = after.dir[b]
      BY <1>4, <1>21 DEF DirOf
    <2>4. PICK talk \in Talk : /\ Reflects(DirOf(k, b), conns[k].clear[b], talk)
                               /\ Leads(underWay[b], k, talk, Stands(k, b))
      BY DEF StreamsInv, StreamsFollow
    <2>5. CASE b = o /\ k = c
      BY <1>6, <1>7, <1>14, <2>3, <2>5
    <2>6. CASE b = o /\ k # c
      <3>1. Leads(Tail(underWay[b]), k, talk, Stands(k, b))
        <4>1. underWay[b] # <<>> /\ Head(underWay[b]).conn # k
          BY <1>1, <1>2, <2>6
        <4>. QED
          BY <2>1, <2>4, <4>1, LeadsFrom
      <3>. QED
        BY <1>7, <2>2, <2>4, <2>6, <3>1
    <2>7. CASE b # o
      <3>1. DirOf(k, b)' = DirOf(k, b)
        BY <1>12, <1>14, <2>2, <2>3, <2>7
      <3>2. CASE underWay'[b] = underWay[b]
        BY <2>4, <3>1, <3>2
      <3>3. CASE underWay'[b] # underWay[b]
        <4>1. PICK reply : IsReply(reply, c) /\ underWay'[b] = Append(underWay[b], reply)
          BY <1>7, <2>7, <3>3
        <4>2. Allowed(Stands(k, b), Bare) /\ After(Stands(k, b), Bare) = Stands(k, b)
          <5>1. Stands(k, b).tls \in BOOLEAN /\ Stands(k, b) = [half |-> Stands(k, b).half, tls |-> Stands(k, b).tls]
            BY <2>1 DEF Talk
          <5>2. Bare.kind = "none"
            BY NoMessageApart
          <5>. HIDE DEF Stands
          <5>. QED
            BY <5>1, <5>2 DEF Allowed, After
        <4>3. Leads(Append(underWay[b], reply), k, talk, Stands(k, b))
          BY <2>1, <2>4, <4>1, <4>2, LeadsOn DEF IsReply
        <4>. QED
          BY <2>4, <3>1, <4>1, <4>3
      <3>. QED
        BY <3>2, <3>3
    <2>. QED
      BY <2>5, <2>6, <2>7
  <1>30. GrantsAreExclusive'
    <2>. SUFFICES ASSUME NEW k \in DOMAIN conns, conns[k].device \in DevicePorts, ~Over(k)
                  PROVE  /\ \A i \in DOMAIN underWay'[FALSE] :
                               ~Gives(conns'[underWay'[FALSE][i].conn],
                                      underWay'[FALSE][i].piece.message, conns[k].device)
                         /\ \A j \in DOMAIN conns :
                               ~Gives(conns'[j], conns'[j].half[FALSE], conns[k].device)
      BY <1>4, <1>16, <1>23 DEF GrantsAreExclusive
    <2>1. /\ \A i \in DOMAIN underWay[FALSE] :
                ~Gives(conns[underWay[FALSE][i].conn], underWay[FALSE][i].piece.message,
                       conns[k].device)
          /\ \A j \in DOMAIN conns : ~Gives(conns[j], conns[j].half[FALSE], conns[k].device)
      BY DEF StreamsInv, GrantsAreExclusive
    <2>2. ASSUME NEW i \in DOMAIN underWay'[FALSE]
          PROVE  ~Gives(conns'[underWay'[FALSE][i].conn], underWay'[FALSE][i].piece.message,
                        conns[k].device)
      <3>1. CASE \E a \in DOMAIN underWay[FALSE] : underWay'[FALSE][i] = underWay[FALSE][a]
        <4>1. PICK a \in DOMAIN underWay[FALSE] : underWay'[FALSE][i] = underWay[FALSE][a]
          BY <3>1
        <4>. DEFINE j == underWay[FALSE][a].conn
        <4>2. j \in DOMAIN conns
          BY DEF StreamsInv, SegmentsBelong
        <4>3. conns'[j].device = conns[j].device
          BY <1>16, <4>2
        <4>4. ~Gives(conns[j], underWay[FALSE][a].piece.message, conns[k].device)
          BY <2>1
        <4>. QED
          BY <4>1, <4>3, <4>4 DEF Gives
      <3>2. CASE IsReply(underWay'[FALSE][i], c)
        BY <3>2, NoMessageApart DEF IsReply, Gives
      <3>. QED
        BY <1>22, <3>1, <3>2
    <2>3. \A j \in DOMAIN conns : ~Gives(conns'[j], conns'[j].half[FALSE], conns[k].device)
      BY <1>16, <2>1 DEF Gives
    <2>. QED
      BY <2>2, <2>3
  <1>31. m_serviceNames' = IF shown
                           THEN Learnt(conns[c].device, [outbound |-> o, message |-> piece.message])
                           ELSE m_serviceNames
    <2>. DEFINE note == [outbound |-> o, message |-> piece.message]
                old == before.messages
    <2>1. CASE shown
      <3>1. old \in Seq([outbound : BOOLEAN, message : Messages])
        BY <1>9 DEF Stream
      <3>2. note \in [outbound : BOOLEAN, message : Messages]
        BY <1>5, <2>1
      <3>3. after.messages = Append(old, note)
        BY <1>14, <2>1
      <3>. HIDE DEF old, note
      <3>4. Len(Append(old, note)) = Len(old) + 1 /\ Append(old, note)[Len(old) + 1] = note
        BY <3>1, <3>2, AppendProperties
      <3>5. Append(old, note) # old
        BY <3>1, <3>4, LenProperties
      <3>. QED
        BY <1>9, <2>1, <3>3, <3>4, <3>5 DEF old, note
    <2>2. CASE ~shown
      BY <1>9, <1>14, <2>2
    <2>. QED
      BY <2>1, <2>2
  <1>32. shown => Completes(piece)
    BY <1>1 DEF Shows, Completes
  <1>33. piece.message \in MaybeMessage
    BY <1>1, <1>3, SegmentFields
  <1>34. ASSUME Completes(piece), Answers(c, o, piece.message)
         PROVE  /\ piece.message.port \in DevicePorts /\ piece.message.service \in Services
                /\ o = FALSE /\ conns[c].device = Lockdown /\ piece.message.service # NoName
    <2>1. piece.message \in Messages
      BY <1>33, <1>34, NoMessageApart DEF MaybeMessage, Answers
    <2>. QED
      BY <1>34, <2>1, MessageFields DEF Answers
  <1>35. TypeOK'
    <2>1. m_serviceNames' \in [DevicePorts -> Services \cup {NoName}]
      <3>1. m_serviceNames \in [DevicePorts -> Services \cup {NoName}]
        BY <1>2 DEF TypeOK
      <3>2. shown => piece.message.service \in Services \cup {NoName}
        BY <1>5, MessageFields
      <3>. QED
        BY <1>31, <3>1, <3>2 DEF Learnt
    <2>2. granted' \in [DevicePorts -> Services \cup {NoName}]
      BY <1>2, <1>17, <1>34 DEF TypeOK
    <2>3. unseen' \subseteq DevicePorts
      BY <1>2, <1>17, <1>34 DEF TypeOK
    <2>4. DOMAIN m_streams' \subseteq StreamIds
          /\ \A k \in DOMAIN m_streams' : m_streams'[k] \in Stream
      BY <1>2, <1>9, <1>14, <1>18 DEF TypeOK
    <2>5. m_version' \in Nat /\ segments' \in Nat /\ late' \in BOOLEAN
      BY <1>2, <1>9, <1>17 DEF TypeOK
    <2>6. conns' \in Seq(Connection) /\ Len(conns') <= MaxConnections
      BY <1>2, <1>4 DEF TypeOK
    <2>. QED
      BY <1>7, <1>9, <2>1, <2>2, <2>3, <2>4, <2>5, <2>6 DEF TypeOK
  <1>36. GrantsAreKnown'
    <2>1. ASSUME NEW port \in DevicePorts, port \notin unseen'
          PROVE  m_serviceNames'[port] = granted'[port]
      <3>1. port \notin unseen => m_serviceNames[port] = granted[port]
        BY DEF StreamsInv, GrantsAreKnown
      <3>2. CASE Completes(piece) /\ Answers(c, o, piece.message)
        <4>1. shown
              => m_serviceNames'[port] = IF port = piece.message.port THEN piece.message.service
                                         ELSE m_serviceNames[port]
          BY <1>31, <1>34, <3>2 DEF Learnt
        <4>2. granted'[port] = IF port = piece.message.port THEN piece.message.service
                               ELSE granted[port]
          BY <1>2, <1>17, <3>2 DEF TypeOK
        <4>. QED
          BY <1>17, <1>31, <2>1, <3>1, <3>2, <4>1, <4>2
      <3>3. CASE ~(Completes(piece) /\ Answers(c, o, piece.message))
        <4>1. port \notin unseen /\ granted' = granted
          BY <1>17, <2>1, <3>3
        <4>2. m_serviceNames'[port] = m_serviceNames[port]
          <5>1. CASE shown
            <6>1. ~Answers(c, o, piece.message)
              BY <1>32, <3>3, <5>1
            <6>2. ~(conns[c].device = Lockdown /\ ~o /\ piece.message.port = port
                    /\ piece.message.service # NoName)
              BY <6>1 DEF Answers
            <6>. QED
              BY <1>31, <5>1, <6>2 DEF Learnt
          <5>2. CASE ~shown
            BY <1>31, <5>2
          <5>. QED
            BY <5>1, <5>2
        <4>. QED
          BY <3>1, <4>1, <4>2
      <3>. QED
        BY <3>2, <3>3
    <2>2. ASSUME NEW k \in DOMAIN conns', ~Over(k)'
          PROVE  conns'[k].service = IF conns'[k].device = Lockdown THEN Lockdownd
                                     ELSE granted'[conns'[k].device]
      <3>1. k \in DOMAIN conns /\ ~Over(k)
        BY <1>4, <1>23, <2>2
      <3>2. conns[k].service = IF conns[k].device = Lockdown THEN Lockdownd
                               ELSE granted[conns[k].device]
        BY <3>1 DEF StreamsInv, GrantsAreKnown
      <3>3. conns[k].device # Lockdown => granted'[conns[k].device] = granted[conns[k].device]
        <4>. SUFFICES ASSUME conns[k].device # Lockdown, granted' # granted
                      PROVE  granted'[conns[k].device] = granted[conns[k].device]
          OBVIOUS
        <4>1. Completes(piece) /\ Answers(c, o, piece.message)
          BY <1>17
        <4>2. conns[k].device \in DevicePorts
          <5>1. conns[k] \in Connection
            BY <1>2, <3>1, StateTypes
          <5>. QED
            BY <5>1, ConnectionFields
        <4>3. underWay[FALSE][1] = segment /\ 1 \in DOMAIN underWay[FALSE]
          BY <1>3, <1>34, <4>1
        <4>4. ~Gives(conns[c], piece.message, conns[k].device)
          BY <1>1, <3>1, <4>2, <4>3 DEF StreamsInv, GrantsAreExclusive
        <4>5. piece.message.port # conns[k].device
          BY <1>34, <4>1, <4>4 DEF Gives
        <4>. QED
          BY <1>2, <1>17, <4>1, <4>2, <4>5 DEF TypeOK
      <3>. QED
        BY <1>16, <3>1, <3>2, <3>3
    <2>. QED
      BY <2>1, <2>2 DEF GrantsAreKnown
  <1>37. NamesAreServices'
    <2>. SUFFICES ASSUME NEW k \in Seen', conns'[k].named
                  PROVE  m_streams'[IdOf(k)'].service = conns'[k].service
      BY DEF NamesAreServices
    <2>1. CASE k # c
      <3>1. k \in Seen /\ k \in DOMAIN conns
        BY <1>10, <2>1 DEF Seen
      <3>. QED
        BY <1>4, <1>20, <2>1, <3>1 DEF StreamsInv, NamesAreServices
    <2>2. CASE k = c /\ conns[c].seen
      <3>1. c \in Seen /\ conns[c].named
        BY <1>3, <1>4, <2>2 DEF Seen
      <3>2. before.service = conns[c].service
        BY <1>1, <2>2, <3>1 DEF StreamsInv, NamesAreServices
      <3>. QED
        BY <1>4, <1>14, <1>21, <2>2, <3>2
    <2>3. CASE k = c /\ ~conns[c].seen
      <3>1. IsSyn(segment) /\ conns[c].device \notin unseen
        BY <1>3, <1>4, <2>3 DEF StreamsInv, PortsInTurn
      <3>2. before.service = NameFor(conns[c].device)
        BY <1>1, <2>3 DEF NewStream
      <3>3. conns[c].service = IF conns[c].device = Lockdown THEN Lockdownd
                               ELSE granted[conns[c].device]
        BY <1>3 DEF StreamsInv, GrantsAreKnown
      <3>4. conns[c].device # Lockdown =>
                m_serviceNames[conns[c].device] = granted[conns[c].device]
        BY <1>3, <3>1, ConnectionFields DEF StreamsInv, GrantsAreKnown
      <3>5. NameFor(conns[c].device) = conns[c].service
        BY <3>3, <3>4 DEF NameFor
      <3>. QED
        BY <1>4, <1>14, <1>21, <2>3, <3>2, <3>5
    <2>. QED
      BY <2>1, <2>2, <2>3
  <1>. QED
    BY <1>9, <1>24, <1>25, <1>26, <1>27, <1>28, <1>29, <1>30, <1>35, <1>36, <1>37 DEF StreamsInv

\* No variable changes.
LEMMA StutterStreams == StreamsInv /\ UNCHANGED vars => StreamsInv'
  <1>. SUFFICES ASSUME StreamsInv, UNCHANGED vars PROVE StreamsInv'
    OBVIOUS
  <1>1. /\ m_version' = m_version /\ m_streamIndex' = m_streamIndex /\ m_streams' = m_streams
        /\ m_serviceNames' = m_serviceNames /\ conns' = conns /\ granted' = granted
        /\ unseen' = unseen /\ underWay' = underWay /\ segments' = segments /\ late' = late
    BY DEF vars, program
  <1>2. TypeOK'
    BY <1>1 DEF StreamsInv, TypeOK
  <1>3. \A k \in DOMAIN conns : SameCapture(conns, conns', k)
    BY <1>1 DEF SameCapture, PortsIn
  <1>4. /\ IndexCounts' /\ StreamIsOneConnection' /\ MessagesAreConnections' /\ NamesAreServices'
        /\ \A k \in DOMAIN conns, o \in BOOLEAN : DirOf(k, o)' = DirOf(k, o)
    BY <1>1, <1>3, NothingCaptured
  <1>5. SegmentsBelong' /\ SynsAreFirst'
    BY ZenonT(60), <1>1 DEF StreamsInv, SegmentsBelong, SynsAreFirst, IsSyn, PortsOf
  <1>6. PortsInTurn'
    BY <1>1 DEF StreamsInv, PortsInTurn, Over
  <1>7. GrantsAreExclusive'
    BY <1>1 DEF StreamsInv, GrantsAreExclusive, Over
  <1>8. GrantsAreKnown'
    BY <1>1 DEF StreamsInv, GrantsAreKnown, Over
  <1>9. StreamsFollow'
    BY <1>1, <1>4 DEF StreamsInv, StreamsFollow, Stands
  <1>. QED
    BY <1>2, <1>4, <1>5, <1>6, <1>7, <1>8, <1>9 DEF StreamsInv

LEMMA StreamsInvariant == Spec => []StreamsInv
  <1>1. StreamsInv /\ [Next]_vars => StreamsInv'
    <2>. SUFFICES ASSUME StreamsInv, [Next]_vars PROVE StreamsInv'
      OBVIOUS
    <2>1. CASE Version
      BY <2>1, VersionStreams
    <2>2. CASE \E host \in HostPorts, device \in DevicePorts \cup {Lockdown} : Open(host, device)
      BY <2>2, OpenStreams
    <2>3. CASE \E c \in DOMAIN conns, o \in BOOLEAN : Send(c, o)
      BY <2>3, SendStreams
    <2>4. CASE \E o \in BOOLEAN : Arrive(o)
      BY <2>4, ArriveStreams
    <2>5. CASE UNCHANGED vars
      BY <2>5, StutterStreams
    <2>. QED
      BY <2>1, <2>2, <2>3, <2>4, <2>5 DEF Next
  <1>. QED
    BY InitStreams, <1>1, PTL DEF Spec

-----------------------------------------------------------------------------
\* The expert's maps have the streams, names and indices their types say.
THEOREM StreamTypes == Spec => []TypeOK
  BY StreamsInvariant, PTL DEF StreamsInv

\* However connections share ports and segments cross, processTCP and
\* beginStream make one stream of each connection the capture sees, closed when
\* its end is captured.
THEOREM OneStreamPerConnection == Spec => []StreamIsOneConnection
  BY StreamsInvariant, PTL DEF StreamsInv

\* A stream has the property lists of its connection, in their order, and none
\* of another's.
THEOREM MessagesKept == Spec => []MessagesAreConnections
  BY StreamsInvariant, PTL DEF StreamsInv

\* learnServices and beginStream name a stream after the service its port was
\* given to when it was opened.
THEOREM NamesCorrect == Spec => []NamesAreServices
  BY StreamsInvariant, PTL DEF StreamsInv
=============================================================================
