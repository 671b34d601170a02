----------------------------- MODULE MuxStream -----------------------------
(***************************************************************************)
(* One direction of MuxStream: length prefixed property lists are cut out  *)
(* of the bytes of a tunnelled TCP connection, until the bytes turn out to *)
(* be something else.  The two directions share nothing but the list their *)
(* messages are added to.                                                  *)
(*                                                                         *)
(* As in MuxFraming a byte stream is a sequence of words.  The prefix is   *)
(* one word and the signature of a property list two; the first word of a  *)
(* TLS record is above every size a message may have, as 0x1603.... and    *)
(* 0x1703.... are.                                                         *)
(***************************************************************************)
EXTENDS Integers, Sequences, SequencesExt

CONSTANTS
    Bodies,       \* the property lists a service sends
    RawWords,     \* what a service that sends none sends
    TlsWords,     \* the words a TLS record may begin with
    Signatures,   \* what a property list begins with, two words each
    MaxMessage,   \* MAX_PLIST_MESSAGE, in words
    MaxSends      \* bound on the number of messages or records sent

ASSUME StreamAssumption ==
    /\ Signatures \subseteq [1..2 -> Nat]
    /\ \A b \in Bodies : /\ b \in Seq(Nat) /\ Len(b) \in 2..MaxMessage
                         /\ SubSeq(b, 1, 2) \in Signatures
    /\ \A w \in RawWords : w \in Seq(Nat) /\ w # <<>>
    /\ MaxMessage \in Nat /\ MaxSends \in Nat
    /\ \A w \in TlsWords : w \in Nat /\ w > MaxMessage

\* The bytes of a service that is neither begin neither like a TLS record nor
\* like a property list behind its length, however it puts them together: three
\* writes are enough to see that, for none is empty.
ASSUME RawAssumption ==
    \A u, v, x \in RawWords :
        LET words == (u \o v) \o x IN
        /\ words[1] \notin TlsWords
        /\ words[1] \in 1..MaxMessage => SubSeq(words, 2, 3) \notin Signatures

VARIABLES
    encoding,     \* Direction::encoding
    bytes,        \* Direction::bytes, in words
    buffer,       \* Direction::buffer
    service,      \* what the peer speaks: "plist", "TLS" after an upgrade, "raw"
    wire,         \* what the peer wrote and no segment took yet
    sent,         \* history: the property lists sent
    delivered,    \* m_messages, of this direction
    sends         \* history: number of messages and records sent

vars == <<encoding, bytes, buffer, service, wire, sent, delivered, sends>>

Encodings == {"Unknown", "Plist", "Raw", "TLS"}

\* Types, and what waits for the rest of a message is bounded, also by garbage.
TypeOK ==
    /\ encoding \in Encodings
    /\ bytes \in Nat /\ sends \in Nat
    /\ buffer \in Seq(Nat) /\ Len(buffer) <= MaxMessage /\ wire \in Seq(Nat)
    /\ encoding \in {"Raw", "TLS"} => buffer = <<>>
    /\ service \in {"plist", "TLS", "raw"}
    /\ sent \in Seq(Bodies)
    /\ delivered \in Seq(Seq(Nat))

Init ==
    /\ encoding = "Unknown" /\ bytes = 0 /\ buffer = <<>>
    /\ service \in {"plist", "raw"} /\ wire = <<>>
    /\ sent = <<>> /\ delivered = <<>> /\ sends = 0

-----------------------------------------------------------------------------
\* Mutant: TLS is only looked for before the framing is known.
TlsAt(e, b) == e = "Unknown" /\ b[1] \in TlsWords

LooksLikeTLS(e, b) == b[1] \in TlsWords

StartsPlist(payload) == Len(payload) >= 2 /\ SubSeq(payload, 1, 2) \in Signatures

\* Mutant: the decision is taken before the signature has arrived.
NeededNothing(size) == 0

\* Mutant: the decision waits for the whole message.
NeededWhole(size) == size

\* How much of the first message the decision on the framing takes.
Needed(size) == IF size < 2 THEN size ELSE 2

\* Mutant: a message may be as large as it likes.
PlausibleAny(size) == size # 0

Plausible(size) == size # 0 /\ size <= MaxMessage

GivenUp(e, b) == [encoding |-> e, rest |-> <<>>, messages |-> <<>>]
Waiting(e, b) == [encoding |-> e, rest |-> b, messages |-> <<>>]

\* The loop of drain on a buffer, from an encoding on.
Drained[b \in Seq(Nat)] == [e \in Encodings |->
    IF b = <<>> THEN Waiting(e, b)
    ELSE IF LooksLikeTLS(e, b) THEN GivenUp("TLS", b)
    ELSE IF ~Plausible(b[1]) THEN GivenUp("Raw", b)
    ELSE IF e = "Unknown" /\ Len(b) - 1 < Needed(b[1]) THEN Waiting(e, b)
    ELSE IF e = "Unknown" /\ ~StartsPlist(Tail(b)) THEN GivenUp("Raw", b)
    ELSE IF Len(b) - 1 < b[1] THEN Waiting("Plist", b)
    ELSE LET more == Drained[SubSeq(b, b[1] + 2, Len(b))]["Plist"]
         IN  [more EXCEPT !.messages = <<SubSeq(b, 2, b[1] + 1)>> \o @]]

\* consume, by receiveBytes or sendBytes.
Consume(data) ==
    /\ bytes' = bytes + Len(data)
    /\ IF data = <<>> \/ encoding \in {"Raw", "TLS"}
       THEN UNCHANGED <<encoding, buffer, delivered>>
       ELSE LET result == Drained[buffer \o data][encoding] IN
            /\ encoding' = result.encoding
            /\ buffer' = result.rest
            /\ delivered' = delivered \o result.messages

-----------------------------------------------------------------------------
\* The peer of the connection.
Write(words) ==
    /\ sends < MaxSends /\ sends' = sends + 1
    /\ wire' = wire \o words
    /\ UNCHANGED <<encoding, bytes, buffer, delivered>>

SendPlist ==
    /\ service = "plist"
    /\ \E body \in Bodies : Write(<<Len(body)>> \o body) /\ sent' = Append(sent, body)
    /\ UNCHANGED service

SendTLS ==
    /\ service \in {"plist", "TLS"} /\ service' = "TLS"
    /\ \E w \in TlsWords, rest \in RawWords : Write(<<w>> \o rest)
    /\ UNCHANGED sent

SendRaw ==
    /\ service = "raw"
    /\ \E words \in RawWords : Write(words)
    /\ UNCHANGED <<service, sent>>

\* A TCP segment takes what it likes of the bytes written.
Segment ==
    /\ \E n \in 1..Len(wire) :
        /\ Consume(SubSeq(wire, 1, n))
        /\ wire' = SubSeq(wire, n + 1, Len(wire))
    /\ UNCHANGED <<service, sent, sends>>

Next == SendPlist \/ SendTLS \/ SendRaw \/ Segment

\* Every captured segment reaches the stream (the loops of parse and feed).
Spec == Init /\ [][Next]_vars /\ WF_vars(Segment)

-----------------------------------------------------------------------------
\* However they are cut into segments, the property lists are decoded whole,
\* in order and once, none is left behind, and nothing else is taken for one:
\* not what follows a TLS upgrade, and nothing of a raw service.
Channel == INSTANCE FifoChannel WITH Unit <- Bodies
IsFifoChannel == Channel!Spec

\* TLS upgrades are detected (README, "detects TLS upgrades"), before the
\* first property list and after any of them.
UpgradeIsSeen == (service = "TLS") ~> (encoding = "TLS")

\* The framing is decided neither too early, as what the service is not, nor too
\* late: a length and a signature are enough to know it, and a TLS upgrade is known
\* by the time all that was written has arrived (drain).
EncodingIsServices ==
    /\ encoding = "Plist" => service # "raw"
    /\ encoding = "TLS" => service = "TLS"
    /\ encoding = "Raw" => service = "raw"
    /\ encoding = "Unknown" => bytes < 3
    /\ service = "TLS" /\ wire = <<>> => encoding = "TLS"
=============================================================================
