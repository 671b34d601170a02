--------------------------- MODULE RecoveryExpert ---------------------------
(***************************************************************************)
(* RecoveryInterfaceExpert: the iBoot recovery protocol seen from a        *)
(* capture.  Commands and responses are vendor control transfers, a file   *)
(* is announced by a control transfer and streamed over bulk OUT, and the  *)
(* console is read over bulk IN.                                           *)
(*                                                                         *)
(* The client is libirecovery or a look-alike: it sends one file at a time *)
(* and no command inside a file; it may leave an announcement out, and the *)
(* capture may have begun inside a file.                                   *)
(***************************************************************************)
EXTENDS Integers, Sequences, SequencesExt

CONSTANTS
    Texts,        \* command and response strings, without the terminator
    Cells,        \* the units files and console output are made of
    Chunks,       \* what one bulk transfer carries, possibly nothing
    SkipsAnnouncement, \* whether the client may leave an announcement out
    MaxEvents     \* bound on the number of transfers

ASSUME RecoveryAssumption ==
    /\ "" \in Texts /\ <<>> \in Chunks
    /\ Chunks \subseteq Seq(Cells)
    /\ SkipsAnnouncement \in BOOLEAN
    /\ MaxEvents \in Nat

VARIABLES
    payloads,     \* m_payloads
    uploadOpen,   \* m_uploadOpen
    console,      \* m_console
    client,       \* what the client is doing: "idle", "announced", "sending"
    files,        \* history: the files the client sent, as chunks
    skipped,      \* history: whether an announcement was left out
    events        \* history: number of transfers so far

expertVars == <<payloads, uploadOpen, console>>
vars == <<payloads, uploadOpen, console, client, files, skipped, events>>

\* RecoveryPayload.  The chunks of an upload stay apart here, which they do
\* not in the code; the model never looks at the boundary.  "last" is history:
\* the transfer that added to the payload last.
Payload == [kind : {"Command", "Response", "Upload"}, first : Nat, last : Nat,
            text : Texts, data : Seq(Chunks)]

TypeOK ==
    /\ payloads \in Seq(Payload)
    /\ uploadOpen \in BOOLEAN
    /\ console \in Seq(Cells)
    /\ client \in {"idle", "announced", "sending"}
    /\ files \in Seq(Seq(Chunks))
    /\ skipped \in BOOLEAN
    /\ events \in Nat

Init ==
    /\ payloads = <<>> /\ uploadOpen = FALSE /\ console = <<>>
    /\ client \in {"idle", "sending"}
    /\ files = IF client = "sending" THEN << <<>> >> ELSE <<>>
    /\ skipped = FALSE /\ events = 0

-----------------------------------------------------------------------------
NewPayload(kind, text, data) ==
    [kind |-> kind, first |-> events + 1, last |-> events + 1, text |-> text, data |-> data]

Uploads == {i \in DOMAIN payloads : payloads[i].kind = "Upload"}

\* The data stage of a vendor request, the code's byte_array: no bytes, or a
\* string, which is empty when its first byte is the terminator.
DataStage == {<<>>} \cup {<<text>> : text \in Texts}

\* processControlOut of bmRequestType 0x40, the expert's half.
CommandOut(data) ==
    /\ payloads' = IF data = <<>> THEN payloads
                   ELSE Append(payloads, NewPayload("Command", data[1], <<>>))
    /\ UNCHANGED <<uploadOpen, console>>

\* Mutant: the upload is marked open, and pushed by its first chunk.
AnnounceOutLazily ==
    /\ uploadOpen' = TRUE
    /\ UNCHANGED <<payloads, console>>

\* processControlOut of bmRequestType 0x41, bRequest 0.
AnnounceOut ==
    /\ payloads' = Append(payloads, NewPayload("Upload", "", <<>>))
    /\ uploadOpen' = TRUE
    /\ UNCHANGED console

\* processControlIn of bmRequestType 0xC0.
ResponseIn(data) ==
    /\ payloads' = IF data = <<>> THEN payloads
                   ELSE Append(payloads, NewPayload("Response", data[1], <<>>))
    /\ UNCHANGED <<uploadOpen, console>>

Longer(payload, chunk) ==
    [payload EXCEPT !.data = Append(@, chunk), !.last = events + 1]

\* Mutant: the first upload of the list is taken for the current one.
AddToFirst(list, chunk) ==
    LET n == CHOOSE i \in DOMAIN list :
                /\ list[i].kind = "Upload"
                /\ \A j \in DOMAIN list : list[j].kind = "Upload" => i <= j
    IN  [list EXCEPT ![n] = Longer(@, chunk)]

\* Mutant: the last payload is taken for the current upload.
AddToBack(list, chunk) ==
    [list EXCEPT ![Len(list)] = Longer(@, chunk)]

\* The insertion of processBulkOut into the payload currentUpload returns: the
\* last upload of the list.
AddToUpload(list, chunk) ==
    LET n == CHOOSE i \in DOMAIN list :
                /\ list[i].kind = "Upload"
                /\ \A j \in DOMAIN list : list[j].kind = "Upload" => j <= i
    IN  [list EXCEPT ![n] = Longer(@, chunk)]

\* currentUpload opens one when none is.
Opened == IF uploadOpen THEN payloads
          ELSE Append(payloads, NewPayload("Upload", "", <<>>))

BulkOut(chunk) ==
    /\ IF chunk = <<>> THEN UNCHANGED <<payloads, uploadOpen>>
       ELSE payloads' = AddToUpload(Opened, chunk) /\ uploadOpen' = TRUE
    /\ UNCHANGED console

\* Mutant: a transfer is kept as a unit.
BulkInWhole(chunk) ==
    /\ console' = Append(console, chunk)
    /\ UNCHANGED <<payloads, uploadOpen>>

BulkIn(chunk) ==
    /\ console' = console \o chunk
    /\ UNCHANGED <<payloads, uploadOpen>>

-----------------------------------------------------------------------------
\* Between files the client talks to iBoot.
Talk ==
    /\ client = "idle"
    /\ \/ \E data \in DataStage : CommandOut(data) \/ ResponseIn(data)
       \/ \E chunk \in Chunks : BulkIn(chunk)
    /\ UNCHANGED <<client, files, skipped>>

Announce ==
    /\ client = "idle" /\ client' = "announced"
    /\ AnnounceOut
    /\ files' = Append(files, <<>>)
    /\ UNCHANGED skipped

\* A chunk of the current file, or the first of a file nobody announced.
SendChunk ==
    /\ client' = "sending"
    /\ \E chunk \in Chunks :
        /\ BulkOut(chunk)
        /\ LET sent == IF chunk = <<>> THEN <<>> ELSE <<chunk>> IN
           \/ /\ client \in {"announced", "sending"}
              /\ files' = [files EXCEPT ![Len(files)] = @ \o sent]
              /\ UNCHANGED skipped
           \/ /\ client = "idle" /\ SkipsAnnouncement
              /\ files' = Append(files, sent)
              /\ skipped' = TRUE

EndOfFile ==
    /\ client = "sending" /\ client' = "idle"
    /\ UNCHANGED <<expertVars, files, skipped>>

Next ==
    /\ events < MaxEvents
    /\ events' = events + 1
    /\ Talk \/ Announce \/ SendChunk \/ EndOfFile

Spec == Init /\ [][Next]_vars

-----------------------------------------------------------------------------
\* "Unreachable: an open upload always has a payload" (currentUpload): the
\* fall through of its loop is dead code, whatever the client does.
OpenUploadHasPayload == uploadOpen => Uploads # {}

NonEmpty(seqs) ==
    FlattenSeq([i \in DOMAIN seqs |-> IF seqs[i] = <<>> THEN <<>> ELSE <<seqs[i]>>])
UploadData ==
    NonEmpty([i \in DOMAIN payloads |->
                 IF payloads[i].kind = "Upload" THEN payloads[i].data ELSE <<>>])

\* As long as every file is announced, getArtifacts writes the files the
\* client sent, whole and in order: one upload for each, also for one the
\* capture began inside of.
UploadsAreFiles == ~skipped => UploadData = NonEmpty(files)

\* Whatever the client announces, no byte is lost, repeated or moved.
EveryByteKept == FlattenSeq(UploadData) = FlattenSeq(files)

\* As long as every file is announced, the payloads are in capture order:
\* each is over before the next begins (README, getPayloads: "in capture
\* order").  A file that was not announced goes to the last upload, which may
\* lie before commands sent since.
PayloadsInCaptureOrder ==
    ~skipped => \A i, j \in DOMAIN payloads : i < j => payloads[i].last < payloads[j].first
=============================================================================
