----------------------------- MODULE DfuExpert -----------------------------
(***************************************************************************)
(* DFUInterfaceExpert: the DFU 1.1 class protocol seen from a capture.     *)
(* DNLOAD requests are put together into images, GETSTATUS and GETSTATE    *)
(* replies give the device's state, and departures from the protocol are   *)
(* recorded as anomalies.                                                  *)
(*                                                                         *)
(* The expert watches a host and a device that follow the state diagram of *)
(* DFU 1.1, but for the faults a run allows:                               *)
(*   "abort"     the host gives a download up                              *)
(*   "error"     a block fails in the device, which the host then clears   *)
(*   "reset"     the device is reset, which the expert does not see        *)
(*   "truncate"  the capture holds less of a transfer than was sent        *)
(*   "oversize"  the host sends blocks above wTransferSize                 *)
(*   "strange"   the host sends requests the protocol does not have, or at *)
(*               the wrong time                                            *)
(***************************************************************************)
EXTENDS Integers, Sequences, SequencesExt

CONSTANTS
    Cells,        \* the units an image is made of
    Blocks,       \* the blocks a host sends, none of them empty
    TransferSize, \* m_transferSize, 0 when no functional descriptor was read
    Faults,       \* the faults allowed
    MaxRequests   \* bound on the number of requests

ASSUME DfuAssumption ==
    /\ Blocks \subseteq Seq(Cells) \ {<<>>}
    /\ TransferSize \in Nat
    /\ Faults \subseteq {"abort", "error", "reset", "truncate", "oversize", "strange"}
    /\ MaxRequests \in Nat

VARIABLES
    images,       \* m_images
    currentImage, \* m_currentImage
    uploadBytes,  \* m_uploadBytes
    requestCounts,\* m_requestCounts
    anomalies,    \* m_anomalies, by kind
    lastState,    \* m_lastState, as a name
    lastStatus,   \* m_lastStatus
    device,       \* the state the device is in
    downloaded,   \* what the device has of the download that is going on
    ended,        \* history: the downloads ended or aborted, as the device has them
    captured,     \* history: all download data in the capture
    offences,     \* history: what is anomalous in the capture, as AnomalyKinds
    failed,       \* history: whether the device failed or was reset
    requests      \* history: number of requests

expertVars == <<images, currentImage, uploadBytes, requestCounts, anomalies,
                lastState, lastStatus>>
vars == <<expertVars, device, downloaded, ended, captured, offences,
          failed, requests>>

RequestNames == {"DETACH", "DNLOAD", "UPLOAD", "GETSTATUS", "CLRSTATUS",
                 "GETSTATE", "ABORT", "UNKNOWN"}
AnomalyKinds == {"length", "oversize", "abort", "out", "in"}
States == {"dfuIDLE", "dfuDNLOAD-SYNC", "dfuDNBUSY", "dfuDNLOAD-IDLE",
           "dfuMANIFEST-SYNC", "dfuMANIFEST", "dfuUPLOAD-IDLE", "dfuERROR"}
Status == {"OK", "errWRITE"}

TypeOK ==
    /\ images \in Seq(Seq(Cells) \ {<<>>})
    /\ currentImage \in Seq(Cells)
    /\ uploadBytes \in Nat
    /\ requestCounts \in [RequestNames -> Nat]
    /\ anomalies \in Seq(AnomalyKinds)
    /\ lastState \in States \cup {"unknown"}
    /\ lastStatus \in Status \cup {"unknown"}
    /\ device \in States
    /\ downloaded \in Seq(Cells)
    /\ ended \in Seq(Seq(Cells))
    /\ captured \in Seq(Cells)
    /\ offences \subseteq AnomalyKinds /\ failed \in BOOLEAN
    /\ requests \in Nat

Init ==
    /\ images = <<>> /\ currentImage = <<>> /\ uploadBytes = 0
    /\ requestCounts = [r \in RequestNames |-> 0]
    /\ anomalies = <<>> /\ lastState = "unknown" /\ lastStatus = "unknown"
    /\ device = "dfuIDLE" /\ downloaded = <<>> /\ ended = <<>>
    /\ captured = <<>> /\ offences = {} /\ failed = FALSE /\ requests = 0

-----------------------------------------------------------------------------
(* The expert. *)

Noted(condition, kind) == IF condition THEN <<kind>> ELSE <<>>

\* Mutant: an image is completed whether it holds anything or not.
PushImageAlways ==
    /\ images' = Append(images, currentImage)
    /\ currentImage' = <<>>

\* Mutant: the current image is copied where the code moves it.
PushImageCopies ==
    /\ images' = IF currentImage = <<>> THEN images ELSE Append(images, currentImage)
    /\ UNCHANGED currentImage

\* The move of m_currentImage to m_images.
PushImage ==
    /\ images' = IF currentImage = <<>> THEN images ELSE Append(images, currentImage)
    /\ currentImage' = <<>>

\* Mutant: a block of exactly wTransferSize is reported.
TooLargeAtLimit(wLength) == TransferSize # 0 /\ wLength >= TransferSize

TooLarge(wLength) == TransferSize # 0 /\ wLength > TransferSize

\* Mutant: a block replaces the image so far.
AddBlockAssigns(data) == currentImage' = data /\ UNCHANGED images

AddBlock(data) == currentImage' = currentImage \o data /\ UNCHANGED images

\* A class request with an OUT data stage.  Requests of the other types leave
\* the expert alone.
ProcessControlOut(request, wLength, data) ==
    /\ requestCounts' = [requestCounts EXCEPT ![request] = @ + 1]
    /\ anomalies' = anomalies \o Noted(Len(data) # wLength, "length")
                \o Noted(request = "DNLOAD" /\ TooLarge(wLength), "oversize")
                \o Noted(request = "ABORT" /\ currentImage # <<>>, "abort")
                \o Noted(request \notin {"DNLOAD", "ABORT", "DETACH", "CLRSTATUS"}, "out")
    /\ \/ request = "DNLOAD" /\ wLength = 0 /\ PushImage
       \/ request = "DNLOAD" /\ wLength # 0 /\ AddBlock(data)
       \/ request = "ABORT" /\ PushImage
       \/ request \notin {"DNLOAD", "ABORT"} /\ UNCHANGED <<images, currentImage>>
    /\ UNCHANGED <<uploadBytes, lastState, lastStatus>>

\* A class request with an IN data stage.  "reply" holds what arrived of the
\* fields the expert reads: status and state, a state, or uploaded cells.
ProcessControlIn(request, reply) ==
    /\ requestCounts' = [requestCounts EXCEPT ![request] = @ + 1]
    /\ anomalies' = anomalies \o Noted(request \notin {"GETSTATUS", "GETSTATE", "UPLOAD"}, "in")
    /\ lastStatus' = IF request = "GETSTATUS" /\ Len(reply) = 2 THEN reply[1] ELSE lastStatus
    /\ lastState' = IF \/ request = "GETSTATUS" /\ Len(reply) = 2
                       \/ request = "GETSTATE" /\ Len(reply) = 1
                    THEN Last(reply) ELSE lastState
    /\ uploadBytes' = uploadBytes + (IF request = "UPLOAD" THEN Len(reply) ELSE 0)
    /\ UNCHANGED <<images, currentImage>>

\* getImages: the completed images, then the partial one.
GetImages == images \o (IF currentImage = <<>> THEN <<>> ELSE <<currentImage>>)

-----------------------------------------------------------------------------
(* The host and the device. *)

Offence(condition, kind) == IF condition THEN {kind} ELSE {}

\* What the capture holds of a transfer.
Captured(data) == {data} \cup
    (IF "truncate" \in Faults THEN {SubSeq(data, 1, n) : n \in 0..Len(data)} ELSE {})

Download ==
    /\ device \in {"dfuIDLE", "dfuDNLOAD-IDLE"}
    /\ device' = "dfuDNLOAD-SYNC"
    /\ \E block \in Blocks : \E data \in Captured(block) :
        /\ "oversize" \in Faults \/ TransferSize = 0 \/ Len(block) <= TransferSize
        /\ ProcessControlOut("DNLOAD", Len(block), data)
        /\ downloaded' = downloaded \o block
        /\ captured' = captured \o data
        /\ offences' = offences \cup Offence(data # block, "length")
                \cup Offence(TransferSize # 0 /\ Len(block) > TransferSize, "oversize")
    /\ UNCHANGED <<ended, failed>>

EndDownload ==
    /\ device = "dfuDNLOAD-IDLE" /\ device' = "dfuMANIFEST-SYNC"
    /\ ProcessControlOut("DNLOAD", 0, <<>>)
    /\ ended' = Append(ended, downloaded)
    /\ downloaded' = <<>>
    /\ UNCHANGED <<captured, offences, failed>>

\* What a GETSTATUS in each state may report, and the state after it.
Reports ==
    CASE device = "dfuDNLOAD-SYNC" ->
            {<<"dfuDNBUSY", "dfuDNLOAD-SYNC">>, <<"dfuDNLOAD-IDLE", "dfuDNLOAD-IDLE">>}
      [] device = "dfuMANIFEST-SYNC" ->
            {<<"dfuMANIFEST", "dfuMANIFEST-SYNC">>, <<"dfuIDLE", "dfuIDLE">>}
      [] OTHER -> {<<device, device>>}

GetStatus ==
    /\ \E report \in Reports \cup
            (IF "error" \in Faults /\ device = "dfuDNLOAD-SYNC"
             THEN {<<"dfuERROR", "dfuERROR">>} ELSE {}) :
        LET status == IF report[1] = "dfuERROR" THEN "errWRITE" ELSE "OK" IN
        /\ \E reply \in {<<status, report[1]>>} \cup
                (IF "truncate" \in Faults THEN {<<>>} ELSE {}) :
              ProcessControlIn("GETSTATUS", reply)
        /\ device' = report[2]
        /\ downloaded' = IF report[2] = "dfuERROR" THEN <<>> ELSE downloaded
        /\ failed' = (failed \/ report[2] = "dfuERROR")
    /\ UNCHANGED <<ended, captured, offences>>

GetState ==
    /\ ProcessControlIn("GETSTATE", <<device>>)
    /\ UNCHANGED <<device, downloaded, ended, captured, offences, failed>>

ClearStatus ==
    /\ device = "dfuERROR" /\ device' = "dfuIDLE"
    /\ ProcessControlOut("CLRSTATUS", 0, <<>>)
    /\ UNCHANGED <<downloaded, ended, captured, offences, failed>>

Abort ==
    /\ \/ device \in {"dfuIDLE", "dfuUPLOAD-IDLE"}
       \/ device \in {"dfuDNLOAD-SYNC", "dfuDNLOAD-IDLE"} /\ "abort" \in Faults
    /\ device' = "dfuIDLE"
    /\ ProcessControlOut("ABORT", 0, <<>>)
    /\ downloaded' = <<>>
    /\ ended' = IF downloaded = <<>> THEN ended ELSE Append(ended, downloaded)
    /\ offences' = offences \cup Offence(downloaded # <<>>, "abort")
    /\ UNCHANGED <<captured, failed>>

Upload ==
    /\ device \in {"dfuIDLE", "dfuUPLOAD-IDLE"}
    /\ \E block \in Blocks \cup {<<>>} :
        /\ ProcessControlIn("UPLOAD", block)
        /\ device' = IF block = <<>> THEN "dfuIDLE" ELSE "dfuUPLOAD-IDLE"
    /\ UNCHANGED <<downloaded, ended, captured, offences, failed>>

\* A request the protocol does not have, in one direction or the other, or
\* the end of a download that never began.
Strange ==
    /\ "strange" \in Faults
    /\ \/ ProcessControlOut("UNKNOWN", 0, <<>>)
          /\ offences' = offences \cup {"out"} /\ UNCHANGED device
       \/ ProcessControlIn("UNKNOWN", <<>>)
          /\ offences' = offences \cup {"in"} /\ UNCHANGED device
       \/ /\ device = "dfuIDLE" /\ device' = "dfuERROR"
          /\ ProcessControlOut("DNLOAD", 0, <<>>)
          /\ UNCHANGED offences
    /\ UNCHANGED <<downloaded, ended, captured, failed>>

Reset ==
    /\ "reset" \in Faults
    /\ device' = "dfuIDLE" /\ downloaded' = <<>> /\ failed' = TRUE
    /\ UNCHANGED <<expertVars, ended, captured, offences>>

Next ==
    /\ requests < MaxRequests
    /\ requests' = requests + 1
    /\ \/ Download \/ EndDownload \/ GetStatus \/ GetState \/ ClearStatus
       \/ Abort \/ Upload \/ Strange \/ Reset

Spec == Init /\ [][Next]_vars

-----------------------------------------------------------------------------
\* The images and the partial one hold all download data of the capture, in
\* order and once, whatever goes wrong.
EveryByteKept == FlattenSeq(GetImages) = captured

\* While no download fails or is captured in part, the images are the downloads
\* the device was given, one by one, an aborted one as far as it came, and the
\* partial image is the device's: nothing of a download gets into another, also
\* when blocks are above wTransferSize or requests come between that the protocol
\* does not have or allow (processControlOut).
ImagesAreDownloads ==
    ~failed /\ "length" \notin offences => images = ended /\ currentImage = downloaded

\* While no download fails, the kinds of anomaly recorded are those of what is
\* anomalous in the capture (README, getAnomalies), except that an abort may go
\* unnoticed when the capture lacks the data of what is aborted.
AnomaliesAreOffences ==
    ~failed =>
        /\ ToSet(anomalies) \subseteq offences
        /\ offences \subseteq ToSet(anomalies) \cup Offence("length" \in offences, "abort")
=============================================================================
