--------------------------- MODULE DfuExpertProofs --------------------------
(***************************************************************************)
(* Proofs about DfuExpert, for every set of blocks, every transfer size    *)
(* and every choice of faults: its types, that the images hold every byte  *)
(* of the downloads in the capture, that they are what the device was      *)
(* given where nothing went wrong, and that anomalies are recorded where   *)
(* there is something anomalous and nowhere else.                          *)
(*                                                                         *)
(* Of the types, the part that could be wrong is that of images: no image  *)
(* is empty, although a capture may hold nothing of a block and a download *)
(* may be ended or aborted before it has any.                              *)
(***************************************************************************)
EXTENDS DfuExpert, SequenceLemmas

LEMMA NotedTyped ==
    ASSUME NEW condition, NEW kind \in AnomalyKinds
    PROVE  Noted(condition, kind) \in Seq(AnomalyKinds)
<1>1. <<kind>> \in Seq(AnomalyKinds) /\ <<>> \in Seq(AnomalyKinds)
  OBVIOUS
<1> QED BY <1>1, Zenon DEF Noted

LEMMA KindsListed ==
    /\ "length" \in AnomalyKinds /\ "oversize" \in AnomalyKinds /\ "abort" \in AnomalyKinds
    /\ "out" \in AnomalyKinds /\ "in" \in AnomalyKinds
BY DEF AnomalyKinds

LEMMA PushImageTyped ==
    ASSUME TypeOK, PushImage
    PROVE  images' \in Seq(Seq(Cells) \ {<<>>}) /\ currentImage' \in Seq(Cells)
<1>1. CASE currentImage = <<>>
  BY <1>1, EmptySeq DEF TypeOK, PushImage
<1>2. CASE currentImage # <<>>
  BY <1>2, EmptySeq DEF TypeOK, PushImage
<1> QED BY <1>1, <1>2

LEMMA OffenceTyped ==
    ASSUME NEW condition, NEW kind \in AnomalyKinds
    PROVE  Offence(condition, kind) \subseteq AnomalyKinds
BY DEF Offence

\* What ProcessControlOut does to the expert, whatever the request.
LEMMA ControlOutTyped ==
    ASSUME TypeOK, NEW request \in RequestNames, NEW wLength \in Nat, NEW data \in Seq(Cells),
           ProcessControlOut(request, wLength, data)
    PROVE  /\ images' \in Seq(Seq(Cells) \ {<<>>})
           /\ currentImage' \in Seq(Cells)
           /\ uploadBytes' \in Nat
           /\ requestCounts' \in [RequestNames -> Nat]
           /\ anomalies' \in Seq(AnomalyKinds)
           /\ lastState' \in States \cup {"unknown"}
           /\ lastStatus' \in Status \cup {"unknown"}
<1>1. requestCounts' \in [RequestNames -> Nat]
  BY DEF TypeOK, ProcessControlOut
<1>2. anomalies' \in Seq(AnomalyKinds)
  <2> DEFINE a1 == Noted(Len(data) # wLength, "length")
             a2 == Noted(request = "DNLOAD" /\ TooLarge(wLength), "oversize")
             a3 == Noted(request = "ABORT" /\ currentImage # <<>>, "abort")
             a4 == Noted(request \notin {"DNLOAD", "ABORT", "DETACH", "CLRSTATUS"}, "out")
  <2>1. /\ a1 \in Seq(AnomalyKinds) /\ a2 \in Seq(AnomalyKinds)
        /\ a3 \in Seq(AnomalyKinds) /\ a4 \in Seq(AnomalyKinds)
    BY NotedTyped, KindsListed, Zenon
  <2>2. anomalies' = anomalies \o a1 \o a2 \o a3 \o a4
    BY DEF ProcessControlOut
  <2> HIDE DEF a1, a2, a3, a4
  <2> QED BY <2>1, <2>2 DEF TypeOK
<1>3. images' \in Seq(Seq(Cells) \ {<<>>}) /\ currentImage' \in Seq(Cells)
  <2>1. CASE PushImage
    BY <2>1, PushImageTyped
  <2>2. CASE AddBlock(data)
    BY <2>2 DEF AddBlock, TypeOK
  <2>3. CASE UNCHANGED <<images, currentImage>>
    BY <2>3 DEF TypeOK
  <2> QED BY <2>1, <2>2, <2>3 DEF ProcessControlOut
<1> QED BY <1>1, <1>2, <1>3 DEF ProcessControlOut, TypeOK


LEMMA ControlInTyped ==
    ASSUME TypeOK, NEW request \in RequestNames, NEW reply,
           Len(reply) \in Nat,
           request = "GETSTATUS" /\ Len(reply) = 2 => reply[1] \in Status /\ Last(reply) \in States,
           request = "GETSTATE" /\ Len(reply) = 1 => Last(reply) \in States,
           ProcessControlIn(request, reply)
    PROVE  /\ images' \in Seq(Seq(Cells) \ {<<>>})
           /\ currentImage' \in Seq(Cells)
           /\ uploadBytes' \in Nat
           /\ requestCounts' \in [RequestNames -> Nat]
           /\ anomalies' \in Seq(AnomalyKinds)
           /\ lastState' \in States \cup {"unknown"}
           /\ lastStatus' \in Status \cup {"unknown"}
<1>1. requestCounts' \in [RequestNames -> Nat]
  BY DEF TypeOK, ProcessControlIn
<1>2. anomalies' \in Seq(AnomalyKinds)
  <2> DEFINE a1 == Noted(request \notin {"GETSTATUS", "GETSTATE", "UPLOAD"}, "in")
  <2>1. a1 \in Seq(AnomalyKinds)
    BY NotedTyped, KindsListed, Zenon
  <2>2. anomalies' = anomalies \o a1
    BY DEF ProcessControlIn
  <2> HIDE DEF a1
  <2> QED BY <2>1, <2>2 DEF TypeOK
<1>3. uploadBytes' \in Nat
  BY DEF TypeOK, ProcessControlIn
<1>4. lastStatus' \in Status \cup {"unknown"}
  BY DEF TypeOK, ProcessControlIn
<1>5. lastState' \in States \cup {"unknown"}
  BY DEF TypeOK, ProcessControlIn
<1> QED BY <1>1, <1>2, <1>3, <1>4, <1>5 DEF ProcessControlIn, TypeOK

LEMMA DfuInit == Init => TypeOK
<1> SUFFICES ASSUME Init PROVE TypeOK
  OBVIOUS
<1>1. /\ images \in Seq(Seq(Cells) \ {<<>>}) /\ currentImage \in Seq(Cells)
      /\ anomalies \in Seq(AnomalyKinds) /\ downloaded \in Seq(Cells)
      /\ ended \in Seq(Seq(Cells)) /\ captured \in Seq(Cells)
  BY EmptySeq DEF Init
<1>2. /\ uploadBytes \in Nat /\ requests \in Nat /\ requestCounts \in [RequestNames -> Nat]
      /\ lastState \in States \cup {"unknown"} /\ lastStatus \in Status \cup {"unknown"}
      /\ device \in States /\ offences \subseteq AnomalyKinds /\ failed \in BOOLEAN
  BY DEF Init, States
<1> QED BY <1>1, <1>2 DEF TypeOK

LEMMA DfuNext == TypeOK /\ [Next]_vars => TypeOK'
<1> SUFFICES ASSUME TypeOK, [Next]_vars PROVE TypeOK'
  OBVIOUS
<1> DEFINE Expert == /\ images' \in Seq(Seq(Cells) \ {<<>>})
                     /\ currentImage' \in Seq(Cells)
                     /\ uploadBytes' \in Nat
                     /\ requestCounts' \in [RequestNames -> Nat]
                     /\ anomalies' \in Seq(AnomalyKinds)
                     /\ lastState' \in States \cup {"unknown"}
                     /\ lastStatus' \in Status \cup {"unknown"}
           Others == /\ device' \in States
                     /\ downloaded' \in Seq(Cells)
                     /\ ended' \in Seq(Seq(Cells))
                     /\ captured' \in Seq(Cells)
                     /\ offences' \subseteq AnomalyKinds /\ failed' \in BOOLEAN
<1>1. ASSUME Expert, Others, Next PROVE TypeOK'
  BY <1>1 DEF TypeOK, Next
<1>2. ASSUME UNCHANGED expertVars PROVE Expert
  BY <1>2 DEF expertVars, TypeOK
<1>3. ASSUME NEW request \in RequestNames, NEW wLength \in Nat, NEW data \in Seq(Cells),
             ProcessControlOut(request, wLength, data)
      PROVE  Expert
  BY <1>3, ControlOutTyped
<1>4. ASSUME NEW request \in RequestNames, request \notin {"GETSTATUS", "GETSTATE"},
             NEW reply \in Seq(Cells), ProcessControlIn(request, reply)
      PROVE  Expert
  BY <1>4, ControlInTyped
<1>5. ASSUME ProcessControlIn("GETSTATE", <<device>>) PROVE Expert
  <2>1. Len(<<device>>) = 1 /\ Last(<<device>>) \in States
    BY DEF Last, TypeOK
  <2> QED BY <1>5, <2>1, ControlInTyped DEF RequestNames
<1>6. ASSUME NEW status \in Status, NEW state \in States, NEW reply \in {<<status, state>>, <<>>},
             ProcessControlIn("GETSTATUS", reply)
      PROVE  Expert
  <2>1. Len(reply) \in Nat /\ (Len(reply) = 2 => reply[1] \in Status /\ Last(reply) \in States)
    BY DEF Last
  <2> QED BY <1>6, <2>1, ControlInTyped DEF RequestNames
<1> HIDE DEF Expert
<1>6a. ASSUME NEW request \in RequestNames, ProcessControlOut(request, 0, <<>>) PROVE Expert
  <2>1. <<>> \in Seq(Cells) /\ 0 \in Nat
    BY EmptySeq
  <2> QED BY <1>3, <1>6a, <2>1
<1>6b. ASSUME ProcessControlIn("UNKNOWN", <<>>) PROVE Expert
  <2>1. <<>> \in Seq(Cells) /\ "UNKNOWN" \in RequestNames
    BY EmptySeq DEF RequestNames
  <2> QED BY <1>4, <1>6b, <2>1
<1>7. CASE UNCHANGED vars
  BY <1>2, <1>7 DEF vars, Expert, TypeOK
<1>8. ASSUME Next, Download PROVE TypeOK'
  <2>1. PICK block \in Blocks : \E data \in Captured(block) :
            /\ ProcessControlOut("DNLOAD", Len(block), data)
            /\ downloaded' = downloaded \o block
            /\ captured' = captured \o data
            /\ offences' = offences \cup Offence(data # block, "length")
                    \cup Offence(TransferSize # 0 /\ Len(block) > TransferSize, "oversize")
    BY <1>8 DEF Download
  <2>0. PICK data \in Captured(block) :
            /\ ProcessControlOut("DNLOAD", Len(block), data)
            /\ downloaded' = downloaded \o block
            /\ captured' = captured \o data
            /\ offences' = offences \cup Offence(data # block, "length")
                    \cup Offence(TransferSize # 0 /\ Len(block) > TransferSize, "oversize")
    BY <2>1
  <2>2. block \in Seq(Cells) /\ Len(block) \in Nat
    BY DfuAssumption
  <2>3. data \in Seq(Cells)
    BY <2>2 DEF Captured
  <2>4. Expert
    BY <1>3, <2>0, <2>2, <2>3 DEF RequestNames
  <2>5. Others
    <3>1. offences' \subseteq AnomalyKinds
      BY <2>0, KindsListed, OffenceTyped DEF TypeOK
    <3> QED BY <1>8, <2>0, <2>2, <2>3, <3>1 DEF Download, TypeOK, States
  <2> QED BY <1>1, <1>8, <2>4, <2>5
<1>9. ASSUME Next, EndDownload PROVE TypeOK'
  <2>1. Expert
    BY <1>6a, <1>9 DEF EndDownload, RequestNames
  <2>2. Others
    BY <1>9 DEF EndDownload, TypeOK, States
  <2> QED BY <1>1, <1>9, <2>1, <2>2
<1>10. ASSUME Next, GetStatus PROVE TypeOK'
  <2> DEFINE All == Reports \cup
            (IF "error" \in Faults /\ device = "dfuDNLOAD-SYNC"
             THEN {<<"dfuERROR", "dfuERROR">>} ELSE {})
  <2>1. PICK report \in All :
            LET status == IF report[1] = "dfuERROR" THEN "errWRITE" ELSE "OK" IN
            /\ \E reply \in {<<status, report[1]>>} \cup
                    (IF "truncate" \in Faults THEN {<<>>} ELSE {}) :
                  ProcessControlIn("GETSTATUS", reply)
            /\ device' = report[2]
            /\ downloaded' = IF report[2] = "dfuERROR" THEN <<>> ELSE downloaded
            /\ failed' = (failed \/ report[2] = "dfuERROR")
    BY <1>10 DEF GetStatus
  <2>2. report[1] \in States /\ report[2] \in States
    BY DEF Reports, States, TypeOK
  <2> DEFINE status == IF report[1] = "dfuERROR" THEN "errWRITE" ELSE "OK"
  <2>3. PICK reply \in {<<status, report[1]>>, <<>>} : ProcessControlIn("GETSTATUS", reply)
    BY <2>1
  <2>4. status \in Status
    BY DEF Status
  <2> HIDE DEF status
  <2>5. Expert
    BY <1>6, <2>2, <2>3, <2>4
  <2>6. Others
    BY <1>10, <2>1, <2>2 DEF GetStatus, TypeOK
  <2> QED BY <1>1, <1>10, <2>5, <2>6
<1>11. ASSUME Next, GetState PROVE TypeOK'
  BY <1>1, <1>5, <1>11 DEF GetState, TypeOK
<1>12. ASSUME Next, ClearStatus PROVE TypeOK'
  <2>1. Expert
    BY <1>6a, <1>12 DEF ClearStatus, RequestNames
  <2> QED BY <1>1, <1>12, <2>1 DEF ClearStatus, TypeOK, States
<1>13. ASSUME Next, Abort PROVE TypeOK'
  <2>1. Expert
    BY <1>6a, <1>13 DEF Abort, RequestNames
  <2>2. offences' \subseteq AnomalyKinds
    BY <1>13, KindsListed, OffenceTyped DEF Abort, TypeOK
  <2>3. ended' \in Seq(Seq(Cells))
    BY <1>13 DEF Abort, TypeOK
  <2>4. downloaded' \in Seq(Cells)
    BY <1>13, EmptySeq DEF Abort
  <2>5. Others
    BY <1>13, <2>2, <2>3, <2>4 DEF Abort, TypeOK, States
  <2> QED BY <1>1, <1>13, <2>1, <2>5
<1>14. ASSUME Next, Upload PROVE TypeOK'
  <2>1. PICK block \in Blocks \cup {<<>>} : ProcessControlIn("UPLOAD", block)
    BY <1>14 DEF Upload
  <2>2. block \in Seq(Cells)
    BY DfuAssumption, EmptySeq
  <2>3. Expert
    BY <1>4, <2>1, <2>2 DEF RequestNames
  <2> QED BY <1>1, <1>14, <2>3 DEF Upload, TypeOK, States
<1>15. ASSUME Next, Strange PROVE TypeOK'
  <2>1. Expert
    BY <1>6a, <1>6b, <1>15 DEF Strange, RequestNames
  <2> QED BY <1>1, <1>15, <2>1, KindsListed DEF Strange, TypeOK, States
<1>16. ASSUME Next, Reset PROVE TypeOK'
  BY <1>1, <1>2, <1>16 DEF Reset, TypeOK, States
<1> QED BY <1>7, <1>8, <1>9, <1>10, <1>11, <1>12, <1>13, <1>14, <1>15, <1>16 DEF Next

\* Type correctness: in particular no extracted image is ever empty, with
\* whatever is lost of the transfers (the guards on m_currentImage in
\* processControlOut).
THEOREM DfuTypeCorrect == Spec => []TypeOK
BY DfuInit, DfuNext, PTL DEF Spec

-----------------------------------------------------------------------------
(* What the images and the anomalies say of the device.  Neither property  *)
(* is inductive by itself: the end and the abort of a download must find   *)
(* the expert's partial image empty or not as the device's is, also after  *)
(* an offence, when the two hold different cells.                          *)

\* The device has a part of a download in the two states of one, and no other.
DownloadInStates == device \in {"dfuDNLOAD-SYNC", "dfuDNLOAD-IDLE"} <=> downloaded # <<>>

\* Where nothing failed, a download that is over left no partial image.
NothingLeft == ~failed /\ downloaded = <<>> => currentImage = <<>>

DfuInv == DownloadInStates /\ NothingLeft /\ ImagesAreDownloads /\ AnomaliesAreOffences

LEMMA JoinedSet ==
    ASSUME NEW A, NEW s \in Seq(A), NEW t \in Seq(A)
    PROVE  s \o t \in Seq(A) /\ ToSet(s \o t) = ToSet(s) \cup ToSet(t)
<1> DEFINE c == s \o t
<1>1. /\ c \in Seq(A) /\ Len(c) = Len(s) + Len(t)
      /\ \A i \in 1..Len(s) : c[i] = s[i]
      /\ \A i \in 1..Len(t) : c[Len(s) + i] = t[i]
  OBVIOUS
<1>2. /\ Len(s) \in Nat /\ Len(t) \in Nat
      /\ DOMAIN s = 1..Len(s) /\ DOMAIN t = 1..Len(t) /\ DOMAIN c = 1..Len(c)
  <2> HIDE DEF c
  <2> QED BY <1>1
<1> HIDE DEF c
<1>3. ASSUME NEW x \in ToSet(c) PROVE x \in ToSet(s) \cup ToSet(t)
  <2>1. PICK i \in 1..Len(c) : x = c[i]
    BY <1>2 DEF ToSet
  <2>2. CASE i <= Len(s)
    <3>1. i \in DOMAIN s /\ x = s[i]
      BY <1>1, <1>2, <2>1, <2>2
    <3> QED BY <3>1 DEF ToSet
  <2>3. CASE ~(i <= Len(s))
    <3> DEFINE k == i - Len(s)
    <3>1. k \in 1..Len(t) /\ i = Len(s) + k
      BY <1>1, <1>2, <2>3
    <3> HIDE DEF k
    <3>2. x = t[k]
      BY <1>1, <2>1, <3>1
    <3> QED BY <1>2, <3>1, <3>2 DEF ToSet
  <2> QED BY <2>2, <2>3
<1>4. ASSUME NEW i \in 1..Len(s) PROVE s[i] \in ToSet(c)
  <2>1. i \in DOMAIN c /\ s[i] = c[i]
    BY <1>1, <1>2
  <2> QED BY <2>1 DEF ToSet
<1>5. ASSUME NEW i \in 1..Len(t) PROVE t[i] \in ToSet(c)
  <2>1. Len(s) + i \in DOMAIN c /\ t[i] = c[Len(s) + i]
    BY <1>1, <1>2
  <2> QED BY <2>1 DEF ToSet
<1>6. ToSet(s) \subseteq ToSet(c) /\ ToSet(t) \subseteq ToSet(c)
  BY <1>2, <1>4, <1>5 DEF ToSet
<1> QED BY <1>1, <1>3, <1>6 DEF c

LEMMA NotedSet ==
    ASSUME NEW condition, NEW kind
    PROVE  ToSet(Noted(condition, kind)) = Offence(condition, kind)
<1>1. ToSet(<<>>) = {} /\ ToSet(<<kind>>) = {kind}
  BY DEF ToSet
<1> QED BY <1>1, Zenon DEF Noted, Offence

\* The anomalies a request with an OUT data stage adds.
Added(request, wLength, data) ==
    Offence(Len(data) # wLength, "length")
    \cup Offence(request = "DNLOAD" /\ TooLarge(wLength), "oversize")
    \cup Offence(request = "ABORT" /\ currentImage # <<>>, "abort")
    \cup Offence(request \notin {"DNLOAD", "ABORT", "DETACH", "CLRSTATUS"}, "out")

\* The kinds of anomaly that a request adds.
LEMMA ControlOutAnomalies ==
    ASSUME TypeOK, NEW request, NEW wLength \in Nat, NEW data \in Seq(Cells),
           ProcessControlOut(request, wLength, data)
    PROVE  ToSet(anomalies)' = ToSet(anomalies) \cup Added(request, wLength, data)
<1> DEFINE a1 == Noted(Len(data) # wLength, "length")
           a2 == Noted(request = "DNLOAD" /\ TooLarge(wLength), "oversize")
           a3 == Noted(request = "ABORT" /\ currentImage # <<>>, "abort")
           a4 == Noted(request \notin {"DNLOAD", "ABORT", "DETACH", "CLRSTATUS"}, "out")
<1>1. /\ a1 \in Seq(AnomalyKinds) /\ a2 \in Seq(AnomalyKinds)
      /\ a3 \in Seq(AnomalyKinds) /\ a4 \in Seq(AnomalyKinds)
  BY NotedTyped, KindsListed, Zenon
<1>2. /\ ToSet(a1) = Offence(Len(data) # wLength, "length")
      /\ ToSet(a2) = Offence(request = "DNLOAD" /\ TooLarge(wLength), "oversize")
      /\ ToSet(a3) = Offence(request = "ABORT" /\ currentImage # <<>>, "abort")
      /\ ToSet(a4) = Offence(request \notin {"DNLOAD", "ABORT", "DETACH", "CLRSTATUS"}, "out")
  BY NotedSet, Zenon
<1>3. anomalies' = anomalies \o a1 \o a2 \o a3 \o a4 /\ anomalies \in Seq(AnomalyKinds)
  BY DEF ProcessControlOut, TypeOK
<1> HIDE DEF a1, a2, a3, a4
<1> DEFINE b1 == anomalies \o a1
           b2 == b1 \o a2
           b3 == b2 \o a3
<1>4. b1 \in Seq(AnomalyKinds) /\ ToSet(b1) = ToSet(anomalies) \cup ToSet(a1)
  BY <1>1, <1>3, JoinedSet
<1> HIDE DEF b1
<1>5. b2 \in Seq(AnomalyKinds) /\ ToSet(b2) = ToSet(b1) \cup ToSet(a2)
  BY <1>1, <1>4, JoinedSet
<1> HIDE DEF b2
<1>6. b3 \in Seq(AnomalyKinds) /\ ToSet(b3) = ToSet(b2) \cup ToSet(a3)
  BY <1>1, <1>5, JoinedSet
<1> HIDE DEF b3
<1>7. ToSet(b3 \o a4) = ToSet(b3) \cup ToSet(a4)
  BY <1>1, <1>6, JoinedSet
<1>8. ToSet(anomalies)' = ToSet(b3 \o a4)
  BY <1>3 DEF b1, b2, b3, ToSet
<1>9. Added(request, wLength, data) = ToSet(a1) \cup ToSet(a2) \cup ToSet(a3) \cup ToSet(a4)
  BY <1>2 DEF Added
<1> QED BY <1>4, <1>5, <1>6, <1>7, <1>8, <1>9

LEMMA ControlInAnomalies ==
    ASSUME TypeOK, NEW request, NEW reply, ProcessControlIn(request, reply)
    PROVE  ToSet(anomalies)' = ToSet(anomalies)
              \cup Offence(request \notin {"GETSTATUS", "GETSTATE", "UPLOAD"}, "in")
<1> DEFINE a1 == Noted(request \notin {"GETSTATUS", "GETSTATE", "UPLOAD"}, "in")
<1>1. a1 \in Seq(AnomalyKinds)
  BY NotedTyped, KindsListed, Zenon
<1>2. ToSet(a1) = Offence(request \notin {"GETSTATUS", "GETSTATE", "UPLOAD"}, "in")
  BY NotedSet, Zenon
<1>3. anomalies' = anomalies \o a1 /\ anomalies \in Seq(AnomalyKinds)
  BY DEF ProcessControlIn, TypeOK
<1> HIDE DEF a1
<1>4. ToSet(anomalies \o a1) = ToSet(anomalies) \cup ToSet(a1)
  BY <1>1, <1>3, JoinedSet
<1>5. ToSet(anomalies)' = ToSet(anomalies \o a1)
  BY <1>3 DEF ToSet
<1> QED BY <1>2, <1>4, <1>5, Zenon

\* A request without data whose kind the protocol has adds at most an abort.
LEMMA EmptyRequestAnomalies ==
    ASSUME TypeOK, NEW request \in {"DNLOAD", "ABORT", "CLRSTATUS"},
           ProcessControlOut(request, 0, <<>>)
    PROVE  ToSet(anomalies)' = ToSet(anomalies)
              \cup Offence(request = "ABORT" /\ currentImage # <<>>, "abort")
<1>1. ToSet(anomalies)' = ToSet(anomalies) \cup Added(request, 0, <<>>)
  BY ControlOutAnomalies, EmptySeq
<1>2. Added(request, 0, <<>>) = Offence(request = "ABORT" /\ currentImage # <<>>, "abort")
  BY DfuAssumption DEF Added, Offence, TooLarge
<1> QED BY <1>1, <1>2, Zenon

\* A step whose offences are all recorded.
LEMMA AllRecorded ==
    ASSUME AnomaliesAreOffences, NEW D,
           ToSet(anomalies)' = ToSet(anomalies) \cup D, offences' = offences \cup D,
           failed => failed'
    PROVE  AnomaliesAreOffences'
<1>1. CASE failed'
  BY <1>1 DEF AnomaliesAreOffences
<1>2. CASE ~failed'
  <2>1. /\ ToSet(anomalies) \subseteq offences
        /\ offences \subseteq ToSet(anomalies) \cup Offence("length" \in offences, "abort")
    BY <1>2 DEF AnomaliesAreOffences
  <2>2. Offence("length" \in offences, "abort") \subseteq Offence("length" \in offences', "abort")
    BY DEF Offence
  <2>3. /\ ToSet(anomalies)' \subseteq offences'
        /\ offences' \subseteq ToSet(anomalies)' \cup Offence("length" \in offences', "abort")
    BY <2>1, <2>2
  <2> QED BY <2>3 DEF AnomaliesAreOffences, Offence
<1> QED BY <1>1, <1>2

\* A step that leaves the images alone, and the download unless it failed.
LEMMA QuietStep ==
    ASSUME TypeOK, DfuInv,
           UNCHANGED <<images, currentImage, ended>>,
           failed => failed',
           downloaded' = downloaded \/ failed',
           offences \subseteq offences'
    PROVE  NothingLeft' /\ ImagesAreDownloads'
BY DEF DfuInv, NothingLeft, ImagesAreDownloads

LEMMA DfuInvInit == Init => DfuInv
<1> SUFFICES ASSUME Init PROVE DfuInv
  OBVIOUS
<1>1. ToSet(anomalies) = {}
  BY DEF Init, ToSet
<1> QED BY <1>1 DEF Init, DfuInv, DownloadInStates, NothingLeft, ImagesAreDownloads,
                    AnomaliesAreOffences

LEMMA DownloadKeepsInv == TypeOK /\ DfuInv /\ Download => DfuInv'
<1> SUFFICES ASSUME TypeOK, DfuInv, Download PROVE DfuInv'
  OBVIOUS
<1>1. PICK block \in Blocks : \E data \in Captured(block) :
          /\ ProcessControlOut("DNLOAD", Len(block), data)
          /\ downloaded' = downloaded \o block
          /\ captured' = captured \o data
          /\ offences' = offences \cup Offence(data # block, "length")
                  \cup Offence(TransferSize # 0 /\ Len(block) > TransferSize, "oversize")
  BY DEF Download
<1>2. PICK data \in Captured(block) :
          /\ ProcessControlOut("DNLOAD", Len(block), data)
          /\ downloaded' = downloaded \o block
          /\ captured' = captured \o data
          /\ offences' = offences \cup Offence(data # block, "length")
                  \cup Offence(TransferSize # 0 /\ Len(block) > TransferSize, "oversize")
  BY <1>1
<1>3. block \in Seq(Cells) /\ block # <<>> /\ Len(block) \in Nat /\ Len(block) # 0
  BY DfuAssumption
<1>4. data \in Seq(Cells) /\ (Len(data) = Len(block) <=> data = block)
  BY <1>3 DEF Captured
<1>5. currentImage' = currentImage \o data /\ images' = images
  BY <1>2, <1>3 DEF ProcessControlOut, AddBlock
<1>6. downloaded' # <<>>
  BY <1>2, <1>3 DEF TypeOK
<1>7. DownloadInStates' /\ NothingLeft'
  BY <1>6 DEF Download, DownloadInStates, NothingLeft
<1>8. ImagesAreDownloads'
  <2>1. "length" \notin offences' => "length" \notin offences /\ data = block
    BY <1>2 DEF Offence
  <2> QED BY <1>2, <1>5, <2>1 DEF Download, DfuInv, ImagesAreDownloads
<1>9. AnomaliesAreOffences'
  <2> DEFINE D == Offence(data # block, "length")
                  \cup Offence(TransferSize # 0 /\ Len(block) > TransferSize, "oversize")
  <2>1. ToSet(anomalies)' = ToSet(anomalies) \cup Added("DNLOAD", Len(block), data)
    BY <1>2, <1>3, <1>4, ControlOutAnomalies
  <2>2. Added("DNLOAD", Len(block), data) = D
    BY <1>4 DEF Added, Offence, TooLarge
  <2>3. offences' = offences \cup D
    BY <1>2
  <2> HIDE DEF D
  <2> QED BY <2>1, <2>2, <2>3, AllRecorded DEF Download, DfuInv
<1> QED BY <1>7, <1>8, <1>9 DEF DfuInv

LEMMA EndDownloadKeepsInv == TypeOK /\ DfuInv /\ EndDownload => DfuInv'
<1> SUFFICES ASSUME TypeOK, DfuInv, EndDownload PROVE DfuInv'
  OBVIOUS
<1>1. PushImage /\ downloaded # <<>>
  BY DEF EndDownload, ProcessControlOut, DfuInv, DownloadInStates
<1>2. DownloadInStates' /\ NothingLeft'
  BY <1>1 DEF EndDownload, PushImage, DownloadInStates, NothingLeft
<1>3. ImagesAreDownloads'
  BY <1>1 DEF EndDownload, PushImage, DfuInv, ImagesAreDownloads
<1>4. ToSet(anomalies)' = ToSet(anomalies) \cup {}
  BY EmptyRequestAnomalies DEF EndDownload, Offence
<1>5. AnomaliesAreOffences'
  BY <1>4, AllRecorded DEF EndDownload, DfuInv
<1> QED BY <1>2, <1>3, <1>5 DEF DfuInv

LEMMA AbortKeepsInv == TypeOK /\ DfuInv /\ Abort => DfuInv'
<1> SUFFICES ASSUME TypeOK, DfuInv, Abort PROVE DfuInv'
  OBVIOUS
<1>1. PushImage
  BY DEF Abort, ProcessControlOut
<1>2. DownloadInStates' /\ NothingLeft'
  BY <1>1 DEF Abort, PushImage, DownloadInStates, NothingLeft
<1>3. ImagesAreDownloads'
  <2> SUFFICES ASSUME ~failed', "length" \notin offences'
               PROVE  images' = ended' /\ currentImage' = downloaded'
    BY DEF ImagesAreDownloads
  <2>1. images = ended /\ currentImage = downloaded
    BY DEF Abort, DfuInv, ImagesAreDownloads
  <2> QED BY <1>1, <2>1 DEF Abort, PushImage
<1>4. ToSet(anomalies)' = ToSet(anomalies) \cup Offence(currentImage # <<>>, "abort")
  BY EmptyRequestAnomalies DEF Abort, Offence
<1>5. offences' = offences \cup Offence(downloaded # <<>>, "abort") /\ failed' = failed
  BY DEF Abort
<1>6. AnomaliesAreOffences'
  <2>1. CASE failed
    BY <1>5, <2>1 DEF AnomaliesAreOffences
  <2>2. CASE ~failed /\ (currentImage # <<>> <=> downloaded # <<>>)
    <3>1. ToSet(anomalies)' = ToSet(anomalies) \cup Offence(downloaded # <<>>, "abort")
      BY <1>4, <2>2 DEF Offence
    <3> QED BY <1>5, <3>1, AllRecorded DEF DfuInv
  <2>3. CASE ~failed /\ currentImage = <<>> /\ downloaded # <<>>
    <3>1. "length" \in offences
      BY <2>3 DEF DfuInv, ImagesAreDownloads
    <3>2. /\ ToSet(anomalies) \subseteq offences
          /\ offences \subseteq ToSet(anomalies) \cup {"abort"}
      BY <2>3, <3>1 DEF DfuInv, AnomaliesAreOffences, Offence
    <3>3. ToSet(anomalies)' = ToSet(anomalies) /\ offences' = offences \cup {"abort"}
      BY <1>4, <1>5, <2>3 DEF Offence
    <3>4. /\ ToSet(anomalies)' \subseteq offences' /\ "length" \in offences'
          /\ offences' \subseteq ToSet(anomalies)' \cup {"abort"}
      BY <3>1, <3>2, <3>3
    <3> QED BY <3>4 DEF AnomaliesAreOffences, Offence
  <2> QED BY <2>1, <2>2, <2>3 DEF DfuInv, NothingLeft
<1> QED BY <1>2, <1>3, <1>6 DEF DfuInv

LEMMA GetStatusKeepsInv == TypeOK /\ DfuInv /\ GetStatus => DfuInv'
<1> SUFFICES ASSUME TypeOK, DfuInv, GetStatus PROVE DfuInv'
  OBVIOUS
<1> DEFINE All == Reports \cup
          (IF "error" \in Faults /\ device = "dfuDNLOAD-SYNC"
           THEN {<<"dfuERROR", "dfuERROR">>} ELSE {})
<1>1. PICK report \in All :
          /\ \E reply : ProcessControlIn("GETSTATUS", reply)
          /\ device' = report[2]
          /\ downloaded' = IF report[2] = "dfuERROR" THEN <<>> ELSE downloaded
          /\ failed' = (failed \/ report[2] = "dfuERROR")
  BY DEF GetStatus
<1>2. /\ device = "dfuDNLOAD-SYNC" =>
            report[2] \in {"dfuDNLOAD-SYNC", "dfuDNLOAD-IDLE", "dfuERROR"}
      /\ device = "dfuDNLOAD-IDLE" => report[2] = "dfuDNLOAD-IDLE"
      /\ device \notin {"dfuDNLOAD-SYNC", "dfuDNLOAD-IDLE"} =>
            report[2] \notin {"dfuDNLOAD-SYNC", "dfuDNLOAD-IDLE"}
  BY DEF Reports
<1>3. DownloadInStates'
  BY <1>1, <1>2 DEF DfuInv, DownloadInStates
<1>4. UNCHANGED <<images, currentImage>>
  BY <1>1 DEF ProcessControlIn
<1>5. NothingLeft' /\ ImagesAreDownloads'
  BY <1>1, <1>4, QuietStep DEF GetStatus
<1>6. ToSet(anomalies)' = ToSet(anomalies) \cup {}
  BY <1>1, ControlInAnomalies DEF Offence
<1>7. AnomaliesAreOffences'
  BY <1>1, <1>6, AllRecorded DEF GetStatus, DfuInv
<1> QED BY <1>3, <1>5, <1>7 DEF DfuInv

\* The requests that are no part of a download.
LEMMA OthersKeepInv ==
    TypeOK /\ DfuInv /\ (GetState \/ ClearStatus \/ Upload) => DfuInv'
<1> SUFFICES ASSUME TypeOK, DfuInv, GetState \/ ClearStatus \/ Upload PROVE DfuInv'
  OBVIOUS
<1>1. /\ UNCHANGED <<images, currentImage, downloaded, ended, offences, failed>>
      /\ ToSet(anomalies)' = ToSet(anomalies) \cup {}
  <2>1. CASE GetState
    BY <2>1, ControlInAnomalies DEF GetState, ProcessControlIn, Offence
  <2>2. CASE ClearStatus
    <3>1. ToSet(anomalies)' = ToSet(anomalies) \cup {}
      BY <2>2, EmptyRequestAnomalies DEF ClearStatus, Offence
    <3>2. UNCHANGED <<images, currentImage>>
      BY <2>2 DEF ClearStatus, ProcessControlOut
    <3> QED BY <2>2, <3>1, <3>2 DEF ClearStatus
  <2>3. CASE Upload
    BY <2>3, ControlInAnomalies DEF Upload, ProcessControlIn, Offence
  <2> QED BY <2>1, <2>2, <2>3
<1>2. DownloadInStates'
  BY <1>1 DEF GetState, ClearStatus, Upload, DfuInv, DownloadInStates
<1>3. NothingLeft' /\ ImagesAreDownloads'
  BY <1>1, QuietStep
<1>4. AnomaliesAreOffences'
  BY <1>1, AllRecorded DEF DfuInv
<1> QED BY <1>2, <1>3, <1>4 DEF DfuInv

LEMMA StrangeKeepsInv == TypeOK /\ DfuInv /\ Strange => DfuInv'
<1> SUFFICES ASSUME TypeOK, DfuInv, Strange PROVE DfuInv'
  OBVIOUS
<1>0. UNCHANGED <<downloaded, ended, captured, failed>>
  BY DEF Strange
<1>1. ASSUME NEW kind, offences' = offences \cup {kind}, UNCHANGED <<device, images, currentImage>>,
             ToSet(anomalies)' = ToSet(anomalies) \cup {kind}
      PROVE  DfuInv'
  <2>1. NothingLeft' /\ ImagesAreDownloads'
    BY <1>0, <1>1, QuietStep
  <2>2. AnomaliesAreOffences'
    BY <1>0, <1>1, AllRecorded DEF DfuInv
  <2> QED BY <1>0, <1>1, <2>1, <2>2 DEF DfuInv, DownloadInStates
<1>2. CASE /\ ProcessControlOut("UNKNOWN", 0, <<>>)
           /\ offences' = offences \cup {"out"} /\ UNCHANGED device
  <2>1. ToSet(anomalies)' = ToSet(anomalies) \cup Added("UNKNOWN", 0, <<>>)
    BY <1>2, ControlOutAnomalies, EmptySeq
  <2>2. Added("UNKNOWN", 0, <<>>) = {"out"}
    BY DEF Added, Offence
  <2>3. UNCHANGED <<images, currentImage>>
    BY <1>2 DEF ProcessControlOut
  <2> QED BY <1>1, <1>2, <2>1, <2>2, <2>3
<1>3. CASE /\ ProcessControlIn("UNKNOWN", <<>>)
           /\ offences' = offences \cup {"in"} /\ UNCHANGED device
  <2>1. ToSet(anomalies)' = ToSet(anomalies) \cup {"in"}
    BY <1>3, ControlInAnomalies DEF Offence
  <2>2. UNCHANGED <<images, currentImage>>
    BY <1>3 DEF ProcessControlIn
  <2> QED BY <1>1, <1>3, <2>1, <2>2
<1>4. CASE /\ device = "dfuIDLE" /\ device' = "dfuERROR" /\ UNCHANGED offences
           /\ ProcessControlOut("DNLOAD", 0, <<>>)
  <2>1. PushImage /\ downloaded = <<>>
    BY <1>4 DEF ProcessControlOut, DfuInv, DownloadInStates
  <2>2. DownloadInStates' /\ NothingLeft' /\ ImagesAreDownloads'
    BY <1>0, <1>4, <2>1 DEF PushImage, DfuInv, DownloadInStates, NothingLeft, ImagesAreDownloads
  <2>3. ToSet(anomalies)' = ToSet(anomalies) \cup {}
    BY <1>4, EmptyRequestAnomalies DEF Offence
  <2>4. AnomaliesAreOffences'
    BY <1>0, <1>4, <2>3, AllRecorded DEF DfuInv
  <2> QED BY <2>2, <2>4 DEF DfuInv
<1> QED BY <1>2, <1>3, <1>4 DEF Strange

LEMMA DfuInvNext == TypeOK /\ DfuInv /\ [Next]_vars => DfuInv'
<1> SUFFICES ASSUME TypeOK, DfuInv, [Next]_vars PROVE DfuInv'
  OBVIOUS
<1>1. CASE UNCHANGED vars
  BY <1>1 DEF vars, expertVars, DfuInv, DownloadInStates, NothingLeft, ImagesAreDownloads,
              AnomaliesAreOffences, ToSet, Offence
<1>2. CASE Reset
  BY <1>2 DEF Reset, expertVars, DfuInv, DownloadInStates, NothingLeft, ImagesAreDownloads,
              AnomaliesAreOffences
<1> QED BY <1>1, <1>2, DownloadKeepsInv, EndDownloadKeepsInv, AbortKeepsInv,
           GetStatusKeepsInv, OthersKeepInv, StrangeKeepsInv DEF Next

\* The images are the downloads the device was given, one by one, an aborted one
\* as far as it came, and the partial one is the device's, as long as no download
\* fails or is captured in part; whatever the sizes of blocks, and whatever
\* requests come between that the protocol does not have or allow
\* (processControlOut).
THEOREM ImagesAreTheDevices == Spec => []ImagesAreDownloads
<1>1. DfuInv => ImagesAreDownloads
  BY DEF DfuInv
<1> QED BY <1>1, DfuInit, DfuNext, DfuInvInit, DfuInvNext, PTL DEF Spec

\* As long as no download fails, anomalies of a kind are recorded if and only if
\* the capture holds something anomalous of that kind: in particular the abort of
\* a download is recorded when the device had a part of it and the capture all of
\* that, and never when the device had none.
THEOREM AnomaliesRecorded == Spec => []AnomaliesAreOffences
<1>1. DfuInv => AnomaliesAreOffences
  BY DEF DfuInv
<1> QED BY <1>1, DfuInit, DfuNext, DfuInvInit, DfuInvNext, PTL DEF Spec
-----------------------------------------------------------------------------
(* Every captured byte of a download is in the images, once and in order.  *)

\* The captured images, with the partial one whether or not it is empty.
LEMMA ImagesJoined ==
    ASSUME NEW all \in Seq(Seq(Cells)), NEW last \in Seq(Cells)
    PROVE  FlattenSeq(all \o (IF last = <<>> THEN <<>> ELSE <<last>>))
               = FlattenSeq(Append(all, last))
<1>1. FlattenSeq(Append(all, last)) = FlattenSeq(all) \o last
  BY FlattenAppend
<1>2. FlattenSeq(all) \in Seq(Cells)
  BY FlattenTyped
<1>3. CASE last = <<>>
  <2>1. all \o <<>> = all
    OBVIOUS
  <2>2. FlattenSeq(all) \o last = FlattenSeq(all)
    BY <1>2, <1>3
  <2> QED BY <1>1, <1>3, <2>1, <2>2
<1>4. CASE last # <<>>
  <2>1. all \o <<last>> = Append(all, last)
    OBVIOUS
  <2> QED BY <1>4, <2>1
<1> QED BY <1>3, <1>4

LEMMA DfuBytesInit == Init => EveryByteKept
<1> SUFFICES ASSUME Init PROVE EveryByteKept
  OBVIOUS
<1>1. GetImages = <<>> /\ captured = <<>>
  BY DEF Init, GetImages
<1> QED BY <1>1 DEF EveryByteKept, FlattenSeq

\* Ending an image changes nothing of what the images hold together.
LEMMA PushKeepsBytes ==
    ASSUME TypeOK, EveryByteKept, PushImage, UNCHANGED captured
    PROVE  EveryByteKept'
<1>1. GetImages' = GetImages
  <2>1. CASE currentImage = <<>>
    BY <2>1 DEF PushImage, GetImages
  <2>2. CASE currentImage # <<>>
    <3>1. images' = Append(images, currentImage) /\ currentImage' = <<>>
      BY <2>2 DEF PushImage
    <3>2. /\ images \o <<currentImage>> = Append(images, currentImage)
          /\ Append(images, currentImage) \o <<>> = Append(images, currentImage)
      BY DEF TypeOK
    <3> QED BY <2>2, <3>1, <3>2 DEF GetImages
  <2> QED BY <2>1, <2>2
<1> QED BY <1>1 DEF EveryByteKept

LEMMA AddKeepsBytes ==
    ASSUME TypeOK, EveryByteKept, NEW data \in Seq(Cells), AddBlock(data),
           captured' = captured \o data
    PROVE  EveryByteKept'
<1>1. /\ images \in Seq(Seq(Cells)) /\ currentImage \in Seq(Cells)
      /\ currentImage \o data \in Seq(Cells)
  BY DEF TypeOK
<1>2. FlattenSeq(GetImages) = FlattenSeq(Append(images, currentImage))
  BY <1>1, ImagesJoined DEF GetImages
<1>3. FlattenSeq(GetImages)' = FlattenSeq(Append(images, currentImage \o data))
  BY <1>1, ImagesJoined DEF GetImages, AddBlock
<1>4. FlattenSeq(Append(images, currentImage \o data))
          = FlattenSeq(Append(images, currentImage)) \o data
  BY <1>1, FlattenLonger
<1> QED BY <1>2, <1>3, <1>4 DEF EveryByteKept

LEMMA DfuBytesNext == TypeOK /\ EveryByteKept /\ [Next]_vars => EveryByteKept'
<1> SUFFICES ASSUME TypeOK, EveryByteKept, [Next]_vars PROVE EveryByteKept'
  OBVIOUS
<1>1. ASSUME UNCHANGED <<images, currentImage, captured>> PROVE EveryByteKept'
  BY <1>1 DEF EveryByteKept, GetImages
<1>2. CASE Download
  <2>1. PICK block \in Blocks : \E data \in Captured(block) :
            ProcessControlOut("DNLOAD", Len(block), data) /\ captured' = captured \o data
    BY <1>2 DEF Download
  <2>2. PICK data \in Captured(block) :
            ProcessControlOut("DNLOAD", Len(block), data) /\ captured' = captured \o data
    BY <2>1
  <2>3. block \in Seq(Cells) /\ Len(block) # 0
    BY DfuAssumption
  <2>4. data \in Seq(Cells)
    BY <2>3 DEF Captured
  <2>5. AddBlock(data)
    BY <2>2, <2>3 DEF ProcessControlOut
  <2> QED BY <2>2, <2>4, <2>5, AddKeepsBytes
<1>3. CASE EndDownload \/ Abort
  <2>1. PushImage /\ UNCHANGED captured
    BY <1>3 DEF EndDownload, Abort, ProcessControlOut
  <2> QED BY <2>1, PushKeepsBytes
<1>4. CASE Strange
  <2>1. UNCHANGED captured /\ (PushImage \/ UNCHANGED <<images, currentImage>>)
    BY <1>4 DEF Strange, ProcessControlOut, ProcessControlIn
  <2> QED BY <1>1, <2>1, PushKeepsBytes
<1>5. CASE GetStatus \/ GetState \/ Upload
  BY <1>1, <1>5 DEF GetStatus, GetState, Upload, ProcessControlIn
<1>6. CASE ClearStatus
  BY <1>1, <1>6 DEF ClearStatus, ProcessControlOut
<1>7. CASE Reset \/ UNCHANGED vars
  BY <1>1, <1>7 DEF Reset, vars, expertVars
<1> QED BY <1>2, <1>3, <1>4, <1>5, <1>6, <1>7 DEF Next

\* Whatever fails, is given up, reset or captured in part: the images and the
\* partial one hold all download data of the capture, in order and once
\* (processControlOut, getImages).
THEOREM DownloadsKept == Spec => []EveryByteKept
BY DfuInit, DfuNext, DfuBytesInit, DfuBytesNext, PTL DEF Spec
=============================================================================
