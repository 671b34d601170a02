------------------------ MODULE RecoveryExpertProofs ------------------------
(***************************************************************************)
(* Proofs about RecoveryExpert, whatever texts and chunks a client sends   *)
(* and in whatever order: an open upload has its payload in the list,      *)
(* payloads are in capture order, and the uploads are the files that were  *)
(* sent, or where an announcement was left out, hold all their bytes.      *)
(***************************************************************************)
EXTENDS RecoveryExpert, SequenceLemmas

\* The strengthening the step needs: the list is typed, so that appending to
\* it and writing into it keep the kinds of what it holds.
UploadInv == TypeOK /\ OpenUploadHasPayload

HasUpload(list) == \E i \in DOMAIN list : list[i].kind = "Upload"

LEMMA UploadsOfPayloads == HasUpload(payloads) <=> Uploads # {}
BY DEF HasUpload, Uploads

LEMMA NewPayloadTyped ==
    ASSUME events \in Nat
    PROVE  \A kind \in {"Command", "Response", "Upload"}, text \in Texts :
             /\ NewPayload(kind, text, <<>>) \in Payload
             /\ NewPayload(kind, text, <<>>).kind = kind
BY DEF NewPayload, Payload

\* Pushing a payload keeps the uploads of the list, and may add one.
LEMMA PushKeepsUploads ==
    ASSUME NEW list \in Seq(Payload), NEW p \in Payload
    PROVE  /\ Append(list, p) \in Seq(Payload)
           /\ HasUpload(list) \/ p.kind = "Upload" => HasUpload(Append(list, p))
<1>1. Append(list, p) \in Seq(Payload)
  OBVIOUS
<1>2. ASSUME HasUpload(list) PROVE HasUpload(Append(list, p))
  BY <1>2 DEF HasUpload
<1>3. ASSUME p.kind = "Upload" PROVE HasUpload(Append(list, p))
  <2>1. Len(list) + 1 \in DOMAIN Append(list, p) /\ Append(list, p)[Len(list) + 1] = p
    OBVIOUS
  <2> QED BY <1>3, <2>1 DEF HasUpload
<1> QED BY <1>1, <1>2, <1>3

\* The insertion into the current upload changes no payload's kind.
LEMMA AddToUploadKeepsKinds ==
    ASSUME NEW list \in Seq(Payload), NEW chunk \in Chunks, events \in Nat
    PROVE  /\ AddToUpload(list, chunk) \in Seq(Payload)
           /\ HasUpload(list) => HasUpload(AddToUpload(list, chunk))
<1> DEFINE n == CHOOSE i \in DOMAIN list :
                    /\ list[i].kind = "Upload"
                    /\ \A j \in DOMAIN list : list[j].kind = "Upload" => j <= i
           added == AddToUpload(list, chunk)
<1>1. added = [list EXCEPT ![n] = Longer(@, chunk)]
  BY DEF AddToUpload
<1>2. ASSUME NEW i \in DOMAIN list
      PROVE  Longer(list[i], chunk) \in Payload /\ Longer(list[i], chunk).kind = list[i].kind
  <2>1. list[i] \in Payload
    OBVIOUS
  <2>2. Append(list[i].data, chunk) \in Seq(Chunks)
    BY <2>1 DEF Payload
  <2> DEFINE added1 == [list[i] EXCEPT !.data = Append(list[i].data, chunk)]
  <2>3. added1 \in Payload /\ added1.kind = list[i].kind
    BY <2>1, <2>2 DEF Payload
  <2>4. Longer(list[i], chunk) = [added1 EXCEPT !.last = events + 1]
    BY Zenon DEF Longer
  <2> HIDE DEF added1
  <2> QED BY <2>3, <2>4, events + 1 \in Nat DEF Payload
<1> HIDE DEF n, added
<1>3. /\ DOMAIN added = DOMAIN list
      /\ \A i \in DOMAIN list : added[i] \in Payload /\ added[i].kind = list[i].kind
  BY <1>1, <1>2
<1>4. added \in Seq(Payload)
  <2>1. added = [i \in DOMAIN list |-> added[i]]
    BY <1>1
  <2> QED BY <1>3, <2>1, Len(list) \in Nat, DOMAIN list = 1..Len(list)
<1> QED BY <1>3, <1>4 DEF HasUpload, added

-----------------------------------------------------------------------------
LEMMA UploadInit == Init => UploadInv
<1> SUFFICES ASSUME Init PROVE UploadInv
  OBVIOUS
<1>1. files \in Seq(Seq(Chunks))
  <2>1. <<>> \in Seq(Chunks)
    OBVIOUS
  <2>2. << <<>> >> \in Seq(Seq(Chunks)) /\ <<>> \in Seq(Seq(Chunks))
    BY <2>1
  <2> QED BY <2>2 DEF Init
<1>2. payloads \in Seq(Payload) /\ console \in Seq(Cells)
  BY EmptySeq DEF Init
<1>3. uploadOpen \in BOOLEAN /\ skipped \in BOOLEAN /\ events \in Nat /\ client \in {"idle", "announced", "sending"}
  BY DEF Init
<1>4. uploadOpen = FALSE
  BY DEF Init
<1> QED BY <1>1, <1>2, <1>3, <1>4 DEF UploadInv, TypeOK, OpenUploadHasPayload

LEMMA UploadNext == UploadInv /\ [Next]_vars => UploadInv'
<1> SUFFICES ASSUME UploadInv, [Next]_vars PROVE UploadInv'
  OBVIOUS
<1>0. TypeOK /\ (uploadOpen => HasUpload(payloads))
  BY UploadsOfPayloads DEF UploadInv, OpenUploadHasPayload
<1> DEFINE Good == /\ payloads' \in Seq(Payload)
                   /\ uploadOpen' \in BOOLEAN
                   /\ console' \in Seq(Cells)
                   /\ uploadOpen' => HasUpload(payloads')
           Talks == /\ client' \in {"idle", "announced", "sending"}
                    /\ files' \in Seq(Seq(Chunks))
                    /\ skipped' \in BOOLEAN
<1>1. ASSUME Good, Talks, events' \in Nat PROVE UploadInv'
  BY <1>1 DEF UploadInv, TypeOK, OpenUploadHasPayload, HasUpload, Uploads
<1> HIDE DEF Good, Talks
<1>2. ASSUME Next, NEW data \in DataStage, CommandOut(data) \/ ResponseIn(data) PROVE Good
  <2>1. CASE data = <<>>
    BY <1>0, <1>2, <2>1 DEF Good, TypeOK, CommandOut, ResponseIn
  <2>2. CASE data # <<>>
    <3>1. data[1] \in Texts
      BY <2>2 DEF DataStage
    <3>2. PICK kind \in {"Command", "Response"} :
             payloads' = Append(payloads, NewPayload(kind, data[1], <<>>))
      BY <1>2, <2>2 DEF CommandOut, ResponseIn
    <3>3. NewPayload(kind, data[1], <<>>) \in Payload
      BY <1>0, <3>1, NewPayloadTyped DEF TypeOK
    <3> QED BY <1>0, <1>2, <3>2, <3>3, PushKeepsUploads DEF Good, TypeOK, CommandOut, ResponseIn
  <2> QED BY <2>1, <2>2
<1>3. ASSUME AnnounceOut PROVE Good
  <2>1. /\ NewPayload("Upload", "", <<>>) \in Payload
        /\ NewPayload("Upload", "", <<>>).kind = "Upload"
    BY <1>0, NewPayloadTyped, RecoveryAssumption DEF TypeOK
  <2> QED BY <1>0, <1>3, <2>1, PushKeepsUploads DEF Good, TypeOK, AnnounceOut
<1>4. ASSUME NEW chunk \in Chunks, BulkOut(chunk) PROVE Good
  <2>1. CASE chunk = <<>>
    BY <1>0, <1>4, <2>1 DEF Good, TypeOK, BulkOut
  <2>2. CASE chunk # <<>>
    <3>1. Opened \in Seq(Payload) /\ HasUpload(Opened)
      <4>1. /\ NewPayload("Upload", "", <<>>) \in Payload
            /\ NewPayload("Upload", "", <<>>).kind = "Upload"
        BY <1>0, NewPayloadTyped, RecoveryAssumption DEF TypeOK
      <4> QED BY <1>0, <4>1, PushKeepsUploads DEF TypeOK, Opened
    <3> QED BY <1>0, <1>4, <2>2, <3>1, AddToUploadKeepsKinds DEF Good, TypeOK, BulkOut
  <2> QED BY <2>1, <2>2
<1>5. ASSUME NEW chunk \in Chunks, BulkIn(chunk) PROVE Good
  <2>1. chunk \in Seq(Cells)
    BY RecoveryAssumption
  <2> QED BY <1>0, <1>5, <2>1 DEF Good, TypeOK, BulkIn
<1>6. CASE UNCHANGED vars
  BY <1>6 DEF UploadInv, vars, TypeOK, OpenUploadHasPayload, Uploads
<1>7. CASE Next /\ Talk
  <2>1. Good
    BY <1>2, <1>5, <1>7 DEF Talk
  <2> QED BY <1>0, <1>1, <1>7, <2>1 DEF Talks, Talk, Next, TypeOK
<1>8. CASE Next /\ Announce
  <2>1. Good
    BY <1>3, <1>8 DEF Announce
  <2> QED BY <1>0, <1>1, <1>8, <2>1 DEF Talks, Announce, Next, TypeOK
<1>9. CASE Next /\ SendChunk
  <2>1. PICK chunk \in Chunks :
            /\ BulkOut(chunk)
            /\ LET sent == IF chunk = <<>> THEN <<>> ELSE <<chunk>> IN
               \/ /\ client \in {"announced", "sending"}
                  /\ files' = [files EXCEPT ![Len(files)] = @ \o sent]
                  /\ UNCHANGED skipped
               \/ /\ client = "idle" /\ SkipsAnnouncement
                  /\ files' = Append(files, sent)
                  /\ skipped' = TRUE
    BY <1>9 DEF SendChunk
  <2>2. Good
    BY <1>4, <2>1
  <2> DEFINE sent == IF chunk = <<>> THEN <<>> ELSE <<chunk>>
  <2>3. sent \in Seq(Chunks)
    OBVIOUS
  <2> HIDE DEF sent
  <2>4. files' \in Seq(Seq(Chunks))
    <3>1. CASE files' = Append(files, sent)
      BY <1>0, <2>3, <3>1 DEF TypeOK
    <3>2. CASE files' = [files EXCEPT ![Len(files)] = @ \o sent]
      <4>1. \A f \in Seq(Chunks) : f \o sent \in Seq(Chunks)
        BY <2>3
      <4>2. files \in Seq(Seq(Chunks))
        BY <1>0 DEF TypeOK
      <4>3. files' = [i \in DOMAIN files |-> IF i = Len(files) THEN files[i] \o sent ELSE files[i]]
        BY <3>2
      <4>4. \A i \in DOMAIN files : files'[i] \in Seq(Chunks)
        BY <4>1, <4>2, <4>3
      <4> QED BY <4>2, <4>3, <4>4, Len(files) \in Nat, DOMAIN files = 1..Len(files)
    <3> QED BY <2>1, <3>1, <3>2 DEF sent
  <2>5. skipped' \in BOOLEAN
    BY <1>0, <2>1 DEF TypeOK
  <2> QED BY <1>0, <1>1, <1>9, <2>2, <2>4, <2>5 DEF Talks, SendChunk, Next, TypeOK
<1>10. CASE Next /\ EndOfFile
  <2>1. Good
    BY <1>0, <1>10 DEF Good, EndOfFile, expertVars, TypeOK
  <2> QED BY <1>0, <1>1, <1>10, <2>1 DEF Talks, EndOfFile, expertVars, Next, TypeOK
<1> QED BY <1>6, <1>7, <1>8, <1>9, <1>10 DEF Next

\* The list, the flag and the console keep their types: no
\* step takes a payload's kind, text or data out of their ranges.
THEOREM RecoveryTypeCorrect == Spec => []TypeOK
<1>1. UploadInv => TypeOK
  BY DEF UploadInv
<1> QED BY UploadInit, UploadNext, <1>1, PTL DEF Spec

\* The fall through at the end of currentUpload is dead code: once an upload
\* is open, the list has one (currentUpload, "an open upload always has a
\* payload").
THEOREM OpenUploadIsListed == Spec => []OpenUploadHasPayload
<1>1. UploadInv => OpenUploadHasPayload
  BY DEF UploadInv
<1> QED BY UploadInit, UploadNext, <1>1, PTL DEF Spec
-----------------------------------------------------------------------------
(* Sequences without their empty elements.                                 *)

Unit(x) == IF x = <<>> THEN <<>> ELSE <<x>>

LEMMA NonEmptyAppend ==
    ASSUME NEW A, NEW s \in Seq(Seq(A)), NEW x \in Seq(A)
    PROVE  /\ NonEmpty(s) \in Seq(Seq(A))
           /\ NonEmpty(Append(s, x)) = NonEmpty(s) \o Unit(x)
<1> DEFINE B == Seq(A)
           units == [i \in DOMAIN s |-> IF s[i] = <<>> THEN <<>> ELSE <<s[i]>>]
           t == Append(s, x)
<1>1. /\ s \in Seq(B) /\ x \in B /\ t \in Seq(B) /\ Len(s) \in Nat
      /\ Len(t) = Len(s) + 1 /\ t[Len(s) + 1] = x
      /\ \A i \in DOMAIN s : t[i] = s[i]
  <2>1. s \in Seq(B) /\ x \in B
    OBVIOUS
  <2> HIDE DEF B
  <2> QED BY <2>1
<1>2. Unit(x) \in Seq(B)
  BY <1>1 DEF Unit
<1>3. units \in Seq(Seq(B))
  <2>1. ASSUME NEW i \in 1..Len(s) PROVE units[i] \in Seq(B)
    <3>1. s[i] \in B
      BY <1>1
    <3> HIDE DEF B
    <3> QED BY <3>1
  <2>2. Len(s) \in Nat /\ units = [i \in 1..Len(s) |-> units[i]]
    BY <1>1
  <2> DEFINE C == Seq(B)
  <2> HIDE DEF units, C, B
  <2>3. \A i \in 1..Len(s) : units[i] \in C
    BY <2>1 DEF C
  <2> QED BY <2>2, <2>3 DEF C
<1>4. [i \in DOMAIN t |-> IF t[i] = <<>> THEN <<>> ELSE <<t[i]>>] = Append(units, Unit(x))
  <2> DEFINE u == Unit(x)
             left == [i \in DOMAIN t |-> IF t[i] = <<>> THEN <<>> ELSE <<t[i]>>]
  <2>1. DOMAIN left = 1..Len(s) + 1 /\ DOMAIN Append(units, u) = 1..Len(s) + 1
    BY <1>1, <1>3
  <2>2. left[Len(s) + 1] = u /\ Append(units, u)[Len(s) + 1] = u
    BY <1>1, <1>3 DEF Unit
  <2>3. ASSUME NEW i \in 1..Len(s) PROVE left[i] = Append(units, u)[i]
    BY <1>1, <1>3
  <2>4. \A i \in 1..Len(s) + 1 : left[i] = Append(units, u)[i]
    BY <1>1, <2>2, <2>3
  <2>5. left = [i \in 1..Len(s) + 1 |-> left[i]]
    BY <2>1
  <2>6. Append(units, u) = [i \in 1..Len(s) + 1 |-> Append(units, u)[i]]
    BY <1>1, <1>3
  <2> HIDE DEF left, u
  <2> QED BY <2>4, <2>5, <2>6 DEF left, u
<1>5. NonEmpty(s) = FlattenSeq(units) /\ NonEmpty(t) = FlattenSeq(Append(units, Unit(x)))
  BY <1>4 DEF NonEmpty
<1> HIDE DEF units, B
<1>6. FlattenSeq(units) \in Seq(B)
  BY <1>3, FlattenTyped
<1>7. FlattenSeq(Append(units, Unit(x))) = FlattenSeq(units) \o Unit(x)
  BY <1>2, <1>3, FlattenAppend
<1> QED BY <1>5, <1>6, <1>7 DEF B

\* Leaving empty sequences out changes nothing of what is joined.
LEMMA FlattenNonEmpty ==
    ASSUME NEW A, NEW s \in Seq(Seq(A))
    PROVE  FlattenSeq(NonEmpty(s)) = FlattenSeq(s)
<1> DEFINE B == Seq(A)
           S == {n \in Nat : \A t \in Seq(B) : Len(t) = n =>
                                 FlattenSeq(NonEmpty(t)) = FlattenSeq(t)}
<1>1. 0 \in S
  <2> SUFFICES ASSUME NEW t \in Seq(B), Len(t) = 0
               PROVE  FlattenSeq(NonEmpty(t)) = FlattenSeq(t)
    OBVIOUS
  <2>1. t = <<>>
    OBVIOUS
  <2>2. NonEmpty(t) = <<>>
    BY <2>1 DEF NonEmpty, FlattenSeq
  <2> QED BY <2>1, <2>2
<1>2. ASSUME NEW n \in S PROVE n + 1 \in S
  <2> SUFFICES ASSUME NEW t \in Seq(B), Len(t) = n + 1
               PROVE  FlattenSeq(NonEmpty(t)) = FlattenSeq(t)
    OBVIOUS
  <2>1. t # <<>> /\ n \in Nat
    OBVIOUS
  <2>2. PICK front \in Seq(B) :
            /\ Len(t) \in Nat \ {0} /\ t[Len(t)] \in B
            /\ Len(front) = Len(t) - 1 /\ t = Append(front, t[Len(t)])
    <3>1. \E front \in Seq(B) : IsFrontOf(front, t, B)
      <4> HIDE DEF B
      <4> QED BY <2>1, FrontAndLast
    <3> QED BY <3>1 DEF IsFrontOf
  <2> DEFINE x == t[Len(t)]
  <2>3. FlattenSeq(NonEmpty(front)) = FlattenSeq(front)
    BY <2>1, <2>2
  <2>4. x \in Seq(A) /\ t = Append(front, x)
    BY <2>2
  <2> HIDE DEF x
  <2>5. NonEmpty(front) \in Seq(Seq(A)) /\ NonEmpty(t) = NonEmpty(front) \o Unit(x)
    BY <2>4, NonEmptyAppend
  <2>6. FlattenSeq(t) = FlattenSeq(front) \o x
    BY <2>4, FlattenAppend
  <2>7. CASE x = <<>>
    <3>1. NonEmpty(t) = NonEmpty(front)
      BY <2>5, <2>7 DEF Unit
    <3>2. FlattenSeq(front) \in Seq(A)
      BY FlattenTyped
    <3>3. FlattenSeq(front) \o x = FlattenSeq(front)
      BY <2>7, <3>2
    <3> QED BY <2>3, <2>6, <3>1, <3>3
  <2>8. CASE x # <<>>
    <3>1. NonEmpty(t) = Append(NonEmpty(front), x)
      BY <2>4, <2>5, <2>8 DEF Unit
    <3>2. FlattenSeq(NonEmpty(t)) = FlattenSeq(NonEmpty(front)) \o x
      BY <2>4, <2>5, <3>1, FlattenAppend
    <3> QED BY <2>3, <2>6, <3>2
  <2> QED BY <2>7, <2>8
<1>3. S = Nat
  <2> HIDE DEF S
  <2>1. S \in SUBSET Nat
    BY DEF S
  <2> QED BY <1>1, <1>2, <2>1, SetOfNaturals
<1>4. Len(s) \in Nat /\ s \in Seq(B)
  OBVIOUS
<1> QED BY <1>3, <1>4

\* Two sequences that are the same but for empty elements, and end in the same
\* element, stay so when that element is changed in both.
LEMMA SameWithoutEmpty ==
    ASSUME NEW A, NEW a \in Seq(Seq(A)), NEW b \in Seq(Seq(A)),
           NEW x \in Seq(A), NEW y \in Seq(A),
           NonEmpty(Append(a, x)) = NonEmpty(Append(b, x))
    PROVE  NonEmpty(Append(a, y)) = NonEmpty(Append(b, y))
<1> DEFINE B == Seq(A)
           m == NonEmpty(a)
           n == NonEmpty(b)
<1>1. m \in Seq(B) /\ n \in Seq(B) /\ x \in B /\ y \in B
  BY NonEmptyAppend
<1>2. m \o Unit(x) = n \o Unit(x)
  <2>1. NonEmpty(Append(a, x)) = m \o Unit(x)
    BY NonEmptyAppend
  <2>2. NonEmpty(Append(b, x)) = n \o Unit(x)
    BY NonEmptyAppend
  <2> HIDE DEF m, n
  <2> QED BY <2>1, <2>2
<1>3. NonEmpty(Append(a, y)) = m \o Unit(y) /\ NonEmpty(Append(b, y)) = n \o Unit(y)
  BY NonEmptyAppend
<1> HIDE DEF m, n, B
<1>4. m = n
  <2>1. CASE x = <<>>
    BY <1>1, <1>2, <2>1 DEF Unit
  <2>2. CASE x # <<>>
    <3>1. m \o <<x>> = Append(m, x) /\ n \o <<x>> = Append(n, x)
      BY <1>1
    <3>2. Append(m, x) = Append(n, x)
      BY <1>2, <2>2, <3>1 DEF Unit
    <3> QED BY <1>1, <3>2, AppendInjective
  <2> QED BY <2>1, <2>2
<1> QED BY <1>3, <1>4
-----------------------------------------------------------------------------
(* What is extracted.  The properties say nothing of the payload that the  *)
(* current file goes to; the strengthening does: inside an announced file  *)
(* it is the last of the list, and holds what was sent of the file.        *)

DataIn(list) ==
    [i \in DOMAIN list |-> IF list[i].kind = "Upload" THEN list[i].data ELSE <<>>]

\* Payloads begin before they end, and none ends in the future.
Timed(list, now) ==
    \A i \in DOMAIN list : list[i].first <= list[i].last /\ list[i].last <= now

InOrder(list) ==
    \A i, j \in DOMAIN list : i < j => list[i].last < list[j].first

EndsWith(list, chunks) ==
    list # <<>> /\ list[Len(list)].kind = "Upload" /\ list[Len(list)].data = chunks

FileIsLast ==
    client # "idle" =>
        /\ files # <<>>
        /\ ~skipped => IF uploadOpen THEN EndsWith(payloads, files[Len(files)])
                       ELSE payloads = <<>> /\ files[Len(files)] = <<>>

ExtractInv ==
    /\ Timed(payloads, events) /\ FileIsLast
    /\ PayloadsInCaptureOrder /\ UploadsAreFiles /\ EveryByteKept

LEMMA UploadDataIs == UploadData = NonEmpty(DataIn(payloads))
BY DEF UploadData, DataIn

LEMMA DataInTyped ==
    ASSUME NEW list \in Seq(Payload)
    PROVE  DataIn(list) \in Seq(Seq(Chunks)) /\ Len(DataIn(list)) = Len(list)
<1>1. ASSUME NEW i \in 1..Len(list) PROVE DataIn(list)[i] \in Seq(Chunks)
  <2>1. list[i].data \in Seq(Chunks) /\ <<>> \in Seq(Chunks)
    <3>1. list[i] \in Payload
      OBVIOUS
    <3> QED BY <3>1, EmptySeq DEF Payload
  <2> QED BY <2>1 DEF DataIn
<1>2. DataIn(list) = [i \in 1..Len(list) |-> DataIn(list)[i]]
  BY DEF DataIn
<1> QED BY <1>1, <1>2, Len(list) \in Nat

\* A pushed payload adds its data, if it is an upload.
LEMMA DataInAppend ==
    ASSUME NEW list \in Seq(Payload), NEW p \in Payload
    PROVE  DataIn(Append(list, p))
               = Append(DataIn(list), IF p.kind = "Upload" THEN p.data ELSE <<>>)
<1> DEFINE x == IF p.kind = "Upload" THEN p.data ELSE <<>>
           longer == Append(list, p)
<1>1. /\ Len(list) \in Nat /\ DOMAIN longer = 1..Len(list) + 1
      /\ longer[Len(list) + 1] = p /\ \A i \in 1..Len(list) : longer[i] = list[i]
  OBVIOUS
<1>2. DataIn(longer) = [i \in 1..Len(list) + 1 |-> IF i = Len(list) + 1 THEN x ELSE DataIn(list)[i]]
  <2> HIDE DEF longer
  <2> QED BY <1>1 DEF DataIn
<1>3. Append(DataIn(list), x)
          = [i \in 1..Len(list) + 1 |-> IF i = Len(list) + 1 THEN x ELSE DataIn(list)[i]]
  <2> DEFINE d == DataIn(list)
             C == Seq(Chunks)
  <2>1. d \in Seq(C) /\ Len(d) = Len(list)
    BY DataInTyped
  <2>2. x \in C
    BY EmptySeq DEF Payload
  <2> HIDE DEF x, d, C
  <2>3. Append(d, x) = [i \in 1..Len(d) + 1 |-> IF i = Len(d) + 1 THEN x ELSE d[i]]
    <3>1. Append(d, x) = [i \in 1..Len(d) + 1 |-> Append(d, x)[i]]
      <4> DEFINE a == Append(d, x)
      <4>1. a \in Seq(C) /\ Len(a) = Len(d) + 1
        BY <2>1, <2>2, AppendProperties
      <4> HIDE DEF a
      <4>2. a \in [1..Len(a) -> C]
        BY <4>1, LenProperties
      <4>3. a \in [1..Len(d) + 1 -> C]
        BY <4>1, <4>2, Zenon
      <4> QED BY <4>3 DEF a
    <3>2. \A i \in 1..Len(d) + 1 : Append(d, x)[i] = IF i = Len(d) + 1 THEN x ELSE d[i]
      BY <2>1, <2>2
    <3> QED BY <3>1, <3>2
  <2> QED BY <2>1, <2>3 DEF d
<1> QED BY <1>2, <1>3

\* A chunk in payload n of the list.
Inserted(list, n, chunk) == [list EXCEPT ![n] = Longer(list[n], chunk)]

NoUploadAfter(list, n) == \A j \in n + 1..Len(list) : list[j].kind # "Upload"

\* AddToUpload adds to the last upload of the list.
LEMMA AddToUploadAt ==
    ASSUME NEW list \in Seq(Payload), NEW chunk, HasUpload(list)
    PROVE  \E n \in 1..Len(list) :
              /\ list[n].kind = "Upload"
              /\ NoUploadAfter(list, n)
              /\ AddToUpload(list, chunk) = Inserted(list, n, chunk)
<1> DEFINE P(i) == /\ list[i].kind = "Upload"
                   /\ \A j \in DOMAIN list : list[j].kind = "Upload" => j <= i
           S == {i \in 1..Len(list) : list[i].kind = "Upload"}
           n == CHOOSE i \in DOMAIN list : P(i)
<1>1. Len(list) \in Nat /\ DOMAIN list = 1..Len(list)
  OBVIOUS
<1>2. S \in SUBSET (1..Len(list)) /\ S # {}
  BY DEF HasUpload
<1>3. \E i \in S : \A j \in S : j <= i
  <2> HIDE DEF S
  <2> QED BY <1>1, <1>2, LargestIndex
<1>4. \E i \in DOMAIN list : P(i)
  BY <1>1, <1>3
<1>5. n \in DOMAIN list /\ P(n)
  <2> HIDE DEF P
  <2> QED BY <1>4
<1>6. AddToUpload(list, chunk) = Inserted(list, n, chunk)
  <2>1. AddToUpload(list, chunk) = [list EXCEPT ![n] = Longer(@, chunk)]
    BY DEF AddToUpload
  <2> HIDE DEF n
  <2> QED BY <2>1 DEF Inserted
<1> HIDE DEF n
<1>7. NoUploadAfter(list, n)
  BY <1>1, <1>5 DEF NoUploadAfter
<1> QED BY <1>1, <1>5, <1>6, <1>7

\* What Longer changes of a payload, and what not.
LEMMA LongerIs ==
    ASSUME NEW p \in Payload, NEW chunk \in Chunks, events \in Nat
    PROVE  /\ Longer(p, chunk) \in Payload
           /\ Longer(p, chunk).kind = p.kind
           /\ Longer(p, chunk).first = p.first
           /\ Longer(p, chunk).last = events + 1
           /\ Longer(p, chunk).data = p.data \o <<chunk>>
<1> DEFINE data == Append(p.data, chunk)
           p1 == [p EXCEPT !.data = data]
<1>1. data \in Seq(Chunks) /\ data = p.data \o <<chunk>>
  BY DEF Payload
<1>2. Longer(p, chunk) = [p1 EXCEPT !.last = events + 1]
  BY Zenon DEF Longer
<1> HIDE DEF data
<1>3. /\ p1 \in Payload /\ p1.kind = p.kind /\ p1.first = p.first /\ p1.data = data
  BY <1>1 DEF Payload
<1> HIDE DEF p1
<1> QED BY <1>1, <1>2, <1>3, events + 1 \in Nat DEF Payload

\* The data after a chunk went to payload n.
LEMMA DataInLonger ==
    ASSUME NEW list \in Seq(Payload), NEW n \in 1..Len(list), NEW chunk \in Chunks,
           events \in Nat, list[n].kind = "Upload"
    PROVE  DataIn(Inserted(list, n, chunk)) = AddedAt(DataIn(list), n, <<chunk>>)
<1> DEFINE q == Longer(list[n], chunk)
           longer == Inserted(list, n, chunk)
<1>1. q.kind = "Upload" /\ q.data = list[n].data \o <<chunk>>
  BY LongerIs
<1> HIDE DEF q
<1>2. /\ DOMAIN longer = DOMAIN list /\ longer[n] = q
      /\ \A i \in DOMAIN list : i # n => longer[i] = list[i]
  BY DEF Inserted, q
<1> HIDE DEF longer
<1>3. DataIn(longer) = [i \in DOMAIN list |-> IF i = n THEN list[n].data \o <<chunk>>
                                              ELSE DataIn(list)[i]]
  BY <1>1, <1>2 DEF DataIn
<1>4. /\ DOMAIN DataIn(list) = DOMAIN list
      /\ DataIn(list)[n] = list[n].data
  BY DEF DataIn
<1>5. AddedAt(DataIn(list), n, <<chunk>>)
          = [i \in DOMAIN list |-> IF i = n THEN list[n].data \o <<chunk>>
                                   ELSE DataIn(list)[i]]
  BY <1>4 DEF AddedAt
<1> QED BY <1>3, <1>5 DEF longer

-----------------------------------------------------------------------------
\* A payload pushed now, without data, leaves everything as it is.
LEMMA PushIs ==
    ASSUME UploadInv, ExtractInv, NEW kind \in {"Command", "Response", "Upload"},
           NEW text \in Texts
    PROVE  LET longer == Append(payloads, NewPayload(kind, text, <<>>)) IN
           /\ longer \in Seq(Payload)
           /\ longer[Len(longer)] = NewPayload(kind, text, <<>>)
           /\ Timed(longer, events + 1)
           /\ ~skipped => InOrder(longer)
           /\ NonEmpty(DataIn(longer)) = UploadData
<1> DEFINE p == NewPayload(kind, text, <<>>)
           longer == Append(payloads, p)
<1>1. /\ p \in Payload /\ p.first = events + 1 /\ p.last = events + 1 /\ p.data = <<>>
      /\ payloads \in Seq(Payload) /\ events \in Nat
  <2>1. payloads \in Seq(Payload) /\ events \in Nat
    BY DEF UploadInv, TypeOK
  <2> QED BY <2>1, NewPayloadTyped DEF NewPayload
<1> HIDE DEF p
<1>2. /\ longer \in Seq(Payload) /\ Len(payloads) \in Nat /\ Len(longer) = Len(payloads) + 1
      /\ longer[Len(payloads) + 1] = p
      /\ DOMAIN longer = 1..Len(payloads) + 1 /\ DOMAIN payloads = 1..Len(payloads)
      /\ \A i \in 1..Len(payloads) : longer[i] = payloads[i]
  BY <1>1
<1>3. \A i \in 1..Len(payloads) : payloads[i].first \in Nat /\ payloads[i].last \in Nat
  <2>1. \A i \in 1..Len(payloads) : payloads[i] \in Payload
    BY <1>1
  <2> QED BY <2>1 DEF Payload
<1>4. NonEmpty(DataIn(longer)) = UploadData
  <2>1. DataIn(longer) = Append(DataIn(payloads), <<>>)
    BY <1>1, DataInAppend
  <2>2. DataIn(payloads) \in Seq(Seq(Chunks)) /\ <<>> \in Seq(Chunks)
    BY <1>1, DataInTyped, EmptySeq
  <2> DEFINE d == DataIn(payloads)
  <2> HIDE DEF d
  <2>3. NonEmpty(Append(d, <<>>)) = NonEmpty(d) \o Unit(<<>>) /\ NonEmpty(d) \in Seq(Seq(Chunks))
    BY <2>2, NonEmptyAppend DEF d
  <2>4. NonEmpty(Append(d, <<>>)) = NonEmpty(d)
    BY <2>3 DEF Unit
  <2> QED BY <2>1, <2>4, UploadDataIs DEF d
<1> HIDE DEF longer
<1>5. Timed(longer, events + 1)
  BY <1>1, <1>2, <1>3 DEF ExtractInv, Timed
<1>6. ~skipped => InOrder(longer)
  <2> SUFFICES ASSUME ~skipped, NEW i \in DOMAIN longer, NEW j \in DOMAIN longer, i < j
               PROVE  longer[i].last < longer[j].first
    BY DEF InOrder
  <2>1. CASE j \in 1..Len(payloads)
    BY <1>2, <2>1 DEF ExtractInv, PayloadsInCaptureOrder
  <2>2. CASE j = Len(payloads) + 1
    <3>1. longer[i] = payloads[i] /\ longer[j] = p
      BY <1>2, <2>2
    <3>2. payloads[i].last <= events /\ payloads[i].last \in Nat
      BY <1>2, <1>3, <2>2 DEF ExtractInv, Timed
    <3> QED BY <1>1, <3>1, <3>2
  <2> QED BY <1>2, <2>1, <2>2
<1> QED BY <1>2, <1>4, <1>5, <1>6 DEF longer, p

\* The list a chunk is added to.
LEMMA OpenedIs ==
    ASSUME UploadInv, ExtractInv
    PROVE  /\ Opened \in Seq(Payload) /\ HasUpload(Opened)
           /\ Timed(Opened, events + 1)
           /\ ~skipped => InOrder(Opened)
           /\ NonEmpty(DataIn(Opened)) = UploadData
           /\ ~skipped /\ client # "idle" => EndsWith(Opened, files[Len(files)])
<1>1. events \in Nat /\ payloads \in Seq(Payload) /\ uploadOpen \in BOOLEAN
  BY DEF UploadInv, TypeOK
<1>2. CASE uploadOpen
  <2>1. Opened = payloads
    BY <1>2 DEF Opened
  <2>2. HasUpload(payloads)
    BY <1>2, UploadsOfPayloads DEF UploadInv, OpenUploadHasPayload
  <2>3. Timed(payloads, events + 1)
    <3>1. \A i \in DOMAIN payloads : payloads[i] \in Payload
      BY <1>1
    <3> QED BY <1>1, <3>1 DEF ExtractInv, Timed, Payload
  <2>4. ~skipped => InOrder(payloads)
    BY DEF ExtractInv, PayloadsInCaptureOrder, InOrder
  <2>5. ~skipped /\ client # "idle" => EndsWith(payloads, files[Len(files)])
    BY <1>2 DEF ExtractInv, FileIsLast
  <2> QED BY <1>1, <2>1, <2>2, <2>3, <2>4, <2>5, UploadDataIs
<1>3. CASE ~uploadOpen
  <2> DEFINE p == NewPayload("Upload", "", <<>>)
  <2>1. Opened = Append(payloads, p)
    BY <1>3 DEF Opened
  <2>2. "" \in Texts /\ p.kind = "Upload" /\ p.data = <<>>
    BY RecoveryAssumption DEF NewPayload
  <2> HIDE DEF p
  <2>3. /\ Opened \in Seq(Payload) /\ Opened[Len(Opened)] = p
        /\ Timed(Opened, events + 1) /\ (~skipped => InOrder(Opened))
        /\ NonEmpty(DataIn(Opened)) = UploadData
    BY <2>1, <2>2, PushIs DEF p
  <2>4. Opened # <<>> /\ Len(Opened) \in DOMAIN Opened
    <3>1. p \in Payload
      BY <1>1, <2>2, NewPayloadTyped DEF p
    <3> QED BY <1>1, <2>1, <3>1
  <2>5. HasUpload(Opened)
    BY <2>2, <2>3, <2>4 DEF HasUpload
  <2>6. ~skipped /\ client # "idle" => EndsWith(Opened, files[Len(files)])
    BY <1>3, <2>2, <2>3, <2>4 DEF ExtractInv, FileIsLast, EndsWith
  <2> QED BY <2>3, <2>5, <2>6
<1> QED BY <1>1, <1>2, <1>3

LEMMA ExtractInit == Init => ExtractInv
<1> SUFFICES ASSUME Init PROVE ExtractInv
  OBVIOUS
<1>1. payloads = <<>> /\ uploadOpen = FALSE /\ skipped = FALSE
  BY DEF Init
<1>2. files = <<>> \/ files = << <<>> >>
  BY DEF Init
<1>3. Timed(payloads, events) /\ PayloadsInCaptureOrder
  BY <1>1 DEF Timed, PayloadsInCaptureOrder
<1>4. FileIsLast
  <2>1. client # "idle" => files = << <<>> >>
    BY DEF Init
  <2> QED BY <1>1, <2>1 DEF FileIsLast
<1>5. NonEmpty(<<>>) = <<>> /\ DataIn(<<>>) = <<>>
  BY DEF NonEmpty, FlattenSeq, DataIn
<1>6. UploadData = <<>>
  BY <1>1, <1>5, UploadDataIs
<1>7. NonEmpty(files) = <<>> /\ FlattenSeq(files) = <<>>
  <2>1. CASE files = <<>>
    BY <1>5, <2>1 DEF FlattenSeq
  <2>2. CASE files = << <<>> >>
    <3>1. << <<>> >> = Append(<<>>, <<>>)
      OBVIOUS
    <3>2. <<>> \in Seq(Chunks) /\ <<>> \in Seq(Seq(Chunks))
      BY EmptySeq
    <3>3. NonEmpty(Append(<<>>, <<>>)) = NonEmpty(<<>>) \o Unit(<<>>)
      BY <3>2, NonEmptyAppend
    <3>4. FlattenSeq(Append(<<>>, <<>>)) = FlattenSeq(<<>>) \o <<>>
      BY <3>2, FlattenAppend
    <3> QED BY <1>5, <2>2, <3>1, <3>3, <3>4 DEF Unit, FlattenSeq
  <2> QED BY <1>2, <2>1, <2>2
<1>8. UploadsAreFiles /\ EveryByteKept
  BY <1>6, <1>7 DEF UploadsAreFiles, EveryByteKept, FlattenSeq
<1> QED BY <1>3, <1>4, <1>8 DEF ExtractInv

\* A chunk: what it does to the list, and to the file it is of.
LEMMA ChunkIs ==
    ASSUME UploadInv, ExtractInv, NEW chunk \in Chunks, chunk # <<>>, BulkOut(chunk)
    PROVE  /\ uploadOpen'
           /\ Timed(payloads', events + 1)
           /\ FlattenSeq(UploadData') = FlattenSeq(files) \o <<chunk>>
           /\ ~skipped /\ client # "idle" =>
                 /\ InOrder(payloads')
                 /\ EndsWith(payloads', files[Len(files)] \o <<chunk>>)
                 /\ UploadData' = NonEmpty([files EXCEPT ![Len(files)] = @ \o <<chunk>>])
<1>1. /\ Opened \in Seq(Payload) /\ HasUpload(Opened) /\ Timed(Opened, events + 1)
      /\ ~skipped => InOrder(Opened)
      /\ NonEmpty(DataIn(Opened)) = UploadData
      /\ ~skipped /\ client # "idle" => EndsWith(Opened, files[Len(files)])
      /\ events \in Nat /\ files \in Seq(Seq(Chunks))
  BY OpenedIs DEF UploadInv, TypeOK
<1> DEFINE list == Opened
<1>2. payloads' = AddToUpload(list, chunk) /\ uploadOpen'
  BY DEF BulkOut
<1> HIDE DEF list
<1>3. PICK n \in 1..Len(list) :
              /\ list[n].kind = "Upload"
              /\ NoUploadAfter(list, n)
              /\ AddToUpload(list, chunk) = Inserted(list, n, chunk)
  BY <1>1, AddToUploadAt DEF list
<1> DEFINE q == Longer(list[n], chunk)
<1>4. /\ list \in Seq(Payload) /\ Len(list) \in Nat /\ n \in Nat /\ list[n] \in Payload
      /\ DOMAIN list = 1..Len(list)
      /\ \A i \in DOMAIN list : list[i] \in Payload
  BY <1>1 DEF list
<1>5. /\ q \in Payload /\ q.kind = "Upload" /\ q.first = list[n].first
      /\ q.last = events + 1 /\ q.data = list[n].data \o <<chunk>>
  BY <1>1, <1>3, <1>4, LongerIs
<1> HIDE DEF q
<1>6. /\ payloads' = [list EXCEPT ![n] = q]
      /\ DOMAIN payloads' = DOMAIN list /\ payloads'[n] = q /\ Len(payloads') = Len(list)
      /\ \A i \in DOMAIN list : i # n => payloads'[i] = list[i]
  <2>1. payloads' = [list EXCEPT ![n] = q]
    BY <1>2, <1>3 DEF Inserted, q
  <2> QED BY <1>4, <1>5, <2>1
<1>7. Timed(payloads', events + 1)
  <2> SUFFICES ASSUME NEW i \in DOMAIN list
               PROVE  /\ payloads'[i].first <= payloads'[i].last
                      /\ payloads'[i].last <= events + 1
    BY <1>6 DEF Timed
  <2>1. list[i].first <= list[i].last /\ list[i].last <= events + 1
    BY <1>1 DEF Timed, list
  <2>2. list[i].first \in Nat /\ list[i].last \in Nat
    BY <1>4 DEF Payload
  <2>3. CASE i = n
    BY <1>1, <1>5, <1>6, <2>1, <2>2, <2>3
  <2>4. CASE i # n
    BY <1>6, <2>1, <2>4
  <2> QED BY <2>3, <2>4
<1> DEFINE d == DataIn(list)
           e == <<chunk>>
<1>8. /\ d \in Seq(Seq(Chunks)) /\ e \in Seq(Chunks) /\ Len(d) = Len(list)
      /\ d[n] = list[n].data
      /\ EmptyAfter(d, n)
      /\ DataIn(payloads') = AddedAt(d, n, e)
      /\ UploadData' = NonEmpty(DataIn(payloads'))
      /\ UploadData = NonEmpty(d)
  <2>1. d \in Seq(Seq(Chunks)) /\ e \in Seq(Chunks) /\ Len(d) = Len(list)
    BY <1>4, DataInTyped
  <2>2. d[n] = list[n].data /\ EmptyAfter(d, n)
    <3>1. \A j \in n + 1..Len(list) : d[j] = <<>>
      BY <1>3, <1>4 DEF DataIn, NoUploadAfter
    <3> HIDE DEF d
    <3>2. EmptyAfter(d, n)
      BY <2>1, <3>1, Zenon DEF EmptyAfter
    <3>3. d[n] = list[n].data
      BY <1>3, <1>4 DEF DataIn, d
    <3> QED BY <3>2, <3>3
  <2>3. DataIn(payloads') = AddedAt(d, n, e)
    <3>1. DataIn(Inserted(list, n, chunk)) = AddedAt(d, n, e)
      BY <1>1, <1>3, <1>4, DataInLonger
    <3>2. payloads' = Inserted(list, n, chunk)
      BY <1>2, <1>3
    <3> QED BY <3>1, <3>2, Zenon
  <2>4. UploadData' = NonEmpty(DataIn(payloads'))
    BY DEF UploadData, DataIn
  <2> QED BY <1>1, <2>1, <2>2, <2>3, <2>4 DEF list
<1> HIDE DEF d, e
<1>9. FlattenSeq(UploadData') = FlattenSeq(files) \o e
  <2> DEFINE d2 == AddedAt(d, n, e)
  <2>1. n \in 1..Len(d)
    BY <1>8, Zenon
  <2>2. FlattenSeq(d2) = FlattenSeq(d) \o e
    <3>1. d \in Seq(Seq(Chunks)) /\ e \in Seq(Chunks) /\ EmptyAfter(d, n)
      BY <1>8
    <3> QED BY <2>1, <3>1, FlattenWithin
  <2>3. d2 \in Seq(Seq(Chunks))
    <3>1. payloads' \in Seq(Payload)
      BY <1>4, <1>5, <1>6, ExceptSeq
    <3>2. DataIn(payloads') \in Seq(Seq(Chunks))
      BY <3>1, DataInTyped
    <3> QED BY <1>8, <3>2
  <2> HIDE DEF d2
  <2>4. FlattenSeq(NonEmpty(d2)) = FlattenSeq(d2) /\ FlattenSeq(NonEmpty(d)) = FlattenSeq(d)
    BY <1>8, <2>3, FlattenNonEmpty
  <2>5. FlattenSeq(UploadData) = FlattenSeq(files)
    BY DEF ExtractInv, EveryByteKept
  <2>6. UploadData' = NonEmpty(d2)
    BY <1>8 DEF d2
  <2> QED BY <1>8, <2>2, <2>4, <2>5, <2>6, Zenon
<1>10. ASSUME ~skipped, client # "idle"
       PROVE  /\ InOrder(payloads')
              /\ EndsWith(payloads', files[Len(files)] \o e)
              /\ UploadData' = NonEmpty([files EXCEPT ![Len(files)] = @ \o e])
  <2>1. /\ InOrder(list) /\ list # <<>> /\ list[Len(list)].kind = "Upload"
        /\ list[Len(list)].data = files[Len(files)]
    BY <1>1, <1>10 DEF EndsWith, list
  <2>2. n = Len(list)
    <3> DEFINE m == Len(list)
    <3>0. m \in Nat /\ list[m].kind = "Upload" /\ \A j \in n + 1..m : list[j].kind # "Upload"
      BY <1>3, <1>4, <2>1 DEF NoUploadAfter
    <3> HIDE DEF m
    <3>1. ~(n + 1 <= m)
      BY <1>4, <3>0
    <3>2. n <= m
      BY <1>4 DEF m
    <3>3. n \in Nat
      BY <1>4
    <3>4. m \in Nat
      BY <3>0
    <3>5. n = m
      BY <3>1, <3>2, <3>3, <3>4
    <3> QED BY <3>5 DEF m
  <2>3. InOrder(payloads')
    <3> SUFFICES ASSUME NEW i \in DOMAIN list, NEW j \in DOMAIN list, i < j
                 PROVE  payloads'[i].last < payloads'[j].first
      BY <1>6 DEF InOrder
    <3>1. i # n /\ list[i].last < list[j].first
      BY <1>4, <2>1, <2>2 DEF InOrder
    <3> QED BY <1>5, <1>6, <3>1
  <2>4. EndsWith(payloads', files[Len(files)] \o e)
    <3>1. payloads' # <<>>
      BY <1>4, <1>6
    <3>2. payloads'[Len(payloads')] = q
      BY <1>6, <2>2
    <3> QED BY <1>5, <2>1, <2>2, <3>1, <3>2 DEF EndsWith, e
  <2>5. UploadData' = NonEmpty([files EXCEPT ![Len(files)] = @ \o e])
    <3> DEFINE B == Seq(Chunks)
               f == files[Len(files)]
               g == f \o e
    <3>1. files # <<>> /\ d # <<>> /\ files \in Seq(B) /\ d \in Seq(B)
      BY <1>1, <1>4, <1>8, <1>10, <2>1 DEF ExtractInv, FileIsLast
    <3>2. PICK a \in Seq(B) :
              /\ Len(files) \in Nat \ {0} /\ files[Len(files)] \in B
              /\ files = Append(a, files[Len(files)])
              /\ \A z \in B : [files EXCEPT ![Len(files)] = z] = Append(a, z)
      <4>1. \E a \in Seq(B) : IsFrontOf(a, files, B)
        <5> HIDE DEF B
        <5> QED BY <3>1, FrontAndLast
      <4> QED BY <4>1 DEF IsFrontOf
    <3>3. PICK b \in Seq(B) :
              /\ Len(d) \in Nat \ {0} /\ d[Len(d)] \in B
              /\ d = Append(b, d[Len(d)])
              /\ \A z \in B : [d EXCEPT ![Len(d)] = z] = Append(b, z)
      <4>1. \E b \in Seq(B) : IsFrontOf(b, d, B)
        <5> HIDE DEF B
        <5> QED BY <3>1, FrontAndLast
      <4> QED BY <4>1 DEF IsFrontOf
    <3>4. d[Len(d)] = f /\ f \in B /\ g \in B
      BY <1>8, <2>1, <2>2, <3>2
    <3>5. files = Append(a, f) /\ d = Append(b, f)
      BY <3>2, <3>3, <3>4
    <3>6. NonEmpty(Append(b, f)) = NonEmpty(Append(a, f))
      <4>1. NonEmpty(d) = NonEmpty(files)
        BY <1>8, <1>10 DEF ExtractInv, UploadsAreFiles
      <4> HIDE DEF f
      <4> QED BY <3>5, <4>1
    <3>7. [files EXCEPT ![Len(files)] = @ \o e] = Append(a, g)
      BY <3>2, <3>4
    <3>8. AddedAt(d, n, e) = Append(b, g)
      <4>1. AddedAt(d, n, e) = [d EXCEPT ![Len(d)] = g]
        BY <1>8, <2>2, <3>4 DEF AddedAt
      <4> QED BY <3>3, <3>4, <4>1
    <3>9. NonEmpty(Append(b, g)) = NonEmpty(Append(a, g))
      <4>1. f \in Seq(Chunks) /\ g \in Seq(Chunks) /\ a \in Seq(Seq(Chunks)) /\ b \in Seq(Seq(Chunks))
        BY <3>4
      <4> HIDE DEF f, g, B
      <4> QED BY <3>6, <4>1, SameWithoutEmpty
    <3> QED BY <1>8, <3>7, <3>8, <3>9, Zenon
  <2> QED BY <2>3, <2>4, <2>5
<1> QED BY <1>2, <1>7, <1>9, <1>10 DEF e

\* A step that pushes a payload without data, or none, outside the files.
LEMMA TalkKeeps == UploadInv /\ ExtractInv /\ Next /\ Talk => ExtractInv'
<1> SUFFICES ASSUME UploadInv, ExtractInv, Next, Talk PROVE ExtractInv'
  OBVIOUS
<1>1. /\ UNCHANGED <<client, files, skipped>> /\ client = "idle" /\ events' = events + 1
      /\ events \in Nat /\ payloads \in Seq(Payload)
  BY DEF Talk, Next, UploadInv, TypeOK
<1>2. CASE payloads' = payloads
  <2>1. Timed(payloads', events')
    <3>1. \A i \in DOMAIN payloads : payloads[i] \in Payload
      BY <1>1
    <3> QED BY <1>1, <1>2, <3>1 DEF ExtractInv, Timed, Payload
  <2>2. UploadData' = UploadData
    BY <1>2 DEF UploadData
  <2> QED BY <1>1, <1>2, <2>1, <2>2 DEF ExtractInv, FileIsLast, PayloadsInCaptureOrder,
                                        UploadsAreFiles, EveryByteKept
<1>3. CASE \E kind \in {"Command", "Response"}, text \in Texts :
               payloads' = Append(payloads, NewPayload(kind, text, <<>>))
  <2>1. PICK kind \in {"Command", "Response"}, text \in Texts :
               payloads' = Append(payloads, NewPayload(kind, text, <<>>))
    BY <1>3
  <2> DEFINE longer == Append(payloads, NewPayload(kind, text, <<>>))
  <2>2. /\ Timed(longer, events + 1) /\ (~skipped => InOrder(longer))
        /\ NonEmpty(DataIn(longer)) = UploadData
    BY PushIs
  <2> HIDE DEF longer
  <2>3. payloads' = longer
    BY <2>1 DEF longer
  <2>4. UploadData' = UploadData
    <3>1. UploadData' = NonEmpty(DataIn(payloads'))
      BY DEF UploadData, DataIn
    <3> QED BY <2>2, <2>3, <3>1
  <2>5. PayloadsInCaptureOrder'
    BY <1>1, <2>2, <2>3 DEF PayloadsInCaptureOrder, InOrder
  <2>6. Timed(payloads', events')
    BY <1>1, <2>2, <2>3
  <2> QED BY <1>1, <2>4, <2>5, <2>6 DEF ExtractInv, FileIsLast, UploadsAreFiles, EveryByteKept
<1>4. payloads' = payloads \/ \E kind \in {"Command", "Response"}, text \in Texts :
               payloads' = Append(payloads, NewPayload(kind, text, <<>>))
  <2>1. CASE \E data \in DataStage : CommandOut(data) \/ ResponseIn(data)
    <3>1. PICK data \in DataStage : CommandOut(data) \/ ResponseIn(data)
      BY <2>1
    <3>2. data # <<>> => data[1] \in Texts
      BY DEF DataStage
    <3> QED BY <3>1, <3>2 DEF CommandOut, ResponseIn
  <2>2. CASE \E chunk \in Chunks : BulkIn(chunk)
    BY <2>2 DEF BulkIn
  <2> QED BY <2>1, <2>2 DEF Talk
<1> QED BY <1>2, <1>3, <1>4

LEMMA AnnounceKeeps == UploadInv /\ ExtractInv /\ Next /\ Announce => ExtractInv'
<1> SUFFICES ASSUME UploadInv, ExtractInv, Next, Announce PROVE ExtractInv'
  OBVIOUS
<1> DEFINE p == NewPayload("Upload", "", <<>>)
           longer == Append(payloads, p)
<1>1. /\ payloads' = longer /\ uploadOpen' /\ files' = Append(files, <<>>)
      /\ skipped' = skipped /\ client' = "announced" /\ events' = events + 1
      /\ events \in Nat /\ files \in Seq(Seq(Chunks)) /\ payloads \in Seq(Payload)
      /\ p.kind = "Upload" /\ p.data = <<>>
  BY DEF Announce, AnnounceOut, Next, UploadInv, TypeOK, NewPayload
<1>2. /\ Timed(longer, events + 1) /\ (~skipped => InOrder(longer))
      /\ NonEmpty(DataIn(longer)) = UploadData /\ longer[Len(longer)] = p
      /\ longer \in Seq(Payload)
  BY PushIs, RecoveryAssumption
<1>3. longer # <<>>
  <2>1. p \in Payload
    BY <1>1, NewPayloadTyped, RecoveryAssumption
  <2> HIDE DEF p
  <2> QED BY <1>1, <2>1
<1> HIDE DEF p, longer
<1>4. Timed(payloads', events') /\ PayloadsInCaptureOrder'
  BY <1>1, <1>2 DEF PayloadsInCaptureOrder, InOrder
<1> DEFINE B == Seq(Chunks)
           none == <<>>
<1>5. files \in Seq(B) /\ none \in B
  BY <1>1, EmptySeq
<1>6. files' # <<>> /\ files'[Len(files')] = <<>>
  <2> HIDE DEF B, none
  <2>1. files' = Append(files, none)
    BY <1>1 DEF none
  <2>2. files' # <<>> /\ files'[Len(files')] = none
    BY <1>5, <2>1
  <2> QED BY <2>2 DEF none
<1>7. FileIsLast'
  BY <1>1, <1>2, <1>3, <1>6 DEF FileIsLast, EndsWith
<1>8. UploadData' = UploadData
  <2>1. UploadData' = NonEmpty(DataIn(payloads'))
    BY DEF UploadData, DataIn
  <2> QED BY <1>1, <1>2, <2>1
<1>9. NonEmpty(files') = NonEmpty(files) /\ FlattenSeq(files') = FlattenSeq(files)
  <2>1. /\ NonEmpty(files') = NonEmpty(files) \o Unit(none)
        /\ FlattenSeq(files') = FlattenSeq(files) \o none
        /\ NonEmpty(files) \in Seq(B) /\ FlattenSeq(files) \in B
    BY <1>1, <1>5, NonEmptyAppend, FlattenAppend, FlattenTyped
  <2>2. Unit(none) = <<>>
    BY DEF Unit
  <2>3. NonEmpty(files) \o <<>> = NonEmpty(files) /\ FlattenSeq(files) \o <<>> = FlattenSeq(files)
    BY <2>1
  <2> QED BY <2>1, <2>2, <2>3
<1>10. UploadsAreFiles' /\ EveryByteKept'
  BY <1>1, <1>8, <1>9 DEF ExtractInv, UploadsAreFiles, EveryByteKept
<1> QED BY <1>4, <1>7, <1>10 DEF ExtractInv

LEMMA SendChunkKeeps == UploadInv /\ ExtractInv /\ Next /\ SendChunk => ExtractInv'
<1> SUFFICES ASSUME UploadInv, ExtractInv, Next, SendChunk PROVE ExtractInv'
  OBVIOUS
<1>1. PICK chunk \in Chunks :
          /\ BulkOut(chunk)
          /\ LET sent == IF chunk = <<>> THEN <<>> ELSE <<chunk>> IN
             \/ /\ client \in {"announced", "sending"}
                /\ files' = [files EXCEPT ![Len(files)] = @ \o sent]
                /\ UNCHANGED skipped
             \/ /\ client = "idle" /\ SkipsAnnouncement
                /\ files' = Append(files, sent)
                /\ skipped' = TRUE
  BY DEF SendChunk
<1> DEFINE sent == IF chunk = <<>> THEN <<>> ELSE <<chunk>>
           B == Seq(Chunks)
<1>2. /\ client' = "sending" /\ events' = events + 1 /\ events \in Nat
      /\ files \in Seq(B) /\ payloads \in Seq(Payload) /\ sent \in B
      /\ \/ /\ client # "idle" /\ UNCHANGED skipped
            /\ files' = [files EXCEPT ![Len(files)] = @ \o sent]
         \/ client = "idle" /\ skipped' = TRUE /\ files' = Append(files, sent)
  <2>1. /\ client' = "sending" /\ events' = events + 1 /\ events \in Nat
        /\ files \in Seq(B) /\ payloads \in Seq(Payload)
        /\ client \in {"idle", "announced", "sending"}
    BY DEF SendChunk, Next, UploadInv, TypeOK
  <2>2. sent \in B
    BY EmptySeq
  <2>3. \/ /\ client # "idle" /\ UNCHANGED skipped
           /\ files' = [files EXCEPT ![Len(files)] = @ \o sent]
        \/ client = "idle" /\ skipped' = TRUE /\ files' = Append(files, sent)
    BY <1>1, <2>1
  <2> QED BY <2>1, <2>2, <2>3
<1>3. UploadData' = NonEmpty(DataIn(payloads'))
  BY DEF UploadData, DataIn
<1> HIDE DEF B, sent
\* Whether announced or not, the file grows by what was sent.
<1>4. /\ files' \in Seq(B) /\ files' # <<>>
      /\ FlattenSeq(files') = FlattenSeq(files) \o sent
      /\ client # "idle" => /\ files' = AddedAt(files, Len(files), sent)
                            /\ files'[Len(files')] = files[Len(files)] \o sent
  <2>1. CASE client # "idle"
    <3>1. files # <<>> /\ files' = AddedAt(files, Len(files), sent)
      BY <1>2, <2>1 DEF ExtractInv, FileIsLast, AddedAt
    <3>2. Len(files) \in 1..Len(files) /\ files[Len(files)] \in B
      BY <1>2, <3>1
    <3>3. EmptyAfter(files, Len(files))
      BY <3>2 DEF EmptyAfter
    <3>4. FlattenSeq(files') = FlattenSeq(files) \o sent
      BY <1>2, <3>1, <3>2, <3>3, FlattenWithin DEF B
    <3> DEFINE y == files[Len(files)] \o sent
    <3>5. y \in B /\ files' = [files EXCEPT ![Len(files)] = y]
      BY <1>2, <3>1, <3>2 DEF AddedAt, B
    <3> HIDE DEF y
    <3>6. files' \in Seq(B) /\ files' # <<>> /\ files'[Len(files')] = y
      BY <1>2, <3>1, <3>2, <3>5
    <3> QED BY <3>1, <3>4, <3>6 DEF y
  <2>2. CASE client = "idle"
    <3>1. files' = Append(files, sent)
      BY <1>2, <2>2
    <3>2. files' \in Seq(B) /\ files' # <<>>
      BY <1>2, <3>1
    <3>3. FlattenSeq(files') = FlattenSeq(files) \o sent
      BY <1>2, <3>1, FlattenAppend DEF B
    <3> QED BY <2>2, <3>2, <3>3
  <2> QED BY <2>1, <2>2
<1>5. CASE chunk = <<>>
  <2>1. sent = <<>> /\ UNCHANGED <<payloads, uploadOpen>>
    BY <1>1, <1>5 DEF BulkOut, sent
  <2>2. Timed(payloads', events')
    <3>1. \A i \in DOMAIN payloads : payloads[i] \in Payload
      BY <1>2
    <3> QED BY <1>2, <2>1, <3>1 DEF ExtractInv, Timed, Payload
  <2>3. UploadData' = UploadData
    BY <2>1 DEF UploadData
  <2>4. FlattenSeq(files') = FlattenSeq(files)
    <3>1. FlattenSeq(files) \in Seq(Chunks)
      BY <1>2, FlattenTyped DEF B
    <3> QED BY <1>4, <2>1, <3>1
  <2>5. client # "idle" => files' = files
    <3> SUFFICES ASSUME client # "idle" PROVE files' = files
      OBVIOUS
    <3>1. files # <<>>
      BY DEF ExtractInv, FileIsLast
    <3>2. Len(files) \in 1..Len(files) /\ files[Len(files)] \in B
      BY <1>2, <3>1
    <3>3. files[Len(files)] \o <<>> = files[Len(files)]
      BY <3>2 DEF B
    <3>4. files' = [files EXCEPT ![Len(files)] = files[Len(files)]]
      BY <1>4, <2>1, <3>3 DEF AddedAt
    <3> QED BY <1>2, <3>2, <3>4
  <2>6. ~skipped' => client # "idle" /\ ~skipped /\ files' = files
    BY <1>2, <2>5
  <2> QED BY <1>2, <1>4, <2>1, <2>2, <2>3, <2>4, <2>6
          DEF ExtractInv, FileIsLast, PayloadsInCaptureOrder, UploadsAreFiles, EveryByteKept
<1>6. CASE chunk # <<>>
  <2>1. sent = <<chunk>>
    BY <1>6 DEF sent
  <2>2. /\ uploadOpen' /\ Timed(payloads', events + 1)
        /\ FlattenSeq(UploadData') = FlattenSeq(files) \o sent
        /\ ~skipped /\ client # "idle" =>
              /\ InOrder(payloads') /\ EndsWith(payloads', files[Len(files)] \o sent)
              /\ UploadData' = NonEmpty(AddedAt(files, Len(files), sent))
    BY <1>1, <1>6, <2>1, ChunkIs DEF AddedAt
  <2>3. ~skipped' => client # "idle" /\ ~skipped
    BY <1>2
  <2>4. FileIsLast'
    BY <1>4, <2>2, <2>3 DEF FileIsLast
  <2>5. PayloadsInCaptureOrder'
    BY <2>2, <2>3 DEF PayloadsInCaptureOrder, InOrder
  <2>6. UploadsAreFiles' /\ EveryByteKept'
    BY <1>4, <2>2, <2>3 DEF UploadsAreFiles, EveryByteKept
  <2> QED BY <1>2, <2>2, <2>4, <2>5, <2>6 DEF ExtractInv
<1> QED BY <1>5, <1>6

LEMMA ExtractNext == UploadInv /\ ExtractInv /\ [Next]_vars => ExtractInv'
<1> SUFFICES ASSUME UploadInv, ExtractInv, [Next]_vars PROVE ExtractInv'
  OBVIOUS
<1>1. CASE UNCHANGED vars
  BY <1>1 DEF vars, ExtractInv, Timed, FileIsLast, EndsWith, PayloadsInCaptureOrder,
              UploadsAreFiles, EveryByteKept, UploadData
<1>2. CASE Next /\ EndOfFile
  <2>1. /\ UNCHANGED <<payloads, uploadOpen, files, skipped>> /\ client' = "idle"
        /\ events' = events + 1 /\ events \in Nat /\ payloads \in Seq(Payload)
    BY <1>2 DEF EndOfFile, expertVars, Next, UploadInv, TypeOK
  <2>2. Timed(payloads', events')
    <3>1. \A i \in DOMAIN payloads : payloads[i] \in Payload
      BY <2>1
    <3> QED BY <2>1, <3>1 DEF ExtractInv, Timed, Payload
  <2>3. UploadData' = UploadData
    BY <2>1 DEF UploadData
  <2> QED BY <2>1, <2>2, <2>3 DEF ExtractInv, FileIsLast, PayloadsInCaptureOrder,
                                  UploadsAreFiles, EveryByteKept
<1> QED BY <1>1, <1>2, TalkKeeps, AnnounceKeeps, SendChunkKeeps DEF Next

LEMMA Extracted == Spec => []ExtractInv
BY UploadInit, UploadNext, ExtractInit, ExtractNext, PTL DEF Spec

\* As long as every file is announced, no payload begins before the one before
\* it in the list is over (getPayloads).
THEOREM PayloadsOrdered == Spec => []PayloadsInCaptureOrder
<1>1. ExtractInv => PayloadsInCaptureOrder
  BY DEF ExtractInv
<1> QED BY Extracted, <1>1, PTL

\* As long as every file is announced, the uploads are the files that were
\* sent, whole and in order, one for each (processBulkOut, getArtifacts).
THEOREM UploadsCorrect == Spec => []UploadsAreFiles
<1>1. ExtractInv => UploadsAreFiles
  BY DEF ExtractInv
<1> QED BY Extracted, <1>1, PTL

\* Whatever is announced and whatever is not, every byte the client sent is in
\* the uploads, once and in order (currentUpload, processBulkOut).
THEOREM UploadsKept == Spec => []EveryByteKept
<1>1. ExtractInv => EveryByteKept
  BY DEF ExtractInv
<1> QED BY Extracted, <1>1, PTL
=============================================================================
