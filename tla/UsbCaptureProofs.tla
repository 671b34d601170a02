-------------------------- MODULE UsbCaptureProofs --------------------------
(***************************************************************************)
(* Part 1: what DeviceHandle guarantees for every capture, damaged ones    *)
(* included: any events, any identifiers, any payloads (Spec).             *)
(* Part 2: what it guarantees when a capture tool feeds it what a USB bus  *)
(* does (CaptureSpec): for any number of transfers, endpoints, identifiers *)
(* and payloads, the experts get what crossed the bus, under the device it *)
(* came from.                                                              *)
(* Part 3: what the readers make of any capture file, damaged or not: they *)
(* stay inside it and report its devices in order (FileSpec), and of one   *)
(* that a writer wrote and that is damaged in one place they report all    *)
(* that the damage leaves.                                                 *)
(***************************************************************************)
EXTENDS UsbCapture, CaptureFile, SequenceTheorems, SequenceLemmas, TLAPS

USE CellsAssumption, EndpointsAssumption, LengthsAssumption, MaxCallsAssumption

\* The stored value of an absent key is a Pending.
LEMMA NoPendingType == NoPending \in Pending /\ ZeroSetup \in Setup
  BY DEF NoPending, ZeroSetup, Pending, Setup

\* Control transfers are filed under a key of the map.
LEMMA KeyTypes ==
  ASSUME NEW ep \in Endpoint, NEW id \in Ids
  PROVE  /\ Undirected(ep) \in Endpoint
         /\ ControlKey(ep, id) \in Keys
         /\ <<ep, id>> \in Keys
  BY DEF Undirected, ControlKey, Keys, Endpoint

\* The first n cells of a payload are a payload.
LEMMA PrefixType ==
  ASSUME NEW data \in Seq(Cells), NEW n \in 0 .. Len(data)
  PROVE  /\ SubSeq(data, 1, n) \in Seq(Cells)
         /\ Len(SubSeq(data, 1, n)) = n
         /\ SubSeq(data, 1, n) = [i \in 1 .. n |-> data[i]]
  <1>1. 1 \in 1 .. Len(data) + 1 /\ n \in 1 - 1 .. Len(data)
    BY LenProperties
  <1>. QED
    BY <1>1, SubSeqProperties

\* What endControl hands on is made of cells, and is never longer than the
\* setup packet asked for.
LEMMA ControlPayloadType ==
  ASSUME NEW pending \in Pending, NEW data \in Seq(Cells)
  PROVE  /\ ControlPayload(pending, data) \in Seq(Cells)
         /\ Len(ControlPayload(pending, data)) <= pending.setup.wLength
  <1>. DEFINE first  == IF pending.setup.in THEN data ELSE pending.data
              second == IF pending.setup.in THEN pending.data ELSE data
              chosen == IF first # <<>> THEN first ELSE second
              wanted == pending.setup.wLength
              n      == IF Len(chosen) < wanted THEN Len(chosen) ELSE wanted
  <1>1. chosen \in Seq(Cells)
    BY DEF Pending
  <1>2. wanted \in Nat
    BY DEF Pending, Setup
  <1>3. n \in 0 .. Len(chosen) /\ n <= wanted
    BY <1>1, <1>2, LenProperties
  <1>4. ControlPayload(pending, data) = SubSeq(chosen, 1, n)
    BY DEF ControlPayload
  <1>. HIDE DEF chosen, n, wanted
  <1>5. SubSeq(chosen, 1, n) \in Seq(Cells) /\ Len(SubSeq(chosen, 1, n)) = n
    BY <1>1, <1>3, PrefixType
  <1>. QED
    BY <1>3, <1>4, <1>5 DEF wanted

\* A whole descriptor read has a descriptor in front.
LEMMA DescriptorType ==
  ASSUME NEW setup \in Setup, NEW data \in Seq(Cells), FullDeviceRead(setup, data)
  PROVE  /\ SubSeq(data, 1, DeviceSize) \in Descriptor
         /\ SubSeq(data, 1, DeviceSize) # NoDescriptor
  <1>1. DeviceSize \in 0 .. Len(data)
    BY LenProperties DEF FullDeviceRead, DeviceSize
  <1>2. SubSeq(data, 1, DeviceSize) = [i \in 1 .. DeviceSize |-> data[i]]
    BY <1>1, PrefixType
  <1>3. /\ SubSeq(data, 1, DeviceSize) \in Seq(Cells)
        /\ Len(SubSeq(data, 1, DeviceSize)) = DeviceSize
    BY <1>1, PrefixType
  <1>4. \A i \in 1 .. DeviceSize : data[i] \in Cells
    BY <1>1, ElementOfSeq DEF DeviceSize
  <1>5. SubSeq(data, 1, DeviceSize) \in Descriptor
    BY <1>2, <1>4 DEF Descriptor
  <1>6. SubSeq(data, 1, DeviceSize) # NoDescriptor
    <2>1. Len(NoDescriptor) = 0
      BY EmptySeq DEF NoDescriptor
    <2>. QED
      BY <1>3, <2>1 DEF DeviceSize
  <1>. QED
    BY <1>5, <1>6

\* Appending anything makes a log of known length one longer.
LEMMA LenOfAppend ==
  ASSUME NEW S, NEW s \in Seq(S), NEW e, Append(s, e) \in Seq(S)
  PROVE  Len(s) + 1 \in 1 .. Len(Append(s, e))
  OBVIOUS

Sessions == Seq(Descriptor \cup {NoDescriptor})

-----------------------------------------------------------------------------
\* DispatchControl keeps the sessions well formed: it keeps or adds one, and
\* rewrites no descriptor.
LEMMA DispatchControlSessions ==
  ASSUME sessions \in Sessions, sessions # <<>>,
         NEW ep \in Endpoint, NEW pending \in Pending, NEW data \in Seq(Cells),
         DispatchControl(ep, pending, data)
  PROVE  /\ sessions' \in Sessions /\ sessions' # <<>>
         /\ Len(sessions') \in {Len(sessions), Len(sessions) + 1}
         /\ \A i \in 1 .. Len(sessions) : 
               sessions[i] # NoDescriptor => sessions'[i] = sessions[i]
         /\ Len(sessions') = Len(sessions) + 1 => Current # NoDescriptor
         /\ \A i \in 1 .. Len(sessions) - 1 : sessions'[i] = sessions[i]
         /\ \A n \in 1 .. Len(sessions') : sessions'[n] # NoDescriptor =>
               \/ n \in 1 .. Len(sessions) /\ sessions'[n] = sessions[n]
               \/ /\ n = Len(sessions')
                  /\ FullDeviceRead(pending.setup, data)
                  /\ SubSeq(data, 1, DeviceSize) = sessions'[n]
         /\ Learns(ep, pending.setup, data) =>
               sessions'[Len(sessions')] = SubSeq(data, 1, DeviceSize)
  <1>. DEFINE D == Descriptor \cup {NoDescriptor}
              opened == IF Reenumerates(pending.setup, data)
                        THEN Append(sessions, NoDescriptor) ELSE sessions
              learned == SubSeq(data, 1, DeviceSize)
              known == Learns(ep, pending.setup, data)
  <1>1. /\ Len(sessions) \in Nat \ {0}
        /\ \A i \in 1 .. Len(sessions) : sessions[i] \in D
    BY LenProperties, EmptySeq, ElementOfSeq DEF Sessions
  <1>2. pending.setup \in Setup
    BY DEF Pending
  <1>3. /\ opened \in Sessions
        /\ Len(opened) = IF Reenumerates(pending.setup, data)
                         THEN Len(sessions) + 1 ELSE Len(sessions)
        /\ \A i \in 1 .. Len(sessions) : opened[i] = sessions[i]
        /\ Reenumerates(pending.setup, data) => opened[Len(opened)] = NoDescriptor
    <2>1. CASE Reenumerates(pending.setup, data)
      BY <2>1, <1>1, AppendProperties DEF Sessions
    <2>2. CASE ~Reenumerates(pending.setup, data)
      BY <2>2
    <2>. QED
      BY <2>1, <2>2
  <1>4. known => learned \in Descriptor
    BY <1>2, DescriptorType DEF Learns
  <1>5. sessions' = IF known THEN [opened EXCEPT ![Len(opened)] = learned] ELSE opened
    BY DEF DispatchControl
  <1>6. known /\ ~Reenumerates(pending.setup, data) /\ Current # NoDescriptor
          => learned = Current
    BY DEF Learns, Reenumerates
  <1>7. Reenumerates(pending.setup, data) => Current # NoDescriptor
    BY DEF Reenumerates
  <1>12. known => FullDeviceRead(pending.setup, data)
    BY DEF Learns
  <1>. HIDE DEF opened, learned, known
  <1>8. /\ sessions' \in Sessions
        /\ Len(sessions') = Len(opened)
        /\ \A i \in 1 .. Len(opened) :
              sessions'[i] = IF known /\ i = Len(opened) THEN learned ELSE opened[i]
    <2>1. CASE known
      <3>1. Len(opened) \in 1 .. Len(opened)
        BY <1>1, <1>3
      <3>. QED
        BY <2>1, <3>1, <1>3, <1>4, <1>5, ExceptSeq DEF Sessions
    <2>2. CASE ~known
      BY <2>2, <1>3, <1>5
    <2>. QED
      BY <2>1, <2>2
  <1>9. sessions' # <<>>
    BY <1>1, <1>3, <1>8, EmptySeq
  <1>10. \A i \in 1 .. Len(sessions) :
            sessions[i] # NoDescriptor => sessions'[i] = sessions[i]
    BY <1>1, <1>3, <1>6, <1>8 DEF Current
  <1>11. \A i \in 1 .. Len(sessions) - 1 : sessions'[i] = sessions[i]
    BY <1>1, <1>3, <1>8
  <1>13. \A n \in 1 .. Len(sessions') : sessions'[n] # NoDescriptor =>
            \/ n \in 1 .. Len(sessions) /\ sessions'[n] = sessions[n]
            \/ n = Len(sessions') /\ FullDeviceRead(pending.setup, data)
               /\ learned = sessions'[n]
    BY <1>1, <1>3, <1>8, <1>12
  <1>14. known => sessions'[Len(sessions')] = learned
    BY <1>1, <1>3, <1>8
  <1>. QED
    BY <1>1, <1>3, <1>7, <1>8, <1>9, <1>10, <1>11, <1>13, <1>14 DEF learned, known

-----------------------------------------------------------------------------
(***************************************************************************)
(* Type correctness, one lemma per handler, for payloads of any length:    *)
(* part 2 calls the same handlers with payloads of its own.                *)
(***************************************************************************)
Handler(ep, id, setup, data) ==
    \/ BeginControl(ep, id, setup, data)
    \/ AppendControl(ep, id, data)
    \/ EndControl(ep, id, data)
    \/ BeginBulk(ep, id, data)
    \/ EndBulk(ep, id, data)
    \/ Abort(ep, id)

\* The dispatch record of a control transfer is well typed.
LEMMA DispatchControlLog ==
  ASSUME TypeOK,
         NEW ep \in Endpoint, NEW pending \in Pending, NEW data \in Seq(Cells),
         DispatchControl(ep, pending, data)
  PROVE  /\ log' \in Seq(Dispatch)
         /\ log' = Append(log, log'[Len(log) + 1])
         /\ log'[Len(log) + 1] =
               [session |-> Len(sessions'), endpoint |-> ep, control |-> TRUE,
                setup |-> pending.setup, data |-> data, serial |-> pending.serial]
  <1>. DEFINE opened == IF Reenumerates(pending.setup, data)
                        THEN Append(sessions, NoDescriptor) ELSE sessions
              d == [session |-> Len(opened), endpoint |-> ep, control |-> TRUE,
                    setup |-> pending.setup, data |-> data, serial |-> pending.serial]
  <1>1. opened \in Sessions
    BY AppendProperties DEF TypeOK, Sessions
  <1>2. Len(opened) \in Nat
    BY <1>1, LenProperties DEF Sessions
  <1>3. d \in Dispatch
    BY <1>2 DEF Dispatch, Pending
  <1>4. log' = Append(log, d)
    BY DEF DispatchControl
  <1>5. log \in Seq(Dispatch)
    BY DEF TypeOK
  <1>6. log' \in Seq(Dispatch) /\ log'[Len(log) + 1] = d
    BY <1>3, <1>4, <1>5, AppendProperties
  <1>7. Len(sessions') = Len(opened)
    <2>1. sessions' = IF Learns(ep, pending.setup, data)
                      THEN [opened EXCEPT ![Len(opened)] = SubSeq(data, 1, DeviceSize)]
                      ELSE opened
      BY DEF DispatchControl
    <2>. HIDE DEF opened
    <2>2. CASE Learns(ep, pending.setup, data)
      <3>1. SubSeq(data, 1, DeviceSize) \in Descriptor
        BY <2>2, DescriptorType DEF Learns, Pending
      <3>2. opened # <<>>
        <4>1. sessions \in Sessions /\ sessions # <<>>
          BY DEF TypeOK, Sessions
        <4>2. Len(opened) >= Len(sessions) /\ Len(sessions) > 0
          BY <4>1, EmptySeq, AppendProperties DEF opened, Sessions
        <4>. QED
          BY <4>1, <4>2, EmptySeq
      <3>3. Len(opened) \in 1 .. Len(opened)
        BY <1>1, <3>2, EmptySeq DEF Sessions
      <3>. QED
        BY <2>1, <2>2, <3>1, <3>3, <1>1, ExceptSeq DEF Sessions
    <2>. QED
      BY <2>1, <2>2
  <1>. QED
    BY <1>4, <1>6, <1>7

\* Every handler keeps the types.
LEMMA HandlerTypes ==
  ASSUME TypeOK, calls' \in Nat,
         NEW ep \in Endpoint, NEW id \in Ids, NEW setup \in Setup,
         NEW data \in Seq(Cells), Handler(ep, id, setup, data)
  PROVE  TypeOK'
  <1>. USE DEF TypeOK
  <1>1. CASE BeginControl(ep, id, setup, data)
    <2>1. [control |-> TRUE, setup |-> setup, data |-> data, serial |-> calls + 1]
              \in Pending
      BY DEF Pending
    <2>. QED
      BY <1>1, <2>1, KeyTypes DEF BeginControl
  <1>2. CASE AppendControl(ep, id, data)
    <2>. DEFINE key == ControlKey(ep, id)
    <2>1. key \in Keys
      BY KeyTypes
    <2>2. inflight[key] \in Pending
      BY <2>1
    <2>3. inflight[key].data \o data \in Seq(Cells)
      BY <2>2, ConcatProperties DEF Pending
    <2>4. [inflight[key] EXCEPT !.data = @ \o data] \in Pending
      BY <2>2, <2>3 DEF Pending
    <2>. QED
      BY <1>2, <2>1, <2>4 DEF AppendControl
  <1>3. CASE EndControl(ep, id, data)
    <2>. DEFINE key == ControlKey(ep, id)
                pending == inflight[key]
    <2>1. /\ key \in Keys /\ Undirected(ep) \in Endpoint
          /\ pending \in Pending
      BY KeyTypes
    <2>2. CASE ~(Found(key) /\ pending.control)
      BY <1>3, <2>2 DEF EndControl
    <2>3. CASE Found(key) /\ pending.control
      <3>1. /\ inflight' = [inflight EXCEPT ![key] = NoPending]
            /\ unmatched' = unmatched
            /\ DispatchControl(Undirected(ep), pending, ControlPayload(pending, data))
        BY <1>3, <2>3 DEF EndControl
      <3>2. ControlPayload(pending, data) \in Seq(Cells)
        BY <2>1, ControlPayloadType
      <3>3. sessions \in Sessions /\ sessions # <<>>
        BY DEF Sessions
      <3>4. sessions' \in Sessions /\ sessions' # <<>>
        BY <2>1, <3>1, <3>2, <3>3, DispatchControlSessions
      <3>5. log' \in Seq(Dispatch)
        BY <2>1, <3>1, <3>2, DispatchControlLog
      <3>6. inflight' \in [Keys -> Pending] /\ unmatched' \in Nat
        BY <3>1, <2>1, NoPendingType
      <3>. QED
        BY <3>4, <3>5, <3>6 DEF Sessions
    <2>. QED
      BY <2>2, <2>3
  <1>4. CASE BeginBulk(ep, id, data)
    <2>1. [control |-> FALSE, setup |-> ZeroSetup,
           data |-> IF ep.in THEN <<>> ELSE data, serial |-> calls + 1] \in Pending
      BY NoPendingType, EmptySeq DEF Pending
    <2>. QED
      BY <1>4, <2>1, KeyTypes DEF BeginBulk
  <1>5. CASE EndBulk(ep, id, data)
    <2>. DEFINE key == <<ep, id>>
                pending == inflight[key]
                d == [session |-> Len(sessions), endpoint |-> ep,
                      control |-> FALSE, setup |-> ZeroSetup,
                      data |-> BulkPayload(ep, pending, data),
                      serial |-> pending.serial]
    <2>1. key \in Keys /\ pending \in Pending
      BY KeyTypes
    <2>2. BulkPayload(ep, pending, data) \in Seq(Cells)
      BY <2>1 DEF BulkPayload, Pending
    <2>3. d \in Dispatch
      BY <2>1, <2>2, NoPendingType, LenProperties DEF Dispatch, Pending
    <2>4. log' = Append(log, d)
      BY <1>5 DEF EndBulk
    <2>5. log' \in Seq(Dispatch)
      BY <2>3, <2>4, AppendProperties
    <2>6. inflight' \in [Keys -> Pending] /\ unmatched' \in Nat
      BY <1>5, <2>1, NoPendingType DEF EndBulk
    <2>. QED
      BY <1>5, <2>5, <2>6 DEF EndBulk
  <1>6. CASE Abort(ep, id)
    BY <1>6, KeyTypes, NoPendingType DEF Abort
  <1>. QED
    BY <1>1, <1>2, <1>3, <1>4, <1>5, <1>6 DEF Handler

\* An event of Next is a handler called with some setup packet and payload.
LEMMA EventIsHandler ==
  ASSUME NEW ep \in Endpoint, NEW id \in Ids, Event(ep, id)
  PROVE  \E setup \in Setup, data \in Seq(Cells) : Handler(ep, id, setup, data)
  <1>1. ZeroSetup \in Setup /\ <<>> \in Seq(Cells)
    BY NoPendingType
  <1>2. CASE Abort(ep, id)
    BY <1>1, <1>2 DEF Handler
  <1>3. CASE \E data \in Payloads :
                \/ \E setup \in Setup : BeginControl(ep, id, setup, data)
                \/ AppendControl(ep, id, data)
                \/ EndControl(ep, id, data)
                \/ BeginBulk(ep, id, data)
                \/ EndBulk(ep, id, data)
    BY <1>1, <1>3 DEF Handler
  <1>. QED
    BY <1>2, <1>3 DEF Event

\* The types hold in every reachable state, whatever the capture holds.
THEOREM TypeCorrect == Spec => []TypeOK
  <1>1. Init => TypeOK
    <2>. SUFFICES ASSUME Init PROVE TypeOK
      OBVIOUS
    <2>1. /\ sessions \in Seq(Descriptor \cup {NoDescriptor})
          /\ sessions # <<>>
      BY DEF Init, NoDescriptor
    <2>. QED
      BY <2>1, NoPendingType, EmptySeq DEF Init, TypeOK
  <1>2. TypeOK /\ [Next]_vars => TypeOK'
    <2>. SUFFICES ASSUME TypeOK, [Next]_vars PROVE TypeOK'
      OBVIOUS
    <2>1. CASE Next
      <3>1. calls' \in Nat
        BY <2>1 DEF Next, TypeOK
      <3>. QED
        BY <2>1, <3>1, EventIsHandler, HandlerTypes DEF Next
    <2>2. CASE UNCHANGED vars
      BY <2>2 DEF vars, TypeOK
    <2>. QED
      BY <2>1, <2>2
  <1>. QED
    BY <1>1, <1>2, PTL DEF Spec

-----------------------------------------------------------------------------
(***************************************************************************)
(* No submission is used twice.                                            *)
(***************************************************************************)
\* What a handler may do to the submissions: file a new one, forget some, or
\* use one for a dispatch.
FilesOne ==
    /\ log' = log
    /\ \E key \in Keys :
          /\ inflight'[key].serial = calls + 1
          /\ \A k \in Keys \ {key} : inflight'[k] = inflight[k]
ForgetsSome ==
    /\ log' = log
    /\ \A k \in Keys : inflight'[k].serial \in {inflight[k].serial, 0}
UsesOne ==
    \E key \in Keys, d \in Dispatch :
        /\ log' = Append(log, d) /\ d.serial = inflight[key].serial
        /\ inflight'[key].serial = 0
        /\ \A k \in Keys \ {key} : inflight'[k] = inflight[k]

LEMMA HandlerSerials ==
  ASSUME TypeOK, NEW ep \in Endpoint, NEW id \in Ids, NEW setup \in Setup,
         NEW data \in Seq(Cells), Handler(ep, id, setup, data)
  PROVE  FilesOne \/ ForgetsSome \/ UsesOne
  <1>0. inflight \in [Keys -> Pending] /\ NoPending \in Pending /\ NoPending.serial = 0
    BY NoPendingType DEF TypeOK, NoPending
  <1>1. CASE BeginControl(ep, id, setup, data)
    BY <1>0, <1>1, KeyTypes DEF BeginControl, FilesOne
  <1>2. CASE AppendControl(ep, id, data)
    <2>1. ControlKey(ep, id) \in Keys
      BY KeyTypes
    <2>. QED
      BY <1>0, <1>2, <2>1 DEF AppendControl, ForgetsSome, Pending
  <1>3. CASE EndControl(ep, id, data)
    <2>. DEFINE key == ControlKey(ep, id)
                pending == inflight[key]
    <2>1. /\ key \in Keys /\ Undirected(ep) \in Endpoint
          /\ pending \in Pending
      BY <1>0, KeyTypes
    <2>2. CASE ~(Found(key) /\ pending.control)
      BY <1>3, <2>2 DEF EndControl, ForgetsSome
    <2>3. CASE Found(key) /\ pending.control
      <3>1. /\ inflight' = [inflight EXCEPT ![key] = NoPending]
            /\ DispatchControl(Undirected(ep), pending, ControlPayload(pending, data))
        BY <1>3, <2>3 DEF EndControl
      <3>2. ControlPayload(pending, data) \in Seq(Cells)
        BY <2>1, ControlPayloadType
      <3>. DEFINE d == log'[Len(log) + 1]
                  entry == [session |-> Len(sessions'), endpoint |-> Undirected(ep),
                            control |-> TRUE, setup |-> pending.setup,
                            data |-> ControlPayload(pending, data),
                            serial |-> pending.serial]
      <3>3. /\ log' \in Seq(Dispatch)
            /\ log' = Append(log, d)
            /\ d.serial = pending.serial
        <4>. HIDE DEF pending
        <4>1. /\ log' \in Seq(Dispatch)
              /\ log' = Append(log, log'[Len(log) + 1])
              /\ log'[Len(log) + 1] = entry
          BY <2>1, <3>1, <3>2, DispatchControlLog
        <4>. QED
          BY <4>1
      <3>4. d \in Dispatch
        <4>1. log \in Seq(Dispatch)
          BY DEF TypeOK
        <4>2. Len(log) + 1 \in 1 .. Len(log')
          BY <3>3, <4>1, LenOfAppend
        <4>. QED
          BY <3>3, <4>2, ElementOfSeq
      <3>5. /\ inflight'[key].serial = 0
            /\ \A k \in Keys \ {key} : inflight'[k] = inflight[k]
        BY <1>0, <2>1, <3>1
      <3>. HIDE DEF key, pending, d
      <3>6. \E k \in Keys, e \in Dispatch :
               /\ log' = Append(log, e) /\ e.serial = inflight[k].serial
               /\ inflight'[k].serial = 0
               /\ \A m \in Keys \ {k} : inflight'[m] = inflight[m]
        BY <2>1, <3>3, <3>4, <3>5 DEF pending
      <3>. QED
        BY <3>6 DEF UsesOne
    <2>. QED
      BY <2>2, <2>3
  <1>4. CASE BeginBulk(ep, id, data)
    BY <1>0, <1>4, KeyTypes DEF BeginBulk, FilesOne
  <1>5. CASE EndBulk(ep, id, data)
    <2>. DEFINE key == <<ep, id>>
                pending == inflight[key]
                d == [session |-> Len(sessions), endpoint |-> ep,
                      control |-> FALSE, setup |-> ZeroSetup,
                      data |-> BulkPayload(ep, pending, data),
                      serial |-> pending.serial]
    <2>1. key \in Keys /\ pending \in Pending
      BY <1>0, KeyTypes
    <2>2. BulkPayload(ep, pending, data) \in Seq(Cells)
      BY <2>1 DEF BulkPayload, Pending
    <2>3. d \in Dispatch
      BY <2>1, <2>2, NoPendingType, LenProperties DEF TypeOK, Dispatch, Pending
    <2>4. log' = Append(log, d) /\ inflight' = [inflight EXCEPT ![key] = NoPending]
      BY <1>5 DEF EndBulk
    <2>5. d.serial = inflight[key].serial
      OBVIOUS
    <2>6. /\ inflight'[key].serial = 0
          /\ \A k \in Keys \ {key} : inflight'[k] = inflight[k]
      BY <1>0, <2>1, <2>4
    <2>. HIDE DEF key, d
    <2>. QED
      BY <2>1, <2>3, <2>4, <2>5, <2>6 DEF UsesOne
  <1>6. CASE Abort(ep, id)
    BY <1>0, <1>6, KeyTypes DEF Abort, ForgetsSome
  <1>. QED
    BY <1>1, <1>2, <1>3, <1>4, <1>5, <1>6 DEF Handler

\* Any handler, called as the next event, keeps the submissions apart.
LEMMA HandlerSubmissions ==
  ASSUME TypeOK, TypeOK', SubmissionsDistinct, calls' = calls + 1,
         FilesOne \/ ForgetsSome \/ UsesOne
  PROVE  SubmissionsDistinct'
  <1>1. /\ \A k \in Keys : inflight[k].serial \in Nat /\ inflight'[k].serial \in Nat
        /\ calls \in Nat
        /\ log \in Seq(Dispatch)
        /\ \A i \in DOMAIN log : log[i].serial \in Nat
    <2>1. \A k \in Keys : inflight[k].serial \in Nat /\ inflight'[k].serial \in Nat
      BY DEF TypeOK, Pending
    <2>2. calls \in Nat /\ log \in Seq(Dispatch)
      BY DEF TypeOK
    <2>3. \A i \in DOMAIN log : log[i] \in Dispatch
      BY <2>2, ElementOfSeq, LenProperties
    <2>. QED
      BY <2>1, <2>2, <2>3 DEF Dispatch
  <1>2. CASE FilesOne
    <2>1. PICK key \in Keys :
             /\ inflight'[key].serial = calls + 1
             /\ \A k \in Keys \ {key} : inflight'[k] = inflight[k]
      BY <1>2 DEF FilesOne
    <2>2. log' = log
      BY <1>2 DEF FilesOne
    <2>3. \A k \in Keys : inflight'[k].serial <= calls'
      BY <1>1, <2>1 DEF SubmissionsDistinct
    <2>4. \A i \in DOMAIN log' : log'[i].serial <= calls'
      BY <1>1, <2>2 DEF SubmissionsDistinct
    <2>5. \A k, m \in Keys : k # m /\ inflight'[k].serial = inflight'[m].serial =>
             inflight'[k].serial = 0
      BY <1>1, <2>1 DEF SubmissionsDistinct
    <2>6. \A i \in DOMAIN log', k \in Keys : log'[i].serial = inflight'[k].serial =>
             log'[i].serial = 0
      BY <1>1, <2>1, <2>2 DEF SubmissionsDistinct
    <2>7. NoReplay'
      BY <2>2 DEF SubmissionsDistinct, NoReplay
    <2>. QED
      BY <2>3, <2>4, <2>5, <2>6, <2>7 DEF SubmissionsDistinct
  <1>3. CASE ForgetsSome
    BY <1>1, <1>3 DEF ForgetsSome, SubmissionsDistinct, NoReplay
  <1>4. CASE UsesOne
    <2>1. PICK key \in Keys, d \in Dispatch :
             /\ log' = Append(log, d) /\ d.serial = inflight[key].serial
             /\ inflight'[key].serial = 0
             /\ \A k \in Keys \ {key} : inflight'[k] = inflight[k]
      BY <1>4 DEF UsesOne
    <2>2. /\ Len(log) \in Nat
          /\ DOMAIN log = 1 .. Len(log) /\ DOMAIN log' = 1 .. Len(log) + 1
          /\ \A i \in 1 .. Len(log) : log'[i] = log[i]
          /\ log'[Len(log) + 1] = d
      BY <1>1, <2>1, AppendProperties, LenProperties
    <2>3. \A k \in Keys : inflight'[k].serial <= calls'
      BY <1>1, <2>1 DEF SubmissionsDistinct
    <2>4. \A i \in DOMAIN log' : log'[i].serial <= calls'
      BY <1>1, <2>1, <2>2 DEF SubmissionsDistinct
    <2>5. \A k, m \in Keys : k # m /\ inflight'[k].serial = inflight'[m].serial =>
             inflight'[k].serial = 0
      BY <1>1, <2>1 DEF SubmissionsDistinct
    <2>6. \A i \in DOMAIN log', k \in Keys : log'[i].serial = inflight'[k].serial =>
             log'[i].serial = 0
      BY <1>1, <2>1, <2>2 DEF SubmissionsDistinct
    <2>7. NoReplay'
      BY <1>1, <2>1, <2>2 DEF SubmissionsDistinct, NoReplay
    <2>. QED
      BY <2>3, <2>4, <2>5, <2>6, <2>7 DEF SubmissionsDistinct
  <1>. QED
    BY <1>2, <1>3, <1>4

\* A submission is dispatched at most once, in every capture.
THEOREM EachSubmissionOnce == Spec => []NoReplay
  <1>1. Init => SubmissionsDistinct
    BY DEF Init, SubmissionsDistinct, NoReplay, NoPending
  <1>2. TypeOK /\ TypeOK' /\ SubmissionsDistinct /\ [Next]_vars => SubmissionsDistinct'
    <2>. SUFFICES ASSUME TypeOK, TypeOK', SubmissionsDistinct, [Next]_vars
                  PROVE  SubmissionsDistinct'
      OBVIOUS
    <2>1. CASE Next
      BY <2>1, EventIsHandler, HandlerSerials, HandlerSubmissions DEF Next
    <2>2. CASE UNCHANGED vars
      BY <2>2 DEF vars, SubmissionsDistinct, NoReplay
    <2>. QED
      BY <2>1, <2>2
  <1>3. SubmissionsDistinct => NoReplay
    BY DEF SubmissionsDistinct
  <1>. QED
    BY <1>1, <1>2, <1>3, TypeCorrect, PTL DEF Spec

-----------------------------------------------------------------------------
(***************************************************************************)
(* A session stands for one device.                                        *)
(***************************************************************************)
\* No handler rewrites a session's device, and one that opens a session
\* leaves an identified one behind.
LEMMA HandlerSessions ==
  ASSUME TypeOK, NEW ep \in Endpoint, NEW id \in Ids, NEW setup \in Setup,
         NEW data \in Seq(Cells), Handler(ep, id, setup, data)
  PROVE  /\ Len(sessions') \in {Len(sessions), Len(sessions) + 1}
         /\ \A i \in 1 .. Len(sessions) :
               sessions[i] # NoDescriptor => sessions'[i] = sessions[i]
         /\ Len(sessions') = Len(sessions) + 1 => Current # NoDescriptor
         /\ \A i \in 1 .. Len(sessions) - 1 : sessions'[i] = sessions[i]
  <1>. SUFFICES ASSUME sessions' # sessions PROVE
          \E p \in Pending, d \in Seq(Cells) : DispatchControl(Undirected(ep), p, d)
    <2>1. sessions \in Sessions /\ sessions # <<>> /\ Len(sessions) \in Nat
      BY LenProperties DEF TypeOK, Sessions
    <2>2. CASE sessions' = sessions
      BY <2>1, <2>2
    <2>3. ASSUME NEW p \in Pending, NEW d \in Seq(Cells),
                 DispatchControl(Undirected(ep), p, d)
          PROVE  /\ Len(sessions') \in {Len(sessions), Len(sessions) + 1}
                 /\ \A i \in 1 .. Len(sessions) :
                       sessions[i] # NoDescriptor => sessions'[i] = sessions[i]
                 /\ Len(sessions') = Len(sessions) + 1 => Current # NoDescriptor
                 /\ \A i \in 1 .. Len(sessions) - 1 : sessions'[i] = sessions[i]
      BY <2>1, <2>3, KeyTypes, DispatchControlSessions
    <2>. QED
      BY <2>2, <2>3
  <1>1. EndControl(ep, id, data)
    BY DEF Handler, BeginControl, AppendControl, BeginBulk, EndBulk, Abort
  <1>. DEFINE pending == inflight[ControlKey(ep, id)]
  <1>2. /\ pending \in Pending
        /\ ControlPayload(pending, data) \in Seq(Cells)
    BY KeyTypes, ControlPayloadType DEF TypeOK
  <1>3. DispatchControl(Undirected(ep), pending, ControlPayload(pending, data))
    BY <1>1 DEF EndControl
  <1>. HIDE DEF pending
  <1>. QED
    BY <1>2, <1>3

\* The device of a session is never replaced and no session disappears.
THEOREM SessionsKeepTheirDevice == Spec => SessionIdentityStable
  <1>1. TypeOK /\ [Next]_vars =>
           [/\ Len(sessions') \in {Len(sessions), Len(sessions) + 1}
            /\ \A i \in DOMAIN sessions :
                  sessions[i] # NoDescriptor => sessions'[i] = sessions[i]]_vars
    <2>. SUFFICES ASSUME TypeOK, Next
                  PROVE  /\ Len(sessions') \in {Len(sessions), Len(sessions) + 1}
                         /\ \A i \in DOMAIN sessions :
                               sessions[i] # NoDescriptor => sessions'[i] = sessions[i]
      OBVIOUS
    <2>1. DOMAIN sessions = 1 .. Len(sessions)
      BY LenProperties DEF TypeOK
    <2>. QED
      BY <2>1, EventIsHandler, HandlerSessions DEF Next
  <1>. QED
    BY <1>1, TypeCorrect, PTL DEF Spec, SessionIdentityStable

\* Only the last session of an address can be without a device.
THEOREM OnlyLastSessionUnidentified == Spec => []LeftSessionsIdentified
  <1>1. Init => LeftSessionsIdentified
    BY DEF Init, LeftSessionsIdentified
  <1>2. TypeOK /\ TypeOK' /\ LeftSessionsIdentified /\ [Next]_vars
           => LeftSessionsIdentified'
    <2>. SUFFICES ASSUME TypeOK, TypeOK', LeftSessionsIdentified, [Next]_vars
                  PROVE  LeftSessionsIdentified'
      OBVIOUS
    <2>1. /\ DOMAIN sessions = 1 .. Len(sessions) /\ Len(sessions) \in Nat \ {0}
          /\ DOMAIN sessions' = 1 .. Len(sessions') /\ Len(sessions') \in Nat \ {0}
      BY LenProperties, EmptySeq DEF TypeOK
    <2>2. CASE UNCHANGED vars
      BY <2>2 DEF vars, LeftSessionsIdentified
    <2>3. CASE Next
      <3>. DEFINE n == Len(sessions)
                  m == Len(sessions')
      <3>1. /\ m \in {n, n + 1}
            /\ \A i \in 1 .. n :
                  sessions[i] # NoDescriptor => sessions'[i] = sessions[i]
            /\ m = n + 1 => sessions[n] # NoDescriptor
        BY <2>3, EventIsHandler, HandlerSessions DEF Next, Current
      <3>2. /\ n \in Nat \ {0} /\ m \in Nat \ {0}
            /\ DOMAIN sessions = 1 .. n /\ DOMAIN sessions' = 1 .. m
        BY <2>1
      <3>3. \A i \in 1 .. n : i < n => sessions[i] # NoDescriptor
        BY <3>2 DEF LeftSessionsIdentified
      <3>. HIDE DEF n, m
      <3>4. ASSUME NEW i \in 1 .. m, i < m
            PROVE  sessions'[i] # NoDescriptor
        <4>1. i \in 1 .. n /\ (i < n \/ (i = n /\ m = n + 1))
          BY <3>1, <3>2, <3>4
        <4>. QED
          BY <3>1, <3>3, <4>1
      <3>. QED
        BY <3>2, <3>4 DEF LeftSessionsIdentified, m
    <2>. QED
      BY <2>2, <2>3
  <1>. QED
    BY <1>1, <1>2, TypeCorrect, PTL DEF Spec

-----------------------------------------------------------------------------
(***************************************************************************)
(* The order of the sessions.                                              *)
(***************************************************************************)
\* What a handler may do to the log: leave it and the sessions alone, or
\* append a transfer of the last session, whose device it may have been the
\* descriptor read of.
Reports(d) ==
    /\ d \in Dispatch /\ log' = Append(log, d)
    /\ d.session = Len(sessions')
    /\ \A n \in 1 .. Len(sessions') : sessions'[n] # NoDescriptor =>
          \/ n \in 1 .. Len(sessions) /\ sessions'[n] = sessions[n]
          \/ /\ n = Len(sessions')
             /\ FullDeviceRead(d.setup, d.data)
             /\ SubSeq(d.data, 1, DeviceSize) = sessions'[n]

LEMMA HandlerReports ==
  ASSUME TypeOK, NEW ep \in Endpoint, NEW id \in Ids, NEW setup \in Setup,
         NEW data \in Seq(Cells), Handler(ep, id, setup, data)
  PROVE  UNCHANGED <<sessions, log>> \/ \E d \in Dispatch : Reports(d)
  <1>1. CASE EndControl(ep, id, data)
    <2>. DEFINE pending == inflight[ControlKey(ep, id)]
                payload == ControlPayload(pending, data)
                d == log'[Len(log) + 1]
    <2>1. /\ pending \in Pending /\ payload \in Seq(Cells)
          /\ Undirected(ep) \in Endpoint
          /\ sessions \in Sessions /\ sessions # <<>> /\ log \in Seq(Dispatch)
      BY KeyTypes, ControlPayloadType DEF TypeOK, Sessions
    <2>2. UNCHANGED <<sessions, log>>
             \/ DispatchControl(Undirected(ep), pending, payload)
      BY <1>1 DEF EndControl
    <2>. HIDE DEF pending, payload
    <2>3. CASE DispatchControl(Undirected(ep), pending, payload)
      <3>. DEFINE entry == [session |-> Len(sessions'), endpoint |-> Undirected(ep),
                            control |-> TRUE, setup |-> pending.setup,
                            data |-> payload, serial |-> pending.serial]
      <3>1. log' \in Seq(Dispatch) /\ log' = Append(log, d) /\ d = entry
        BY <2>1, <2>3, DispatchControlLog
      <3>2. d \in Dispatch
        <4>1. Len(log) + 1 \in 1 .. Len(log')
          BY <2>1, <3>1, LenOfAppend
        <4>. QED
          BY <3>1, <4>1, ElementOfSeq
      <3>3. /\ entry.session = Len(sessions')
            /\ entry.setup = pending.setup /\ entry.data = payload
        OBVIOUS
      <3>4. \A n \in 1 .. Len(sessions') : sessions'[n] # NoDescriptor =>
               \/ n \in 1 .. Len(sessions) /\ sessions'[n] = sessions[n]
               \/ /\ n = Len(sessions')
                  /\ FullDeviceRead(pending.setup, payload)
                  /\ SubSeq(payload, 1, DeviceSize) = sessions'[n]
        BY <2>1, <2>3, DispatchControlSessions
      <3>. HIDE DEF entry, d
      <3>5. Reports(d)
        BY <3>1, <3>2, <3>3, <3>4 DEF Reports
      <3>. QED
        BY <3>2, <3>5
    <2>. QED
      BY <2>2, <2>3
  <1>2. CASE EndBulk(ep, id, data)
    <2>. DEFINE pending == inflight[<<ep, id>>]
                d == [session |-> Len(sessions), endpoint |-> ep,
                      control |-> FALSE, setup |-> ZeroSetup,
                      data |-> BulkPayload(ep, pending, data),
                      serial |-> pending.serial]
    <2>1. pending \in Pending /\ Len(sessions) \in Nat
      BY KeyTypes, LenProperties DEF TypeOK
    <2>2. BulkPayload(ep, pending, data) \in Seq(Cells)
      BY <2>1 DEF BulkPayload, Pending
    <2>3. d \in Dispatch /\ d.session = Len(sessions)
      BY <2>1, <2>2, NoPendingType DEF Dispatch, Pending
    <2>4. log' = Append(log, d) /\ sessions' = sessions
      BY <1>2 DEF EndBulk
    <2>. HIDE DEF d
    <2>. QED
      BY <2>3, <2>4 DEF Reports
  <1>. QED
    BY <1>1, <1>2 DEF Handler, BeginControl, AppendControl, BeginBulk, Abort

\* Inductive: a transfer is in a session there is.
LoggedSessions ==
    /\ \A i \in DOMAIN log : log[i].session \in 1 .. Len(sessions)
    /\ SessionsInCaptureOrder

LEMMA ReportKeepsOrder ==
  ASSUME TypeOK, TypeOK', LoggedSessions, NEW d \in Dispatch, Reports(d),
         Len(sessions') \in {Len(sessions), Len(sessions) + 1}
  PROVE  LoggedSessions'
  <1>1. /\ log \in Seq(Dispatch) /\ Len(log) \in Nat
        /\ log' \in Seq(Dispatch)
        /\ DOMAIN log = 1 .. Len(log) /\ DOMAIN log' = 1 .. Len(log) + 1
        /\ \A i \in 1 .. Len(log) : log'[i] = log[i]
        /\ log'[Len(log) + 1] = d
    BY AppendProperties, LenProperties DEF TypeOK, Reports
  <1>2. /\ Len(sessions) \in Nat /\ Len(sessions') \in Nat \ {0}
        /\ DOMAIN sessions = 1 .. Len(sessions) /\ DOMAIN sessions' = 1 .. Len(sessions')
    BY LenProperties, EmptySeq DEF TypeOK
  <1>3. d.session = Len(sessions')
    BY DEF Reports
  <1>. DEFINE n == Len(sessions)
              m == Len(sessions')
              k == Len(log)
  <1>4. /\ \A i \in 1 .. k : log[i].session \in 1 .. n
        /\ \A i, j \in 1 .. k : i <= j => log[i].session <= log[j].session
    BY <1>1 DEF LoggedSessions, SessionsInCaptureOrder
  <1>5. n \in Nat /\ m \in Nat \ {0} /\ n <= m /\ d.session = m /\ k \in Nat
    <2>1. d.session = m /\ n \in Nat /\ m \in Nat \ {0} /\ k \in Nat /\ m \in {n, n + 1}
      BY <1>1, <1>2, <1>3
    <2>. HIDE DEF n, m, k
    <2>. QED
      BY <2>1
  <1>6. \A i \in DOMAIN log' : log'[i].session \in 1 .. Len(sessions')
    <2>1. SUFFICES ASSUME NEW i \in 1 .. k + 1 PROVE log'[i].session \in 1 .. m
      BY <1>1
    <2>. HIDE DEF n, m, k
    <2>2. CASE i = k + 1
      BY <1>1, <1>5, <2>2 DEF k
    <2>3. CASE i \in 1 .. k
      BY <1>1, <1>4, <1>5, <2>3 DEF k
    <2>. QED
      BY <1>5, <2>1, <2>2, <2>3
  <1>7. \A i, j \in DOMAIN log' : i <= j => log'[i].session <= log'[j].session
    <2>1. SUFFICES ASSUME NEW i \in 1 .. k + 1, NEW j \in 1 .. k + 1, i <= j
                   PROVE  log'[i].session <= log'[j].session
      BY <1>1
    <2>2. log'[i].session \in 1 .. m
      BY <1>1, <1>6
    <2>3. CASE j = k + 1
      BY <1>1, <1>5, <2>2, <2>3
    <2>4. CASE i \in 1 .. k /\ j \in 1 .. k
      BY <1>1, <1>4, <2>1, <2>4
    <2>. QED
      BY <1>5, <2>1, <2>3, <2>4
  <1>. HIDE DEF n, m, k
  <1>8. ASSUME NEW s \in DOMAIN sessions', sessions'[s] # NoDescriptor
        PROVE  \E i \in DOMAIN log' :
                   /\ log'[i].session = s
                   /\ FullDeviceRead(log'[i].setup, log'[i].data)
                   /\ SubSeq(log'[i].data, 1, DeviceSize) = sessions'[s]
    <2>1. CASE s \in 1 .. Len(sessions) /\ sessions'[s] = sessions[s]
      <3>1. PICK i \in DOMAIN log :
                   /\ log[i].session = s
                   /\ FullDeviceRead(log[i].setup, log[i].data)
                   /\ SubSeq(log[i].data, 1, DeviceSize) = sessions[s]
        BY <1>2, <1>8, <2>1 DEF LoggedSessions, SessionsInCaptureOrder
      <3>2. i \in DOMAIN log' /\ log'[i] = log[i]
        BY <1>1, <3>1
      <3>. QED
        BY <2>1, <3>1, <3>2
    <2>2. CASE /\ s = Len(sessions')
               /\ FullDeviceRead(d.setup, d.data)
               /\ SubSeq(d.data, 1, DeviceSize) = sessions'[s]
      <3>1. Len(log) + 1 \in DOMAIN log'
        BY <1>1
      <3>. QED
        BY <1>1, <1>3, <2>2, <3>1
    <2>. QED
      BY <1>2, <1>8, <2>1, <2>2 DEF Reports
  <1>. QED
    BY <1>6, <1>7, <1>8 DEF LoggedSessions, SessionsInCaptureOrder, FullDeviceRead

\* The experts are given the traffic of the sessions in the order of the
\* capture, and no session has a descriptor nobody read in it.
THEOREM SessionsOrdered == Spec => []SessionsInCaptureOrder
  <1>1. Init => LoggedSessions
    BY DEF Init, LoggedSessions, SessionsInCaptureOrder, NoDescriptor
  <1>2. TypeOK /\ TypeOK' /\ LoggedSessions /\ [Next]_vars => LoggedSessions'
    <2>. SUFFICES ASSUME TypeOK, TypeOK', LoggedSessions, [Next]_vars
                  PROVE  LoggedSessions'
      OBVIOUS
    <2>1. CASE UNCHANGED <<sessions, log>>
      BY <2>1 DEF LoggedSessions, SessionsInCaptureOrder, FullDeviceRead
    <2>2. CASE Next
      <3>1. PICK ep \in Endpoint, id \in Ids, setup \in Setup, data \in Seq(Cells) :
                Handler(ep, id, setup, data)
        BY <2>2, EventIsHandler DEF Next
      <3>2. Len(sessions') \in {Len(sessions), Len(sessions) + 1}
        BY <3>1, HandlerSessions
      <3>3. UNCHANGED <<sessions, log>> \/ \E d \in Dispatch : Reports(d)
        BY <3>1, HandlerReports
      <3>. QED
        BY <2>1, <3>2, <3>3, ReportKeepsOrder
    <2>. QED
      BY <2>1, <2>2 DEF vars
  <1>3. LoggedSessions => SessionsInCaptureOrder
    BY DEF LoggedSessions
  <1>. QED
    BY <1>1, <1>2, <1>3, TypeCorrect, PTL DEF Spec

-----------------------------------------------------------------------------
(***************************************************************************)
(* Part 2: a DeviceHandle fed by a capture of a bus.                       *)
(***************************************************************************)
USE CaptureAssumption DEF CaptureAssumption

\* What a capture format and the USB protocol say of an outstanding transfer.
WellFormed(t) ==
    IF t.control
    THEN /\ t.ep.num = 0 /\ t.ep.in = t.setup.in
         /\ Len(t.data) <= t.setup.wLength
         /\ t.setup.in => t.stage # "submit"
    ELSE /\ t.setup = ZeroSetup /\ t.stage # "data"
         /\ t.ep.in => t.stage # "submit"

BusOK ==
    /\ bus \in [Ids -> Transfer]
    /\ attached \in Devices
    /\ capturing \in BOOLEAN
    /\ \A id \in Ids : bus[id].busy => WellFormed(bus[id])

\* The capture tool may miss submissions or completions, not both.
OneSidedLoss == "submit" \notin LostEvents \/ "complete" \notin LostEvents

-----------------------------------------------------------------------------
\* What a device answers to a descriptor read is a payload of the right size.
LEMMA DescriptorPrefix ==
  ASSUME NEW d \in Devices, NEW n \in {1, DeviceSize}
  PROVE  /\ SubSeq(DescriptorOf(d), 1, n) \in Seq(Cells)
         /\ Len(SubSeq(DescriptorOf(d), 1, n)) = n
  <1>1. DescriptorOf(d) \in Seq(Cells) /\ Len(DescriptorOf(d)) = 2
    <2>1. DeviceHeader \in Cells /\ d \in Cells
      OBVIOUS
    <2>. QED
      BY <2>1 DEF DescriptorOf
  <1>2. n \in 0 .. Len(DescriptorOf(d))
    BY <1>1 DEF DeviceSize
  <1>. QED
    BY <1>1, <1>2, PrefixType

\* Every transfer the host submits is well formed.
LEMMA SubmittedTransfer ==
  ASSUME attached \in Devices, NEW t \in ControlTransfers \cup BulkTransfers
  PROVE  t \in Transfer /\ t.busy /\ ~t.moved /\ WellFormed(t)
  <1>1. CASE t \in ControlTransfers
    <2>. DEFINE D == Answers \cup {SubSeq(DescriptorOf(attached), 1, n) : n \in 1 .. 2}
                Zero == {ep \in Endpoint : ep.num = 0}
    <2>0. /\ t \in [busy : {TRUE}, ep : Zero, control : {TRUE},
                    setup : DescriptorReads \cup Requests, data : D,
                    stage : Stages, moved : {FALSE}, seen : BOOLEAN]
          /\ t.ep.in = t.setup.in
          /\ t.setup.in => t.stage # "submit"
      BY <1>1 DEF ControlTransfers
    <2>. HIDE DEF D
    <2>1. /\ t.busy = TRUE /\ t.moved = FALSE /\ t.control = TRUE /\ t.seen \in BOOLEAN
          /\ t.ep \in Endpoint /\ t.ep.num = 0
          /\ t.setup \in DescriptorReads \cup Requests
          /\ t.stage \in Stages
      BY <2>0
    <2>2. IF t.setup.deviceRead
          THEN t.data = SubSeq(DescriptorOf(attached), 1, t.setup.wLength)
          ELSE t.data \in Answers /\ Len(t.data) <= t.setup.wLength
      BY <1>1 DEF ControlTransfers
    <2>3. t.setup \in Setup
      <3>1. ASSUME NEW n \in {1, DeviceSize}
            PROVE  [in |-> TRUE, deviceRead |-> TRUE, wLength |-> n] \in Setup
        BY DEF Setup
      <3>2. DescriptorReads \subseteq Setup
        BY <3>1 DEF DescriptorReads
      <3>. QED
        BY <2>1, <3>2
    <2>4. t.data \in Seq(Cells) /\ Len(t.data) <= t.setup.wLength
      <3>1. CASE t.setup \in DescriptorReads
        <4>1. t.setup.deviceRead /\ t.setup.wLength \in {1, DeviceSize}
          BY <3>1 DEF DescriptorReads
        <4>2. t.data \in Seq(Cells) /\ Len(t.data) = t.setup.wLength
          BY <2>2, <4>1, DescriptorPrefix
        <4>. QED
          BY <4>1, <4>2 DEF DeviceSize
      <3>2. CASE t.setup \in Requests /\ t.setup \notin DescriptorReads
        BY <2>2, <3>2
      <3>. QED
        BY <2>1, <3>1, <3>2
    <2>5. t \in Transfer
      BY <2>0, <2>1, <2>3, <2>4 DEF Transfer
    <2>. QED
      BY <2>0, <2>1, <2>4, <2>5 DEF WellFormed
  <1>2. CASE t \in BulkTransfers
    <2>. DEFINE NonZero == {ep \in Endpoint : ep.num # 0}
                S == Stages \ {"data"}
    <2>0. /\ t \in [busy : {TRUE}, ep : NonZero, control : {FALSE},
                    setup : {ZeroSetup}, data : Answers, stage : S,
                    moved : {FALSE}, seen : BOOLEAN]
          /\ t.ep.in => t.stage # "submit"
      BY <1>2 DEF BulkTransfers
    <2>1. /\ t.busy = TRUE /\ t.moved = FALSE /\ t.control = FALSE /\ t.seen \in BOOLEAN
          /\ t.ep \in Endpoint /\ t.setup = ZeroSetup
          /\ t.stage \in Stages /\ t.stage # "data"
          /\ t.data \in Answers
      BY <2>0
    <2>2. t.data \in Seq(Cells) /\ t.setup \in Setup
      BY <2>1, NoPendingType
    <2>3. t \in Transfer
      BY <2>0, <2>1, <2>2 DEF Transfer
    <2>. QED
      BY <2>0, <2>1, <2>3 DEF WellFormed
  <1>. QED
    BY <1>1, <1>2

\* A well formed transfer is filed under a key of its own identifier.
LEMMA KeyOfTransfer ==
  ASSUME NEW id \in Ids, NEW t \in Transfer
  PROVE  /\ KeyOf(t, id) \in Keys /\ KeyOf(t, id)[2] = id
         /\ t.ep \in Endpoint
         /\ KeyOf(t, id) = <<KeyOf(t, id)[1], id>>
         /\ KeyOf(t, id)[1] \in Endpoint
         /\ KeyOf(t, id)[1] = IF t.control THEN Undirected(t.ep) ELSE t.ep
         /\ t.control => KeyOf(t, id) = ControlKey(t.ep, id)
         /\ ~t.control => KeyOf(t, id) = <<t.ep, id>>
  <1>1. t.ep \in Endpoint
    BY DEF Transfer
  <1>. QED
    BY <1>1, KeyTypes DEF KeyOf, ControlKey, Keys

\* The payload an event carries is a payload.
LEMMA CarriedType ==
  ASSUME NEW t \in Transfer, NEW stage
  PROVE  Carried(t, stage) \in Seq(Cells) /\ Shown(t) \in Seq(Cells)
  BY EmptySeq DEF Carried, Shown, Transfer

\* endControl picks the payload from the event that carried it.
LEMMA ControlDataRight ==
  ASSUME NEW t \in Transfer, WellFormed(t), t.control,
         t.stage = "data" => t.moved,
         NEW p \in Pending, p.setup = t.setup, p.data = Shown(t)
  PROVE  ControlPayload(p, Carried(t, "complete")) = t.data
  <1>. DEFINE data   == Carried(t, "complete")
              first  == IF p.setup.in THEN data ELSE p.data
              second == IF p.setup.in THEN p.data ELSE data
              chosen == IF first # <<>> THEN first ELSE second
              wanted == p.setup.wLength
  <1>1. t.stage \in {"submit", "data", "complete"} /\ t.data \in Seq(Cells)
    BY DEF Transfer
  <1>2. chosen = t.data
    BY <1>1 DEF Carried, Shown, WellFormed
  <1>3. Len(t.data) <= wanted /\ Len(t.data) \in Nat /\ wanted \in Nat
    <2>1. Len(t.data) \in Nat
      BY <1>1, LenProperties
    <2>2. wanted \in Nat
      BY DEF Pending, Setup
    <2>. QED
      BY <2>1, <2>2 DEF WellFormed
  <1>4. ControlPayload(p, data) =
           SubSeq(chosen, 1, IF Len(chosen) < wanted THEN Len(chosen) ELSE wanted)
    BY DEF ControlPayload
  <1>. HIDE DEF chosen, wanted, data
  <1>5. (IF Len(chosen) < wanted THEN Len(chosen) ELSE wanted) = Len(t.data)
    BY <1>2, <1>3
  <1>6. SubSeq(t.data, 1, Len(t.data)) = t.data
    <2>1. Len(t.data) \in 0 .. Len(t.data)
      BY <1>3
    <2>2. /\ SubSeq(t.data, 1, Len(t.data)) \in Seq(Cells)
          /\ Len(SubSeq(t.data, 1, Len(t.data))) = Len(t.data)
          /\ SubSeq(t.data, 1, Len(t.data)) = [i \in 1 .. Len(t.data) |-> t.data[i]]
      BY <1>1, <2>1, PrefixType
    <2>3. \A i \in 1 .. Len(t.data) : SubSeq(t.data, 1, Len(t.data))[i] = t.data[i]
      BY <2>2
    <2>. QED
      BY <1>1, <2>2, <2>3, SeqEqual
  <1>7. ControlPayload(p, data) = t.data
    BY <1>2, <1>4, <1>5, <1>6
  <1>. QED
    BY <1>7 DEF data

\* endBulk picks the payload from the event that carried it.
LEMMA BulkDataRight ==
  ASSUME NEW t \in Transfer, WellFormed(t), ~t.control,
         NEW p \in Pending, p.data = Shown(t)
  PROVE  BulkPayload(t.ep, p, Carried(t, "complete")) = t.data
  <1>1. t.stage \in {"submit", "data", "complete"} /\ t.data \in Seq(Cells)
    BY DEF Transfer
  <1>. QED
    BY <1>1 DEF BulkPayload, Carried, Shown, WellFormed

-----------------------------------------------------------------------------
(***************************************************************************)
(* The inductive invariant, and one lemma per action.                      *)
(***************************************************************************)
CaptureInv == TypeOK /\ BusOK /\ InflightTracksBus /\ UnmatchedIsOrphans

\* An event touches the entries of its own identifier only; the invariant
\* follows from what it leaves there.
LEMMA LocalChange ==
  ASSUME CaptureInv, TypeOK', NEW id \in Ids, NEW u \in Transfer,
         bus' = [bus EXCEPT ![id] = u], capturing' = capturing,
         \A j \in Ids \ {id}, ep \in Endpoint :
             inflight'[<<ep, j>>] = inflight[<<ep, j>>],
         u.busy /\ u.seen =>
             /\ inflight'[KeyOf(u, id)].serial # 0
             /\ inflight'[KeyOf(u, id)].control = u.control
             /\ inflight'[KeyOf(u, id)].setup = u.setup
             /\ inflight'[KeyOf(u, id)].data = Shown(u),
         u.busy /\ ~u.seen => \A ep \in Endpoint : inflight'[<<ep, id>>].serial = 0,
         "complete" \notin LostEvents =>
             \A ep \in Endpoint : inflight'[<<ep, id>>].serial # 0 =>
                 u.busy /\ u.seen /\ KeyOf(u, id) = <<ep, id>>,
         ~capturing => inflight' = inflight /\ ~u.seen
  PROVE  InflightTracksBus'
  <1>1. bus \in [Ids -> Transfer] /\ bus'[id] = u
        /\ \A j \in Ids \ {id} : bus'[j] = bus[j]
    BY DEF CaptureInv, BusOK
  <1>2. \A j \in Ids : bus'[j].busy /\ bus'[j].seen => Holds(bus[j], j)'
    <2>1. SUFFICES ASSUME NEW j \in Ids, bus'[j].busy, bus'[j].seen
                   PROVE  Holds(bus[j], j)'
      OBVIOUS
    <2>2. CASE j = id
      BY <1>1, <2>1, <2>2 DEF Holds, KeyOf, Shown
    <2>3. CASE j # id
      <3>1. Holds(bus[j], j) /\ bus[j] \in Transfer /\ bus'[j] = bus[j]
        BY <1>1, <2>1, <2>3 DEF CaptureInv, InflightTracksBus
      <3>2. inflight'[KeyOf(bus[j], j)] = inflight[KeyOf(bus[j], j)]
        BY <2>3, <3>1, KeyOfTransfer
      <3>. QED
        BY <3>1, <3>2 DEF Holds, KeyOf, Shown
    <2>. QED
      BY <2>2, <2>3
  <1>3. \A j \in Ids : bus'[j].busy /\ ~bus'[j].seen =>
            \A ep \in Endpoint : Found(<<ep, j>>)' = FALSE
    BY <1>1 DEF CaptureInv, InflightTracksBus, Found
  <1>4. "complete" \notin LostEvents =>
           \A j \in Ids, ep \in Endpoint : Found(<<ep, j>>)' =>
               bus'[j].busy /\ bus'[j].seen /\ KeyOf(bus'[j], j) = <<ep, j>>
    <2>1. SUFFICES ASSUME "complete" \notin LostEvents,
                          NEW j \in Ids, NEW ep \in Endpoint, Found(<<ep, j>>)'
                   PROVE  bus'[j].busy /\ bus'[j].seen /\ KeyOf(bus'[j], j) = <<ep, j>>
      OBVIOUS
    <2>2. CASE j = id
      BY <1>1, <2>1, <2>2 DEF Found
    <2>3. CASE j # id
      BY <1>1, <2>1, <2>3 DEF CaptureInv, InflightTracksBus, Found
    <2>. QED
      BY <2>2, <2>3
  <1>5. ~capturing' => /\ \A key \in Keys : Found(key)' = FALSE
                       /\ \A j \in Ids : ~bus'[j].seen
    BY <1>1 DEF CaptureInv, InflightTracksBus, Found
  <1>. QED
    BY <1>2, <1>3, <1>4, <1>5 DEF InflightTracksBus, KeyOf, Found

\* The keys of two identifiers are different keys.
LEMMA OtherKeys ==
  ASSUME NEW id \in Ids, NEW j \in Ids \ {id}, NEW ep \in Endpoint, NEW e \in Endpoint
  PROVE  <<e, j>> \in Keys /\ <<e, j>> # <<ep, id>> /\ <<e, j>> # ControlKey(ep, id)
  BY DEF ControlKey, Keys

LEMMA SubmitStep ==
  ASSUME CaptureInv, OneSidedLoss, calls' = calls + 1,
         NEW id \in Ids, Submit(id)
  PROVE  CaptureInv' /\ Delivery
  <1>1. PICK t \in ControlTransfers \cup BulkTransfers :
           /\ bus' = [bus EXCEPT ![id] = t]
           /\ \/ /\ t.seen /\ capturing
                 /\ IF t.control THEN BeginControl(t.ep, id, t.setup, Carried(t, "submit"))
                                 ELSE BeginBulk(t.ep, id, Carried(t, "submit"))
                 /\ UNCHANGED <<delivered, orphans, owners>>
              \/ ~t.seen /\ MayMiss("submit") /\ Missed
    BY DEF Submit
  <1>2. ~bus[id].busy /\ UNCHANGED <<attached, enumerated, capturing>>
    BY DEF Submit
  <1>3. t \in Transfer /\ t.busy /\ ~t.moved /\ WellFormed(t)
    BY <1>1, SubmittedTransfer DEF CaptureInv, BusOK
  <1>4. /\ TypeOK /\ InflightTracksBus /\ calls' \in Nat
        /\ bus \in [Ids -> Transfer] /\ inflight \in [Keys -> Pending]
    BY DEF CaptureInv, BusOK, TypeOK
  <1>5. BusOK'
    <2>1. bus' \in [Ids -> Transfer] /\ attached' \in Devices /\ capturing' \in BOOLEAN
      BY <1>1, <1>2, <1>3, <1>4 DEF CaptureInv, BusOK
    <2>2. \A j \in Ids : bus'[j].busy => WellFormed(bus'[j])
      BY <1>1, <1>3, <1>4 DEF CaptureInv, BusOK
    <2>. QED
      BY <2>1, <2>2 DEF BusOK, WellFormed
  <1>. DEFINE key == KeyOf(t, id)
  <1>6. /\ key \in Keys /\ t.ep \in Endpoint
        /\ t.control => key = ControlKey(t.ep, id)
        /\ ~t.control => key = <<t.ep, id>>
        /\ key = <<key[1], id>> /\ key[1] \in Endpoint
    BY <1>3, KeyOfTransfer
  <1>7. Carried(t, "submit") \in Seq(Cells) /\ t.setup \in Setup
    BY <1>3, CarriedType DEF Transfer
  <1>8. CASE t.seen /\ capturing
    <2>. DEFINE p == [control |-> t.control, setup |-> t.setup,
                      data |-> Shown(t), serial |-> calls + 1]
    <2>0. IF t.control THEN BeginControl(t.ep, id, t.setup, Carried(t, "submit"))
                       ELSE BeginBulk(t.ep, id, Carried(t, "submit"))
      BY <1>1, <1>8
    <2>1. Handler(t.ep, id, t.setup, Carried(t, "submit"))
      BY <2>0 DEF Handler
    <2>2. TypeOK'
      BY <1>4, <1>6, <1>7, <2>1, HandlerTypes
    <2>3. inflight' = [inflight EXCEPT ![key] = p] /\ log' = log
      <3>1. CASE t.control
        <4>1. t.control = TRUE /\ Carried(t, "submit") = Shown(t)
          BY <1>3, <3>1 DEF Carried, Shown, Transfer
        <4>. QED
          BY <1>6, <2>0, <3>1, <4>1 DEF BeginControl
      <3>2. CASE ~t.control
        <4>1. t.control = FALSE /\ t.setup = ZeroSetup
          BY <1>3, <3>2 DEF WellFormed, Transfer
        <4>2. (IF t.ep.in THEN <<>> ELSE Carried(t, "submit")) = Shown(t)
          BY <1>3, <3>2 DEF Carried, Shown, WellFormed
        <4>. QED
          BY <1>6, <2>0, <3>2, <4>1, <4>2 DEF BeginBulk
      <3>. QED
        BY <3>1, <3>2
    <2>4. p.serial # 0
      BY <1>4 DEF TypeOK
    <2>. HIDE DEF key
    <2>5. inflight'[key] = p
      BY <1>4, <1>6, <2>3
    <2>6. \A j \in Ids \ {id}, ep \in Endpoint :
              inflight'[<<ep, j>>] = inflight[<<ep, j>>]
      BY <1>4, <1>6, <2>3, OtherKeys
    <2>7. "complete" \notin LostEvents =>
             \A ep \in Endpoint : inflight'[<<ep, id>>].serial # 0 =>
                 t.busy /\ t.seen /\ key = <<ep, id>>
      <3>1. SUFFICES ASSUME "complete" \notin LostEvents, NEW ep \in Endpoint,
                            <<ep, id>> # key
                     PROVE  inflight'[<<ep, id>>].serial = 0
        BY <1>3, <1>8
      <3>2. <<ep, id>> \in Keys
        BY KeyTypes
      <3>. QED
        BY <1>2, <1>4, <2>3, <3>1, <3>2 DEF InflightTracksBus, Found
    <2>8. InflightTracksBus'
      <3>1. /\ t.busy /\ t.seen =>
                  /\ inflight'[KeyOf(t, id)].serial # 0
                  /\ inflight'[KeyOf(t, id)].control = t.control
                  /\ inflight'[KeyOf(t, id)].setup = t.setup
                  /\ inflight'[KeyOf(t, id)].data = Shown(t)
        BY <2>4, <2>5 DEF key
      <3>2. bus' = [bus EXCEPT ![id] = t] /\ capturing' = capturing
        BY <1>1, <1>2
      <3>. QED
        BY <1>3, <1>8, <2>2, <2>6, <2>7, <3>1, <3>2, LocalChange DEF key
    <2>9. Delivery
      BY <1>1, <1>8, <2>3 DEF Delivery
    <2>10. UnmatchedIsOrphans'
      BY <1>1, <1>8, <2>0 DEF BeginControl, BeginBulk, CaptureInv, UnmatchedIsOrphans
    <2>. QED
      BY <1>5, <2>2, <2>8, <2>9, <2>10 DEF CaptureInv
  <1>9. CASE ~t.seen /\ MayMiss("submit") /\ Missed
    <2>1. UNCHANGED <<inflight, unmatched, sessions, log, delivered, orphans>>
      BY <1>9 DEF Missed, handleVars
    <2>2. TypeOK'
      BY <1>4, <2>1 DEF TypeOK
    <2>3. \A ep \in Endpoint : inflight'[<<ep, id>>].serial = 0
      <3>1. CASE ~capturing
        BY <1>4, <2>1, <3>1, KeyTypes DEF InflightTracksBus, Found
      <3>2. CASE "submit" \in LostEvents
        <4>1. "complete" \notin LostEvents
          BY <3>2 DEF OneSidedLoss
        <4>. QED
          BY <1>2, <1>4, <2>1, <4>1 DEF InflightTracksBus, Found
      <3>. QED
        BY <1>9, <3>1, <3>2 DEF MayMiss
    <2>4. InflightTracksBus'
      <3>1. bus' = [bus EXCEPT ![id] = t] /\ capturing' = capturing
        BY <1>1, <1>2
      <3>2. \A j \in Ids \ {id}, ep \in Endpoint :
                inflight'[<<ep, j>>] = inflight[<<ep, j>>]
        BY <2>1
      <3>. QED
        BY <1>3, <1>9, <2>1, <2>2, <2>3, <3>1, <3>2, LocalChange
    <2>5. Delivery
      BY <2>1 DEF Delivery
    <2>6. UnmatchedIsOrphans'
      BY <2>1 DEF CaptureInv, UnmatchedIsOrphans
    <2>. QED
      BY <1>5, <2>2, <2>4, <2>5, <2>6 DEF CaptureInv
  <1>. QED
    BY <1>1, <1>8, <1>9

\* The bus part of the invariant for an event that leaves u under id.
LEMMA BusStep ==
  ASSUME BusOK, NEW id \in Ids, NEW u \in Transfer, u.busy => WellFormed(u),
         bus' = [bus EXCEPT ![id] = u], UNCHANGED <<attached, capturing>>
  PROVE  BusOK'
  <1>1. bus' \in [Ids -> Transfer] /\ attached' \in Devices /\ capturing' \in BOOLEAN
    BY DEF BusOK
  <1>2. \A j \in Ids : bus'[j].busy => WellFormed(bus'[j])
    BY DEF BusOK
  <1>. QED
    BY <1>1, <1>2 DEF BusOK, WellFormed

\* The last element of a sequence something was appended to.
LEMMA AppendedLast ==
  ASSUME NEW S, NEW s \in Seq(S), NEW e
  PROVE  Append(s, e)[Len(s) + 1] = e
  <1>1. s \in Seq(S \cup {e}) /\ e \in S \cup {e}
    OBVIOUS
  <1>. QED
    BY <1>1, AppendProperties

LEMMA IdleType == Idle \in Transfer /\ ~Idle.busy /\ ~Idle.seen
  <1>1. [num |-> 0, in |-> FALSE] \in Endpoint
    BY DEF Endpoint
  <1>. QED
    BY <1>1, NoPendingType, EmptySeq DEF Idle, Transfer

LEMMA DataStageStep ==
  ASSUME CaptureInv, calls' = calls + 1, NEW id \in Ids, DataStage(id)
  PROVE  CaptureInv' /\ Delivery
  <1>. DEFINE t == bus[id]
              u == [t EXCEPT !.moved = TRUE]
              key == KeyOf(t, id)
  <1>1. /\ t.busy /\ t.stage = "data" /\ ~t.moved
        /\ bus' = [bus EXCEPT ![id].moved = TRUE]
        /\ IF capturing THEN AppendControl(t.ep, id, t.data) ELSE UNCHANGED handleVars
        /\ UNCHANGED <<attached, enumerated, capturing, delivered, orphans, owners>>
    BY DEF DataStage
  <1>2. /\ TypeOK /\ InflightTracksBus /\ BusOK /\ calls' \in Nat
        /\ inflight \in [Keys -> Pending] /\ bus \in [Ids -> Transfer]
        /\ t \in Transfer /\ WellFormed(t)
    BY <1>1 DEF CaptureInv, BusOK, TypeOK
  <1>3. /\ u \in Transfer /\ u.busy /\ bus' = [bus EXCEPT ![id] = u]
        /\ u.ep = t.ep /\ u.control = t.control /\ u.setup = t.setup
        /\ u.data = t.data /\ u.stage = t.stage /\ u.moved /\ u.seen = t.seen
    BY <1>1, <1>2 DEF Transfer
  <1>4. t.control /\ t.data \in Seq(Cells) /\ t.ep \in Endpoint /\ t.setup \in Setup
    BY <1>1, <1>2 DEF WellFormed, Transfer
  <1>. HIDE DEF u
  <1>5. /\ WellFormed(u) /\ KeyOf(u, id) = key /\ key = ControlKey(t.ep, id)
        /\ Shown(t) = <<>> /\ Shown(u) = t.data
    BY <1>1, <1>2, <1>3, <1>4 DEF WellFormed, KeyOf, Shown
  <1>6. BusOK'
    BY <1>1, <1>2, <1>3, <1>5, BusStep
  <1>7. key \in Keys /\ key = <<key[1], id>> /\ key[1] \in Endpoint
    BY <1>2, KeyOfTransfer
  <1>. HIDE DEF t, key
  <1>8. log' = log /\ (~Found(key) \/ ~capturing => inflight' = inflight)
    BY <1>1, <1>5 DEF AppendControl, handleVars
  <1>9. Found(key) /\ capturing =>
           inflight' = [inflight EXCEPT ![key].data = @ \o t.data]
    BY <1>1, <1>5 DEF AppendControl
  <1>10. TypeOK'
    <2>1. CASE capturing
      BY <1>1, <1>2, <1>4, <2>1, HandlerTypes DEF Handler
    <2>2. CASE ~capturing
      BY <1>1, <1>2, <2>2 DEF TypeOK, handleVars
    <2>. QED
      BY <2>1, <2>2
  <1>11. \A j \in Ids \ {id}, ep \in Endpoint :
             inflight'[<<ep, j>>] = inflight[<<ep, j>>]
    BY <1>2, <1>4, <1>5, <1>8, <1>9, OtherKeys
  <1>12. \A k \in Keys : inflight'[k].serial = inflight[k].serial
    BY ZenonT(60), <1>2, <1>7, <1>8, <1>9 DEF Pending
  <1>13. u.busy /\ u.seen =>
             /\ inflight'[KeyOf(u, id)].serial # 0
             /\ inflight'[KeyOf(u, id)].control = u.control
             /\ inflight'[KeyOf(u, id)].setup = u.setup
             /\ inflight'[KeyOf(u, id)].data = Shown(u)
    <2>1. SUFFICES ASSUME u.seen
                   PROVE  /\ inflight'[key].serial # 0
                          /\ inflight'[key].control = t.control
                          /\ inflight'[key].setup = t.setup
                          /\ inflight'[key].data = t.data
      BY <1>3, <1>5
    <2>2. Holds(t, id) /\ capturing
      BY <1>1, <1>2, <1>3, <2>1 DEF InflightTracksBus, BusOK, t
    <2>3. /\ inflight[key] \in Pending /\ inflight[key].serial # 0
          /\ inflight[key].control = t.control /\ inflight[key].setup = t.setup
          /\ inflight[key].data = <<>>
      BY <1>2, <1>5, <1>7, <2>2 DEF Holds, key
    <2>4. inflight'[key] = [inflight[key] EXCEPT !.data = <<>> \o t.data]
      BY <1>2, <1>7, <1>9, <2>2, <2>3 DEF Found
    <2>5. <<>> \o t.data = t.data
      BY <1>4, ConcatEmptySeq
    <2>. QED
      BY <2>3, <2>4, <2>5 DEF Pending
  <1>14. u.busy /\ ~u.seen => \A ep \in Endpoint : inflight'[<<ep, id>>].serial = 0
    BY ZenonT(60), <1>1, <1>2, <1>3, <1>12, KeyTypes DEF InflightTracksBus, Found, t
  <1>15. "complete" \notin LostEvents =>
             \A ep \in Endpoint : inflight'[<<ep, id>>].serial # 0 =>
                 u.busy /\ u.seen /\ KeyOf(u, id) = <<ep, id>>
    BY <1>2, <1>3, <1>5, <1>12, KeyTypes DEF InflightTracksBus, Found, t, key
  <1>16. ~capturing => inflight' = inflight /\ ~u.seen
    BY <1>2, <1>3, <1>8 DEF InflightTracksBus, t
  <1>17. InflightTracksBus'
    BY <1>1, <1>3, <1>10, <1>11, <1>13, <1>14, <1>15, <1>16, LocalChange
  <1>18. Delivery
    BY <1>1, <1>8 DEF Delivery
  <1>19. UnmatchedIsOrphans'
    BY <1>1 DEF AppendControl, handleVars, CaptureInv, UnmatchedIsOrphans
  <1>. QED
    BY <1>6, <1>10, <1>17, <1>18, <1>19 DEF CaptureInv

\* A transfer that ends leaves nothing under its identifier but what a lost
\* completion may have left, so the invariant only has to look at its key.
LEMMA EndedTransfer ==
  ASSUME CaptureInv, TypeOK', NEW id \in Ids, bus[id].busy,
         bus' = [bus EXCEPT ![id] = Idle], UNCHANGED <<attached, capturing>>,
         \A j \in Ids \ {id}, ep \in Endpoint :
             inflight'[<<ep, j>>] = inflight[<<ep, j>>],
         ~capturing => inflight' = inflight,
         \A k \in Keys : inflight'[k].serial # 0 => inflight[k].serial # 0,
         capturing \/ "complete" \in LostEvents \/ inflight' = inflight,
         capturing /\ "complete" \notin LostEvents =>
             inflight'[KeyOf(bus[id], id)].serial = 0,
         unmatched' = orphans'
  PROVE  CaptureInv'
  <1>1. BusOK'
    BY IdleType, BusStep DEF CaptureInv
  <1>2. "complete" \notin LostEvents =>
             \A ep \in Endpoint : inflight'[<<ep, id>>].serial = 0
    <2>1. SUFFICES ASSUME "complete" \notin LostEvents, NEW ep \in Endpoint,
                          inflight'[<<ep, id>>].serial # 0
                   PROVE  FALSE
      OBVIOUS
    <2>2. Found(<<ep, id>>)
      BY <2>1, KeyTypes DEF Found
    <2>3. KeyOf(bus[id], id) = <<ep, id>>
      BY <2>1, <2>2 DEF CaptureInv, InflightTracksBus
    <2>4. capturing
      BY <2>2, KeyTypes DEF CaptureInv, InflightTracksBus
    <2>. QED
      BY <2>1, <2>3, <2>4
  <1>3. Idle \in Transfer /\ ~Idle.busy /\ ~Idle.seen
    BY IdleType
  <1>. HIDE DEF Idle
  <1>4. InflightTracksBus'
    BY <1>2, <1>3, LocalChange
  <1>. QED
    BY <1>1, <1>4 DEF CaptureInv, UnmatchedIsOrphans

\* A captured completion, successful or not, takes the entry of its transfer
\* and no other, and is unmatched when the capture does not hold one.
LEMMA EndTransferKeeps ==
  ASSUME CaptureInv, calls' = calls + 1, capturing, NEW id \in Ids, bus[id].busy,
         bus' = [bus EXCEPT ![id] = Idle], UNCHANGED <<attached, capturing>>,
         NEW data \in Seq(Cells), EndTransfer(id, bus[id], data)
  PROVE  CaptureInv'
  <1>. DEFINE t == bus[id]
              key == KeyOf(t, id)
              p == inflight[key]
  <1>1. /\ TypeOK /\ InflightTracksBus /\ calls' \in Nat
        /\ inflight \in [Keys -> Pending] /\ t \in Transfer
        /\ t.control \in BOOLEAN /\ t.seen \in BOOLEAN /\ t.setup \in Setup
    BY DEF CaptureInv, BusOK, TypeOK, Transfer
  <1>2. /\ key \in Keys /\ t.ep \in Endpoint /\ p \in Pending
        /\ t.control => key = ControlKey(t.ep, id)
        /\ ~t.control => key = <<t.ep, id>>
    BY <1>1, KeyOfTransfer
  <1>3. t.seen => p.serial # 0 /\ p.control = t.control
    BY <1>1 DEF InflightTracksBus, Holds
  <1>4. ~t.seen => p.serial = 0
    <2>1. KeyOf(t, id) = <<KeyOf(t, id)[1], id>> /\ KeyOf(t, id)[1] \in Endpoint
      BY <1>1, KeyOfTransfer
    <2>. QED
      BY <1>1, <2>1 DEF InflightTracksBus, Found
  <1>5. /\ t.control => EndControl(t.ep, id, data)
        /\ ~t.control => EndBulk(t.ep, id, data)
        /\ orphans' = orphans + (IF t.seen THEN 0 ELSE 1)
    BY DEF EndTransfer
  <1>6. TypeOK'
    BY <1>1, <1>2, <1>5, HandlerTypes DEF Handler
  <1>7. /\ \/ inflight' = [inflight EXCEPT ![key] = NoPending]
           \/ inflight' = inflight /\ p.serial = 0
        /\ unmatched' = unmatched + (IF t.seen THEN 0 ELSE 1)
    <2>0. unmatched \in Nat
      BY <1>1 DEF TypeOK
    <2>1. CASE t.control /\ t.seen
      <3>1. inflight' = [inflight EXCEPT ![key] = NoPending] /\ unmatched' = unmatched
        BY <1>2, <1>3, <1>5, <2>1 DEF EndControl, Found
      <3>2. unmatched' = unmatched + 0
        BY <2>0, <3>1
      <3>. QED
        BY <2>1, <3>1, <3>2
    <2>2. CASE t.control /\ ~t.seen
      BY <1>2, <1>4, <1>5, <2>2 DEF EndControl, Found
    <2>3. CASE ~t.control
      BY <1>2, <1>3, <1>4, <1>5, <2>3 DEF EndBulk, Found
    <2>. QED
      BY <2>1, <2>2, <2>3
  <1>8. unmatched' = orphans'
    BY <1>5, <1>7 DEF CaptureInv, UnmatchedIsOrphans
  <1>9. NoPending.serial = 0
    BY DEF NoPending
  <1>10. \A k \in Keys : inflight'[k].serial # 0 => inflight[k].serial # 0
    BY <1>1, <1>2, <1>7, <1>9
  <1>11. inflight'[KeyOf(bus[id], id)].serial = 0
    BY <1>1, <1>2, <1>7, <1>9
  <1>12. \A j \in Ids \ {id}, ep \in Endpoint :
             inflight'[<<ep, j>>] = inflight[<<ep, j>>]
    BY <1>1, <1>2, <1>7, OtherKeys
  <1>. QED
    BY <1>6, <1>8, <1>10, <1>11, <1>12, EndedTransfer

LEMMA CompleteStep ==
  ASSUME CaptureInv, calls' = calls + 1, NEW id \in Ids, Complete(id)
  PROVE  CaptureInv' /\ Delivery
  <1>. DEFINE t == bus[id]
              key == KeyOf(t, id)
              data == Carried(t, "complete")
              p == inflight[key]
  <1>1. /\ t.busy /\ (t.stage = "data" => t.moved)
        /\ bus' = [bus EXCEPT ![id] = Idle]
        /\ UNCHANGED <<attached, capturing>>
        /\ \/ /\ capturing
              /\ EndTransfer(id, t, data)
              /\ delivered' = IF t.seen THEN Append(delivered, Packet(t)) ELSE delivered
           \/ MayMiss("complete") /\ Missed
    BY DEF Complete
  <1>2. /\ TypeOK /\ InflightTracksBus /\ BusOK /\ calls' \in Nat
        /\ inflight \in [Keys -> Pending] /\ bus \in [Ids -> Transfer]
        /\ t \in Transfer /\ WellFormed(t) /\ log \in Seq(Dispatch)
    BY <1>1 DEF CaptureInv, BusOK, TypeOK
  <1>3. /\ key \in Keys /\ t.ep \in Endpoint /\ t.setup \in Setup
        /\ t.control => key = ControlKey(t.ep, id)
        /\ ~t.control => key = <<t.ep, id>>
        /\ data \in Seq(Cells) /\ p \in Pending
        /\ t.control \in BOOLEAN /\ t.seen \in BOOLEAN
    <2>1. /\ key \in Keys /\ t.ep \in Endpoint
          /\ t.control => key = ControlKey(t.ep, id)
          /\ ~t.control => key = <<t.ep, id>>
      BY <1>2, KeyOfTransfer
    <2>2. data \in Seq(Cells)
      BY <1>2, CarriedType
    <2>. QED
      BY <1>2, <2>1, <2>2 DEF Transfer
  <1>4. t.seen => /\ p.serial # 0 /\ p.control = t.control
                  /\ p.setup = t.setup /\ p.data = Shown(t)
    BY <1>1, <1>2 DEF InflightTracksBus, Holds
  <1>5. ~t.seen => p.serial = 0
    <2>1. KeyOf(t, id) = <<KeyOf(t, id)[1], id>> /\ KeyOf(t, id)[1] \in Endpoint
      BY <1>2, KeyOfTransfer
    <2>. QED
      BY <1>1, <1>2, <2>1 DEF InflightTracksBus, Found
  <1>6. CASE MayMiss("complete") /\ Missed
    <2>1. UNCHANGED <<inflight, unmatched, sessions, log, delivered, orphans>>
      BY <1>6 DEF Missed, handleVars
    <2>2. TypeOK'
      BY <1>2, <2>1 DEF TypeOK
    <2>3. CaptureInv'
      BY <1>1, <1>2, <1>6, <2>1, <2>2, EndedTransfer
         DEF MayMiss, CaptureInv, UnmatchedIsOrphans
    <2>. QED
      BY <2>1, <2>3 DEF Delivery
  <1>7. CASE capturing /\ EndTransfer(id, t, data)
             /\ delivered' = IF t.seen THEN Append(delivered, Packet(t)) ELSE delivered
    <2>0. /\ t.control => EndControl(t.ep, id, data)
          /\ ~t.control => EndBulk(t.ep, id, data)
      BY <1>7 DEF EndTransfer
    <2>3. CaptureInv'
      BY <1>1, <1>3, <1>7, EndTransferKeeps
    <2>4. Delivery
      <3>. HIDE DEF t, key, data, p
      <3>1. CASE t.control /\ t.seen
        <4>. DEFINE d == [session |-> Len(sessions'), endpoint |-> Undirected(t.ep),
                          control |-> TRUE, setup |-> p.setup,
                          data |-> ControlPayload(p, data), serial |-> p.serial]
        <4>1. DispatchControl(Undirected(t.ep), p, ControlPayload(p, data))
          BY <1>3, <1>4, <2>0, <3>1 DEF EndControl, Found, p
        <4>2. ControlPayload(p, data) \in Seq(Cells) /\ Undirected(t.ep) \in Endpoint
          BY <1>3, ControlPayloadType, KeyTypes
        <4>3. log' = Append(log, log'[Len(log) + 1]) /\ log'[Len(log) + 1] = d
          BY <1>2, <1>3, <4>1, <4>2, DispatchControlLog
        <4>4. ControlPayload(p, data) = t.data
          BY <1>1, <1>2, <1>3, <1>4, <3>1, ControlDataRight DEF data
        <4>5. t.control = TRUE
          BY <1>3, <3>1
        <4>6. AsPacket(d) = Packet(t)
          BY <1>4, <3>1, <4>4, <4>5 DEF AsPacket, Packet
        <4>7. d.serial # 0
          BY <1>4, <3>1
        <4>. HIDE DEF d
        <4>. QED
          BY <1>7, <3>1, <4>3, <4>6, <4>7 DEF Delivery
      <3>2. CASE t.control /\ ~t.seen
        <4>1. log' = log
          BY <1>3, <1>5, <2>0, <3>2 DEF EndControl, Found, p
        <4>. QED
          BY <1>7, <3>2, <4>1 DEF Delivery
      <3>3. CASE ~t.control
        <4>. DEFINE d == [session |-> Len(sessions), endpoint |-> t.ep,
                          control |-> FALSE, setup |-> ZeroSetup,
                          data |-> BulkPayload(t.ep, p, data), serial |-> p.serial]
        <4>1. log' = Append(log, d)
          BY <1>3, <2>0, <3>3 DEF EndBulk, p
        <4>2. log'[Len(log) + 1] = d
          BY <1>2, <4>1, AppendedLast
        <4>3. CASE t.seen
          <5>1. BulkPayload(t.ep, p, data) = t.data
            BY <1>2, <1>3, <1>4, <3>3, <4>3, BulkDataRight DEF data
          <5>2. t.control = FALSE /\ t.setup = ZeroSetup
            BY <1>2, <1>3, <3>3 DEF WellFormed
          <5>3. AsPacket(d) = Packet(t) /\ d.serial # 0
            BY <1>4, <3>3, <4>3, <5>1, <5>2 DEF AsPacket, Packet
          <5>. HIDE DEF d
          <5>. QED
            BY <1>7, <4>1, <4>2, <4>3, <5>3 DEF Delivery
        <4>4. CASE ~t.seen
          <5>1. d.serial = 0
            BY <1>5, <4>4
          <5>. HIDE DEF d
          <5>. QED
            BY <1>7, <4>1, <4>2, <4>4, <5>1 DEF Delivery
        <4>. QED
          BY <4>3, <4>4
      <3>. QED
        BY <3>1, <3>2, <3>3
    <2>. QED
      BY <2>3, <2>4
  <1>. QED
    BY <1>1, <1>6, <1>7

LEMMA FailStep ==
  ASSUME CaptureInv, calls' = calls + 1, NEW id \in Ids, Fail(id)
  PROVE  CaptureInv' /\ (ErrorStatus = FALSE => Delivery)
  <1>. DEFINE t == bus[id]
  <1>1. /\ t.busy
        /\ bus' = [bus EXCEPT ![id] = Idle]
        /\ UNCHANGED <<attached, capturing>>
        /\ \/ /\ capturing /\ Abort(t.ep, id) /\ delivered' = delivered
              /\ orphans' = orphans
           \/ capturing /\ ErrorStatus /\ EndTransfer(id, t, <<>>)
           \/ MayMiss("complete") /\ Missed
    BY DEF Fail
  <1>2. /\ TypeOK /\ BusOK /\ calls' \in Nat
        /\ inflight \in [Keys -> Pending]
        /\ t \in Transfer /\ t.ep \in Endpoint /\ t.setup \in Setup /\ t.data \in Seq(Cells)
    BY DEF CaptureInv, BusOK, TypeOK, Transfer
  <1>3. CASE MayMiss("complete") /\ Missed
    <2>1. UNCHANGED <<inflight, unmatched, sessions, log, delivered, orphans>>
      BY <1>3 DEF Missed, handleVars
    <2>2. TypeOK'
      BY <1>2, <2>1 DEF TypeOK
    <2>3. CaptureInv'
      BY <1>1, <1>2, <1>3, <2>1, <2>2, EndedTransfer
         DEF MayMiss, CaptureInv, UnmatchedIsOrphans
    <2>. QED
      BY <2>1, <2>3 DEF Delivery
  <1>4. CASE /\ capturing /\ Abort(t.ep, id) /\ delivered' = delivered
             /\ orphans' = orphans
    <2>1. TypeOK'
      BY <1>2, <1>4, HandlerTypes DEF Handler
    <2>2. inflight' = [inflight EXCEPT ![<<t.ep, id>>] = NoPending,
                                       ![ControlKey(t.ep, id)] = NoPending]
      BY <1>4 DEF Abort
    <2>3. NoPending.serial = 0
      BY DEF NoPending
    <2>4. /\ <<t.ep, id>> \in Keys /\ ControlKey(t.ep, id) \in Keys
          /\ KeyOf(t, id) \in {<<t.ep, id>>, ControlKey(t.ep, id)}
      BY <1>2, KeyTypes DEF KeyOf
    <2>5. \A k \in Keys : inflight'[k].serial # 0 => inflight[k].serial # 0
      BY <1>2, <2>2, <2>3, <2>4
    <2>6. inflight'[KeyOf(bus[id], id)].serial = 0
      BY <1>2, <2>2, <2>3, <2>4
    <2>7. \A j \in Ids \ {id}, ep \in Endpoint :
              inflight'[<<ep, j>>] = inflight[<<ep, j>>]
      BY <1>2, <2>2, <2>4, OtherKeys
    <2>8. CaptureInv'
      <3>1. unmatched' = orphans'
        BY <1>4 DEF Abort, CaptureInv, UnmatchedIsOrphans
      <3>. QED
        BY <1>1, <1>4, <2>1, <2>5, <2>6, <2>7, <3>1, EndedTransfer
    <2>. QED
      BY <1>4, <2>8 DEF Abort, Delivery
  <1>5. CASE capturing /\ ErrorStatus /\ EndTransfer(id, t, <<>>)
    <2>1. <<>> \in Seq(Cells)
      OBVIOUS
    <2>2. CaptureInv'
      BY <1>1, <1>5, <2>1, EndTransferKeeps
    <2>. QED
      BY <1>5, <2>2
  <1>. QED
    BY <1>1, <1>3, <1>4, <1>5

\* Devices come and go, and the capture starts, without touching a transfer.
LEMMA EnvironmentStep ==
  ASSUME CaptureInv, calls' \in Nat, Reattach \/ StartCapture
  PROVE  CaptureInv' /\ Delivery
  <1>1. /\ UNCHANGED <<inflight, unmatched, sessions, log, bus, delivered, orphans>>
        /\ attached' \in Devices /\ capturing' \in BOOLEAN
        /\ ~capturing' => ~capturing
    BY DEF Reattach, StartCapture, handleVars, CaptureInv, BusOK
  <1>2. TypeOK'
    BY <1>1 DEF CaptureInv, TypeOK
  <1>3. BusOK'
    BY <1>1 DEF CaptureInv, BusOK, WellFormed
  <1>4. InflightTracksBus'
    BY ZenonT(60), <1>1 DEF CaptureInv, InflightTracksBus, Holds, KeyOf, Shown, Found
  <1>. QED
    BY <1>1, <1>2, <1>3, <1>4 DEF CaptureInv, UnmatchedIsOrphans, Delivery

-----------------------------------------------------------------------------
LEMMA CaptureInitial == CaptureInit => CaptureInv
  <1>. SUFFICES ASSUME CaptureInit PROVE CaptureInv
    OBVIOUS
  <1>1. TypeOK
    <2>1. sessions \in Seq(Descriptor \cup {NoDescriptor}) /\ sessions # <<>>
      BY DEF CaptureInit, Init, NoDescriptor
    <2>. QED
      BY <2>1, NoPendingType, EmptySeq DEF CaptureInit, Init, TypeOK
  <1>2. \A id \in Ids : ~bus[id].busy /\ ~bus[id].seen /\ bus[id] \in Transfer
    BY IdleType DEF CaptureInit
  <1>3. BusOK
    BY <1>2, IdleType DEF CaptureInit, BusOK
  <1>4. \A k \in Keys : ~Found(k)
    BY DEF CaptureInit, Init, Found, NoPending
  <1>5. InflightTracksBus
    BY <1>2, <1>4, KeyTypes DEF InflightTracksBus
  <1>. QED
    BY <1>1, <1>3, <1>5 DEF CaptureInv, UnmatchedIsOrphans, CaptureInit, Init

LEMMA CaptureStep ==
  ASSUME OneSidedLoss, CaptureInv, [CaptureNext]_captureVars
  PROVE  CaptureInv' /\ (ErrorStatus = FALSE => [Delivery]_captureVars)
  <1>1. CASE CaptureNext
    <2>1. calls' = calls + 1 /\ calls' \in Nat
      BY <1>1 DEF CaptureNext, CaptureInv, TypeOK
    <2>2. ASSUME NEW id \in Ids, Submit(id) \/ DataStage(id) \/ Complete(id) \/ Fail(id)
          PROVE  CaptureInv' /\ (ErrorStatus = FALSE => Delivery)
      BY <2>1, <2>2, SubmitStep, DataStageStep, CompleteStep, FailStep
    <2>3. CASE Reattach \/ StartCapture
      BY <2>1, <2>3, EnvironmentStep
    <2>. QED
      BY <1>1, <2>2, <2>3 DEF CaptureNext
  <1>2. CASE UNCHANGED captureVars
    BY ZenonT(60), <1>2 DEF captureVars, vars, busVars, CaptureInv, TypeOK, BusOK, WellFormed,
       InflightTracksBus, Holds, KeyOf, Shown, Found, UnmatchedIsOrphans
  <1>. QED
    BY <1>1, <1>2

\* What DeviceHandle holds is what the bus has outstanding, for any capture
\* that does not lose both halves of transfers.
THEOREM InflightIsTheBus ==
  ASSUME OneSidedLoss
  PROVE  CaptureSpec => []InflightTracksBus
  <1>1. CaptureInv /\ [CaptureNext]_captureVars => CaptureInv'
    BY CaptureStep
  <1>2. CaptureInv => InflightTracksBus
    BY DEF CaptureInv
  <1>. QED
    BY <1>1, <1>2, CaptureInitial, PTL DEF CaptureSpec

\* The count of unmatched completions is the number of those whose submission
\* such a capture does not hold: nothing else is counted, and none is missed.
THEOREM UnmatchedCountIsRight ==
  ASSUME OneSidedLoss
  PROVE  CaptureSpec => []UnmatchedIsOrphans
  <1>1. CaptureInv /\ [CaptureNext]_captureVars => CaptureInv'
    BY CaptureStep
  <1>2. CaptureInv => UnmatchedIsOrphans
    BY DEF CaptureInv
  <1>. QED
    BY <1>1, <1>2, CaptureInitial, PTL DEF CaptureSpec

\* In such a capture, where a failed transfer is reported as one, every
\* transfer an expert is given with its submission is one that crossed the
\* bus, whole, with its own setup packet, and every one that crossed the bus
\* is given.
THEOREM TransfersAreDeliveredFaithfully ==
  ASSUME OneSidedLoss, ErrorStatus = FALSE
  PROVE  CaptureSpec => DeliveryStep
  <1>1. CaptureInv /\ [CaptureNext]_captureVars => CaptureInv' /\ [Delivery]_captureVars
    BY CaptureStep
  <1>. QED
    BY <1>1, CaptureInitial, PTL DEF CaptureSpec, DeliveryStep

-----------------------------------------------------------------------------
(***************************************************************************)
(* The device a transfer is reported under, in a capture that starts with  *)
(* the bus and misses nothing.                                             *)
(***************************************************************************)
NothingLost == LostEvents = {} /\ LateStart = FALSE

\* What the host does: it reads descriptors, and once it has the whole one,
\* sends other traffic.
HostReads ==
    \A id \in Ids : bus[id].busy =>
        /\ bus[id].seen
        /\ IF bus[id].setup.deviceRead
           THEN /\ bus[id].control /\ bus[id].setup.wLength \in {1, DeviceSize}
                /\ bus[id].data =
                       SubSeq(DescriptorOf(attached), 1, bus[id].setup.wLength)
           ELSE enumerated

\* Inductive: the current session is the device the host has enumerated, and
\* what was reported is in a session that has been identified as its owner.
SessionsNamed ==
    /\ enumerated => Current = DescriptorOf(attached)
    /\ Len(owners) = Len(log)
    /\ \A i \in DOMAIN log : log[i].session \in 1 .. Len(sessions)
    /\ SessionNamesItsDevice

NamesInv ==
    /\ CaptureInv
    /\ capturing /\ enumerated \in BOOLEAN /\ owners \in Seq(Devices)
    /\ HostReads
    /\ SessionsNamed

LEMMA WholeDescriptor ==
  ASSUME NEW d \in Devices
  PROVE  /\ DescriptorOf(d) \in Seq(Cells) /\ Len(DescriptorOf(d)) = DeviceSize
         /\ SubSeq(DescriptorOf(d), 1, DeviceSize) = DescriptorOf(d)
         /\ DescriptorOf(d)[1] = DeviceHeader
         /\ DescriptorOf(d) # NoDescriptor
  <1>1. DeviceHeader \in Cells /\ d \in Cells
    OBVIOUS
  <1>2. /\ DescriptorOf(d) \in Seq(Cells) /\ Len(DescriptorOf(d)) = DeviceSize
        /\ DescriptorOf(d)[1] = DeviceHeader
    BY <1>1 DEF DescriptorOf, DeviceSize
  <1>3. DeviceSize \in 0 .. Len(DescriptorOf(d))
    BY <1>2 DEF DeviceSize
  <1>4. /\ SubSeq(DescriptorOf(d), 1, DeviceSize) \in Seq(Cells)
        /\ Len(SubSeq(DescriptorOf(d), 1, DeviceSize)) = DeviceSize
        /\ \A i \in 1 .. DeviceSize :
              SubSeq(DescriptorOf(d), 1, DeviceSize)[i] = DescriptorOf(d)[i]
    BY <1>2, <1>3, PrefixType
  <1>5. SubSeq(DescriptorOf(d), 1, DeviceSize) = DescriptorOf(d)
    BY <1>2, <1>4, SeqEqual
  <1>6. DescriptorOf(d) # NoDescriptor
    BY DEF DescriptorOf, NoDescriptor
  <1>. QED
    BY <1>2, <1>5, <1>6

\* A failed transfer is given whole, or with no payload at all.
LEMMA FailedData ==
  ASSUME NEW t \in Transfer, WellFormed(t), t.control,
         NEW p \in Pending, p.setup = t.setup, p.data = Shown(t)
  PROVE  ControlPayload(p, <<>>) \in {<<>>, t.data}
  <1>. DEFINE first  == IF p.setup.in THEN <<>> ELSE p.data
              second == IF p.setup.in THEN p.data ELSE <<>>
              chosen == IF first # <<>> THEN first ELSE second
              wanted == p.setup.wLength
              n == IF Len(chosen) < wanted THEN Len(chosen) ELSE wanted
  <1>1. t.data \in Seq(Cells) /\ Len(t.data) <= wanted /\ wanted \in Nat
    BY DEF Transfer, WellFormed, Pending, Setup
  <1>2. chosen \in {<<>>, t.data}
    BY DEF Shown
  <1>3. ControlPayload(p, <<>>) = SubSeq(chosen, 1, n)
    BY DEF ControlPayload
  <1>4. <<>> \in Seq(Cells) /\ Len(<<>>) = 0
    BY EmptySeq
  <1>. HIDE DEF chosen, wanted
  <1>5. chosen \in Seq(Cells) /\ n = Len(chosen) /\ n \in 0 .. Len(chosen)
    <2>1. chosen \in Seq(Cells) /\ Len(chosen) <= wanted
      BY <1>1, <1>2, <1>4
    <2>2. Len(chosen) \in Nat
      BY <2>1, LenProperties
    <2>. QED
      BY <1>1, <2>1, <2>2
  <1>6. /\ SubSeq(chosen, 1, n) \in Seq(Cells) /\ Len(SubSeq(chosen, 1, n)) = n
        /\ \A i \in 1 .. n : SubSeq(chosen, 1, n)[i] = chosen[i]
    BY <1>5, PrefixType
  <1>7. SubSeq(chosen, 1, n) = chosen
    <2>. HIDE DEF n
    <2>. QED
      BY <1>5, <1>6, SeqEqual
  <1>. QED
    BY <1>2, <1>3, <1>7

\* How a captured transfer t is given to the experts, as d: in the last
\* session, which a whole descriptor read makes the attached device's and
\* nothing else touches.
Given(t, d) ==
    /\ log' = Append(log, d)
    /\ d.setup = t.setup /\ d.session = Len(sessions')
    /\ FullDeviceRead(t.setup, d.data) =>
           sessions'[Len(sessions')] = DescriptorOf(attached)
    /\ ~FullDeviceRead(t.setup, d.data) => sessions' = sessions

\* A read of the whole descriptor is told from one of its first cells.
LEMMA WholeReads ==
  ASSUME NamesInv, NEW id \in Ids, bus[id].busy,
         NEW data \in {<<>>, bus[id].data}, FullDeviceRead(bus[id].setup, data)
  PROVE  data = DescriptorOf(attached) /\ data = bus[id].data
  <1>. DEFINE t == bus[id]
              w == t.setup.wLength
  <1>1. /\ attached \in Devices /\ t.setup.deviceRead /\ Len(data) >= DeviceSize
        /\ w \in {1, DeviceSize} /\ t.data = SubSeq(DescriptorOf(attached), 1, w)
    BY DEF NamesInv, HostReads, CaptureInv, BusOK, FullDeviceRead
  <1>2. data = t.data
    BY <1>1, EmptySeq DEF DeviceSize
  <1>3. Len(t.data) = w
    BY <1>1, DescriptorPrefix
  <1>4. w = DeviceSize
    BY <1>1, <1>2, <1>3 DEF DeviceSize
  <1>. QED
    BY <1>1, <1>2, <1>4, WholeDescriptor

LEMMA ControlGiven ==
  ASSUME NamesInv, NEW id \in Ids, bus[id].busy, bus[id].control,
         NEW data \in Seq(Cells), EndControl(bus[id].ep, id, data),
         ControlPayload(inflight[KeyOf(bus[id], id)], data) \in {<<>>, bus[id].data}
  PROVE  \E d \in Dispatch :
             /\ Given(bus[id], d)
             /\ d.data = ControlPayload(inflight[KeyOf(bus[id], id)], data)
  <1>. DEFINE t == bus[id]
              key == KeyOf(t, id)
              p == inflight[key]
              payload == ControlPayload(p, data)
              ep == Undirected(t.ep)
              entry == [session |-> Len(sessions'), endpoint |-> ep,
                        control |-> TRUE, setup |-> p.setup,
                        data |-> payload, serial |-> p.serial]
              d == log'[Len(log) + 1]
  <1>1. /\ TypeOK /\ log \in Seq(Dispatch) /\ attached \in Devices
        /\ inflight \in [Keys -> Pending] /\ t \in Transfer
        /\ sessions \in Sessions /\ sessions # <<>>
        /\ t.seen /\ Holds(t, id) /\ WellFormed(t)
    BY DEF NamesInv, CaptureInv, BusOK, TypeOK, HostReads, InflightTracksBus, Sessions
  <1>2. /\ key \in Keys /\ t.ep \in Endpoint /\ ep \in Endpoint /\ p \in Pending
        /\ key = ControlKey(t.ep, id)
    BY <1>1, KeyOfTransfer, KeyTypes
  <1>3. p.serial # 0 /\ p.control = t.control /\ p.setup = t.setup
    BY <1>1 DEF Holds
  <1>4. payload \in Seq(Cells)
    BY <1>2, ControlPayloadType
  <1>5. DispatchControl(ep, p, payload)
    BY <1>2, <1>3 DEF EndControl, Found
  <1>6. ep.num = 0
    BY <1>1, <1>2 DEF WellFormed, Undirected, Endpoint
  <1>. HIDE DEF t, key, p, payload, ep
  <1>7. log' \in Seq(Dispatch) /\ log' = Append(log, d) /\ d = entry
    BY <1>1, <1>2, <1>4, <1>5, DispatchControlLog
  <1>8. d \in Dispatch
    <2>1. Len(log) + 1 \in 1 .. Len(log')
      BY <1>1, <1>7, LenOfAppend
    <2>. QED
      BY <1>7, <2>1, ElementOfSeq
  <1>9. entry.session = Len(sessions') /\ entry.setup = p.setup /\ entry.data = payload
    OBVIOUS
  <1>10. FullDeviceRead(t.setup, payload) =>
             sessions'[Len(sessions')] = DescriptorOf(attached)
    <2>1. SUFFICES ASSUME FullDeviceRead(t.setup, payload)
                   PROVE  sessions'[Len(sessions')] = DescriptorOf(attached)
      OBVIOUS
    <2>2. payload = DescriptorOf(attached)
      BY <2>1, WholeReads DEF t, payload, p, key
    <2>3. /\ payload[1] = DeviceHeader
          /\ SubSeq(payload, 1, DeviceSize) = DescriptorOf(attached)
      BY <1>1, <2>2, WholeDescriptor
    <2>4. Learns(ep, p.setup, payload)
      BY <1>3, <1>6, <2>1, <2>3 DEF Learns
    <2>5. sessions'[Len(sessions')] = SubSeq(payload, 1, DeviceSize)
      BY <1>1, <1>2, <1>4, <1>5, <2>4, DispatchControlSessions
    <2>. QED
      BY <2>3, <2>5
  <1>11. ~FullDeviceRead(t.setup, payload) => sessions' = sessions
    BY <1>3, <1>5 DEF DispatchControl, Learns, Reenumerates
  <1>. HIDE DEF entry, d
  <1>12. Given(t, d) /\ d.data = payload
    BY <1>3, <1>7, <1>9, <1>10, <1>11 DEF Given
  <1>. QED
    BY <1>8, <1>12 DEF t, payload, p, key

LEMMA BulkGiven ==
  ASSUME NamesInv, NEW id \in Ids, bus[id].busy, ~bus[id].control,
         NEW data \in Seq(Cells), EndBulk(bus[id].ep, id, data)
  PROVE  \E d \in Dispatch : Given(bus[id], d) /\ ~FullDeviceRead(bus[id].setup, d.data)
  <1>. DEFINE t == bus[id]
              p == inflight[<<t.ep, id>>]
              d == [session |-> Len(sessions), endpoint |-> t.ep,
                    control |-> FALSE, setup |-> ZeroSetup,
                    data |-> BulkPayload(t.ep, p, data), serial |-> p.serial]
  <1>1. /\ TypeOK /\ inflight \in [Keys -> Pending] /\ t \in Transfer
        /\ WellFormed(t) /\ Len(sessions) \in Nat
    BY LenProperties DEF NamesInv, CaptureInv, BusOK, TypeOK
  <1>2. t.ep \in Endpoint /\ p \in Pending /\ t.setup = ZeroSetup
    BY SMTT(40), <1>1, KeyOfTransfer DEF WellFormed
  <1>3. BulkPayload(t.ep, p, data) \in Seq(Cells)
    BY <1>2 DEF BulkPayload, Pending
  <1>4. d \in Dispatch
    BY <1>1, <1>2, <1>3, NoPendingType DEF Dispatch, Pending
  <1>5. log' = Append(log, d) /\ sessions' = sessions
    BY DEF EndBulk
  <1>6. d.session = Len(sessions') /\ d.setup = t.setup
    BY <1>2, <1>5
  <1>7. \A data_ : ~FullDeviceRead(t.setup, data_)
    BY <1>2 DEF FullDeviceRead, ZeroSetup
  <1>. HIDE DEF d, t
  <1>8. Given(t, d)
    BY <1>5, <1>6, <1>7 DEF Given
  <1>. QED
    BY <1>4, <1>7, <1>8 DEF t

\* What is given keeps the sessions named, when it is given while its device
\* is attached and the host takes only a whole read for an enumeration.
LEMMA GivenKeepsNames ==
  ASSUME NamesInv, TypeOK', NEW id \in Ids, bus[id].busy,
         NEW d \in Dispatch, Given(bus[id], d), attached' = attached,
         owners' = Append(owners, attached),
         enumerated' => enumerated \/ FullDeviceRead(bus[id].setup, d.data),
         Len(sessions') \in {Len(sessions), Len(sessions) + 1},
         \A i \in 1 .. Len(sessions) :
             sessions[i] # NoDescriptor => sessions'[i] = sessions[i]
  PROVE  SessionsNamed'
  <1>. DEFINE t == bus[id]
              n == Len(sessions)
              m == Len(sessions')
              k == Len(log)
  <1>1. /\ log \in Seq(Dispatch) /\ k \in Nat /\ log' = Append(log, d)
        /\ owners \in Seq(Devices) /\ attached \in Devices /\ Len(owners) = k
    BY LenProperties DEF NamesInv, SessionsNamed, CaptureInv, BusOK, TypeOK, Given
  <1>2. /\ DOMAIN log = 1 .. k /\ DOMAIN log' = 1 .. k + 1
        /\ Len(log') = k + 1 /\ Len(owners') = k + 1
        /\ \A i \in 1 .. k : log'[i] = log[i] /\ owners'[i] = owners[i]
        /\ log'[k + 1] = d /\ owners'[k + 1] = attached
    BY <1>1, AppendProperties, LenProperties
  <1>3. n \in Nat \ {0} /\ m \in Nat \ {0} /\ m \in {n, n + 1}
    BY LenProperties, EmptySeq DEF NamesInv, CaptureInv, TypeOK
  <1>4. \A i \in 1 .. k : log[i].session \in 1 .. n
    BY <1>2 DEF NamesInv, SessionsNamed
  <1>5. \A i \in 1 .. k : ~log[i].setup.deviceRead =>
            sessions[log[i].session] = DescriptorOf(owners[i])
    BY <1>2 DEF NamesInv, SessionsNamed, SessionNamesItsDevice, Ordinary
  <1>6. /\ d.setup = t.setup /\ d.session = m
        /\ FullDeviceRead(t.setup, d.data) => sessions'[m] = DescriptorOf(attached)
        /\ ~FullDeviceRead(t.setup, d.data) => sessions' = sessions
    BY DEF Given
  <1>7. enumerated => sessions[n] = DescriptorOf(attached)
    BY DEF NamesInv, SessionsNamed, Current
  <1>8. enumerated' => sessions'[m] = DescriptorOf(attached)
    BY <1>6, <1>7
  <1>9. \A i \in 1 .. k + 1 : log'[i].session \in 1 .. m
    <2>1. ASSUME NEW i \in 1 .. k + 1 PROVE log'[i].session \in 1 .. m
      <3>. HIDE DEF n, m, k, t
      <3>1. CASE i = k + 1
        BY <1>2, <1>3, <1>6, <3>1
      <3>2. CASE i \in 1 .. k
        <4>1. log'[i].session \in 1 .. n
          BY <1>2, <1>4, <3>2
        <4>2. \A x \in 1 .. n : x \in 1 .. m
          BY <1>3
        <4>. QED
          BY <4>1, <4>2
      <3>3. i = k + 1 \/ i \in 1 .. k
        BY <1>1
      <3>. QED
        BY <3>1, <3>2, <3>3
    <2>. QED
      BY <2>1
  <1>10. ASSUME NEW i \in 1 .. k + 1, ~log'[i].setup.deviceRead
         PROVE  sessions'[log'[i].session] = DescriptorOf(owners'[i])
    <2>1. CASE i = k + 1
      <3>1. ~t.setup.deviceRead /\ ~FullDeviceRead(t.setup, d.data)
        BY <1>2, <1>6, <1>10, <2>1 DEF FullDeviceRead
      <3>2. enumerated
        BY <3>1 DEF NamesInv, HostReads
      <3>. QED
        BY <1>2, <1>6, <1>7, <2>1, <3>1, <3>2
    <2>2. CASE i \in 1 .. k
      <3>1. log'[i] = log[i] /\ owners'[i] = owners[i] /\ log[i].session \in 1 .. n
        BY <1>2, <1>4, <2>2
      <3>2. sessions[log[i].session] = DescriptorOf(owners[i])
        BY <1>5, <1>10, <2>2, <3>1
      <3>3. owners[i] \in Devices
        BY <1>1, <2>2, ElementOfSeq
      <3>4. sessions[log[i].session] # NoDescriptor
        BY <3>2, <3>3, WholeDescriptor
      <3>. QED
        BY <3>1, <3>2, <3>4
    <2>. QED
      BY <1>1, <2>1, <2>2
  <1>11. SessionNamesItsDevice'
    BY <1>2, <1>10 DEF SessionNamesItsDevice, Ordinary, DescriptorOf
  <1>12. (enumerated => Current = DescriptorOf(attached))'
    BY <1>8 DEF Current, DescriptorOf
  <1>. QED
    BY <1>2, <1>9, <1>11, <1>12 DEF SessionsNamed
\* A step that reports nothing and enumerates nothing.
LEMMA QuietNames ==
  ASSUME SessionsNamed, UNCHANGED <<sessions, log, owners>>,
         enumerated' => enumerated /\ attached' = attached
  PROVE  SessionsNamed'
  BY DEF SessionsNamed, SessionNamesItsDevice, Ordinary, DescriptorOf, Current

\* A transfer that ends leaves the host's other ones as they were.
LEMMA EndedReads ==
  ASSUME NamesInv, NEW id \in Ids, bus' = [bus EXCEPT ![id] = Idle],
         attached' = attached, enumerated => enumerated'
  PROVE  HostReads'
  <1>1. bus \in [Ids -> Transfer] /\ ~Idle.busy
    BY IdleType DEF NamesInv, CaptureInv, BusOK
  <1>. HIDE DEF Idle
  <1>2. \A j \in Ids : bus'[j].busy => bus[j].busy /\ bus'[j] = bus[j]
    BY <1>1
  <1>. QED
    BY <1>2 DEF NamesInv, HostReads, DescriptorOf

\* Every transfer the host submits is a descriptor read, or follows one.
LEMMA SubmittedReads ==
  ASSUME attached \in Devices, NEW t \in ControlTransfers \cup BulkTransfers
  PROVE  IF t.setup.deviceRead
         THEN /\ t.control /\ t.setup.wLength \in {1, DeviceSize}
              /\ t.data = SubSeq(DescriptorOf(attached), 1, t.setup.wLength)
         ELSE enumerated
  <1>1. CASE t \in ControlTransfers
    <2>. DEFINE D == Answers \cup {SubSeq(DescriptorOf(attached), 1, n) : n \in 1 .. 2}
                Zero == {ep \in Endpoint : ep.num = 0}
    <2>1. /\ t \in [busy : {TRUE}, ep : Zero, control : {TRUE},
                    setup : DescriptorReads \cup Requests, data : D,
                    stage : Stages, moved : {FALSE}, seen : BOOLEAN]
          /\ IF t.setup.deviceRead
             THEN t.data = SubSeq(DescriptorOf(attached), 1, t.setup.wLength)
             ELSE enumerated /\ t.data \in Answers /\ Len(t.data) <= t.setup.wLength
      BY <1>1 DEF ControlTransfers
    <2>. HIDE DEF D, Zero
    <2>2. t.control /\ t.setup \in DescriptorReads \cup Requests
      BY <2>1
    <2>3. t.setup.deviceRead => t.setup.wLength \in {1, DeviceSize}
      <3>1. \A r \in Requests : ~r.deviceRead
        OBVIOUS
      <3>2. \A r \in DescriptorReads : r.wLength \in {1, DeviceSize}
        BY DEF DescriptorReads
      <3>. QED
        BY <2>2, <3>1, <3>2
    <2>. QED
      BY <2>1, <2>2, <2>3
  <1>2. CASE t \in BulkTransfers
    <2>. DEFINE NonZero == {ep \in Endpoint : ep.num # 0}
                S == Stages \ {"data"}
    <2>1. /\ t \in [busy : {TRUE}, ep : NonZero, control : {FALSE},
                    setup : {ZeroSetup}, data : Answers, stage : S,
                    moved : {FALSE}, seen : BOOLEAN]
          /\ enumerated
      BY <1>2 DEF BulkTransfers
    <2>2. t.setup = ZeroSetup
      BY <2>1
    <2>. QED
      BY <2>1, <2>2 DEF ZeroSetup
  <1>. QED
    BY <1>1, <1>2

LEMMA SubmitNames ==
  ASSUME NothingLost, NamesInv, NEW id \in Ids, Submit(id)
  PROVE  HostReads' /\ SessionsNamed' /\ UNCHANGED <<capturing, enumerated, owners>>
  <1>1. PICK t \in ControlTransfers \cup BulkTransfers :
           /\ bus' = [bus EXCEPT ![id] = t]
           /\ \/ /\ t.seen /\ capturing
                 /\ IF t.control THEN BeginControl(t.ep, id, t.setup, Carried(t, "submit"))
                                 ELSE BeginBulk(t.ep, id, Carried(t, "submit"))
                 /\ UNCHANGED <<delivered, orphans, owners>>
              \/ ~t.seen /\ MayMiss("submit") /\ Missed
    BY DEF Submit
  <1>2. /\ UNCHANGED <<attached, enumerated, capturing>>
        /\ bus \in [Ids -> Transfer] /\ attached \in Devices
        /\ ~MayMiss("submit")
    BY DEF Submit, NamesInv, CaptureInv, BusOK, MayMiss, NothingLost
  <1>3. t.seen /\ UNCHANGED <<sessions, log, owners>>
    BY <1>1, <1>2 DEF BeginControl, BeginBulk
  <1>4. SessionsNamed'
    BY <1>2, <1>3, QuietNames DEF NamesInv
  <1>5. IF t.setup.deviceRead
        THEN /\ t.control /\ t.setup.wLength \in {1, DeviceSize}
             /\ t.data = SubSeq(DescriptorOf(attached), 1, t.setup.wLength)
        ELSE enumerated
    BY <1>2, SubmittedReads
  <1>6. bus'[id] = t /\ \A j \in Ids \ {id} : bus'[j] = bus[j]
    BY <1>1, <1>2
  <1>7. HostReads'
    <2>1. SUFFICES ASSUME NEW j \in Ids, bus'[j].busy
                   PROVE  /\ bus'[j].seen
                          /\ IF bus'[j].setup.deviceRead
                             THEN /\ bus'[j].control
                                  /\ bus'[j].setup.wLength \in {1, DeviceSize}
                                  /\ bus'[j].data = SubSeq(DescriptorOf(attached), 1,
                                                           bus'[j].setup.wLength)
                             ELSE enumerated
      BY <1>2 DEF HostReads, DescriptorOf
    <2>2. CASE j = id
      BY <1>3, <1>5, <1>6, <2>2
    <2>3. CASE j # id
      BY <1>6, <2>1, <2>3 DEF NamesInv, HostReads
    <2>. QED
      BY <2>2, <2>3
  <1>. QED
    BY <1>2, <1>3, <1>4, <1>7

LEMMA DataStageNames ==
  ASSUME NothingLost, NamesInv, NEW id \in Ids, DataStage(id)
  PROVE  HostReads' /\ SessionsNamed' /\ UNCHANGED <<capturing, enumerated, owners>>
  <1>1. /\ bus' = [bus EXCEPT ![id].moved = TRUE]
        /\ UNCHANGED <<sessions, log, attached, enumerated, capturing, owners>>
        /\ bus \in [Ids -> Transfer]
    BY DEF DataStage, AppendControl, handleVars, NamesInv, CaptureInv, BusOK
  <1>2. \A j \in Ids : /\ bus'[j].busy = bus[j].busy /\ bus'[j].seen = bus[j].seen
                       /\ bus'[j].setup = bus[j].setup /\ bus'[j].data = bus[j].data
                       /\ bus'[j].control = bus[j].control
    BY <1>1 DEF Transfer
  <1>3. HostReads'
    BY ZenonT(60), <1>1, <1>2 DEF NamesInv, HostReads, DescriptorOf
  <1>. QED
    BY <1>1, <1>3, QuietNames DEF NamesInv

\* A captured end of a transfer: its owner is the device that is attached.
LEMMA EndNames ==
  ASSUME NamesInv, TypeOK', NEW id \in Ids, bus[id].busy,
         bus' = [bus EXCEPT ![id] = Idle], attached' = attached,
         NEW data \in Seq(Cells), EndTransfer(id, bus[id], data),
         NEW d \in Dispatch, Given(bus[id], d),
         enumerated => enumerated',
         enumerated' => enumerated \/ FullDeviceRead(bus[id].setup, d.data)
  PROVE  HostReads' /\ SessionsNamed' /\ owners' = Append(owners, attached)
  <1>1. /\ TypeOK /\ log \in Seq(Dispatch) /\ bus[id] \in Transfer
        /\ bus[id].ep \in Endpoint /\ bus[id].setup \in Setup
    BY DEF NamesInv, CaptureInv, BusOK, TypeOK, Transfer
  <1>2. log' = Append(log, d)
    BY DEF Given
  <1>3. log' # log
    <2>1. Len(log') = Len(log) + 1 /\ Len(log) \in Nat
      BY <1>1, <1>2, AppendProperties, LenProperties
    <2>. QED
      BY <2>1
  <1>4. owners' = Append(owners, attached)
    BY <1>3 DEF EndTransfer, Owned
  <1>5. Handler(bus[id].ep, id, bus[id].setup, data)
    BY DEF EndTransfer, Handler
  <1>6. /\ Len(sessions') \in {Len(sessions), Len(sessions) + 1}
        /\ \A i \in 1 .. Len(sessions) :
               sessions[i] # NoDescriptor => sessions'[i] = sessions[i]
    BY <1>1, <1>5, HandlerSessions
  <1>7. SessionsNamed'
    BY <1>4, <1>6, GivenKeepsNames
  <1>. QED
    BY <1>4, <1>7, EndedReads

LEMMA CompleteNames ==
  ASSUME NothingLost, NamesInv, TypeOK', NEW id \in Ids, Complete(id)
  PROVE  /\ HostReads' /\ SessionsNamed' /\ capturing' = capturing
         /\ enumerated' \in BOOLEAN /\ owners' = Append(owners, attached)
  <1>. DEFINE t == bus[id]
              data == Carried(t, "complete")
              p == inflight[KeyOf(t, id)]
  <1>1. /\ t.busy /\ (t.stage = "data" => t.moved)
        /\ bus' = [bus EXCEPT ![id] = Idle]
        /\ enumerated' = (enumerated \/ FullDeviceRead(t.setup, t.data))
        /\ EndTransfer(id, t, data)
        /\ UNCHANGED <<attached, capturing>>
    BY DEF Complete, MayMiss, NothingLost, NamesInv
  <1>2. /\ t \in Transfer /\ WellFormed(t) /\ t.seen /\ Holds(t, id)
        /\ inflight \in [Keys -> Pending] /\ KeyOf(t, id) \in Keys
    BY <1>1, KeyOfTransfer DEF NamesInv, HostReads, CaptureInv, BusOK,
       InflightTracksBus, TypeOK
  <1>3. data \in Seq(Cells)
    BY <1>2, CarriedType
  <1>4. \E d \in Dispatch :
           Given(t, d) /\ (FullDeviceRead(t.setup, t.data) => FullDeviceRead(t.setup, d.data))
    <2>1. CASE t.control
      <3>1. p \in Pending /\ p.setup = t.setup /\ p.data = Shown(t)
        BY <1>2 DEF Holds
      <3>2. ControlPayload(p, data) = t.data
        BY <1>1, <1>2, <2>1, <3>1, ControlDataRight
      <3>3. EndControl(t.ep, id, data)
        BY <1>1, <2>1 DEF EndTransfer
      <3>. HIDE DEF data
      <3>4. PICK d \in Dispatch : Given(bus[id], d)
                 /\ d.data = ControlPayload(inflight[KeyOf(bus[id], id)], data)
        BY <1>1, <1>3, <2>1, <3>2, <3>3, ControlGiven
      <3>. QED
        BY <3>2, <3>4
    <2>2. CASE ~t.control
      <3>1. EndBulk(t.ep, id, data)
        BY <1>1, <2>2 DEF EndTransfer
      <3>2. ~FullDeviceRead(t.setup, t.data)
        BY <1>2, <2>2 DEF WellFormed, ZeroSetup, FullDeviceRead
      <3>. HIDE DEF data
      <3>. QED
        BY <1>1, <1>3, <2>2, <3>1, <3>2, BulkGiven
    <2>. QED
      BY <2>1, <2>2
  <1>5. PICK d \in Dispatch :
           Given(t, d) /\ (FullDeviceRead(t.setup, t.data) => FullDeviceRead(t.setup, d.data))
    BY <1>4
  <1>6. enumerated' \in BOOLEAN /\ (enumerated => enumerated')
        /\ (enumerated' => enumerated \/ FullDeviceRead(t.setup, d.data))
    BY <1>1, <1>5
  <1>. HIDE DEF data
  <1>. QED
    BY <1>1, <1>3, <1>5, <1>6, EndNames

LEMMA FailNames ==
  ASSUME NothingLost, NamesInv, TypeOK', NEW id \in Ids, Fail(id)
  PROVE  /\ HostReads' /\ SessionsNamed' /\ UNCHANGED <<capturing, enumerated>>
         /\ owners' \in {owners, Append(owners, attached)}
  <1>. DEFINE t == bus[id]
              p == inflight[KeyOf(t, id)]
  <1>1. /\ t.busy /\ bus' = [bus EXCEPT ![id] = Idle]
        /\ UNCHANGED <<attached, enumerated, capturing>>
        /\ \/ Abort(t.ep, id) /\ UNCHANGED <<orphans, owners>>
           \/ EndTransfer(id, t, <<>>)
    BY DEF Fail, MayMiss, NothingLost, NamesInv
  <1>2. CASE Abort(t.ep, id) /\ UNCHANGED <<orphans, owners>>
    <2>1. UNCHANGED <<sessions, log, owners>>
      BY <1>2 DEF Abort
    <2>. QED
      BY <1>1, <2>1, QuietNames, EndedReads DEF NamesInv
  <1>3. CASE EndTransfer(id, t, <<>>)
    <2>1. /\ t \in Transfer /\ WellFormed(t) /\ t.seen /\ Holds(t, id)
          /\ inflight \in [Keys -> Pending] /\ KeyOf(t, id) \in Keys
          /\ <<>> \in Seq(Cells)
      BY <1>1, KeyOfTransfer DEF NamesInv, HostReads, CaptureInv, BusOK,
         InflightTracksBus, TypeOK
    <2>2. \E d \in Dispatch : Given(t, d)
      <3>1. CASE t.control
        <4>1. p \in Pending /\ p.setup = t.setup /\ p.data = Shown(t)
          BY <2>1 DEF Holds
        <4>2. ControlPayload(p, <<>>) \in {<<>>, t.data}
          BY <2>1, <3>1, <4>1, FailedData
        <4>3. EndControl(t.ep, id, <<>>)
          BY <1>3, <3>1 DEF EndTransfer
        <4>. QED
          BY <1>1, <2>1, <3>1, <4>2, <4>3, ControlGiven
      <3>2. CASE ~t.control
        <4>1. EndBulk(t.ep, id, <<>>)
          BY <1>3, <3>2 DEF EndTransfer
        <4>. QED
          BY <1>1, <2>1, <3>2, <4>1, BulkGiven
      <3>. QED
        BY <3>1, <3>2
    <2>3. PICK d \in Dispatch : Given(t, d)
      BY <2>2
    <2>. QED
      BY <1>1, <1>3, <2>1, <2>3, EndNames
  <1>. QED
    BY <1>1, <1>2, <1>3

LEMMA NamesStep ==
  ASSUME NothingLost, NamesInv, [CaptureNext]_captureVars
  PROVE  NamesInv'
  <1>1. CaptureInv' /\ TypeOK'
    <2>1. OneSidedLoss
      BY DEF NothingLost, OneSidedLoss
    <2>. QED
      BY <2>1, CaptureStep DEF NamesInv, CaptureInv
  <1>2. /\ capturing = TRUE /\ enumerated \in BOOLEAN
        /\ owners \in Seq(Devices) /\ attached \in Devices
    BY DEF NamesInv, CaptureInv, BusOK
  <1>3. Append(owners, attached) \in Seq(Devices)
    BY <1>2, AppendProperties
  <1>4. ASSUME NEW id \in Ids, Submit(id) \/ DataStage(id)
        PROVE  NamesInv'
    BY <1>1, <1>2, <1>4, SubmitNames, DataStageNames DEF NamesInv
  <1>5. ASSUME NEW id \in Ids, Complete(id)
        PROVE  NamesInv'
    BY <1>1, <1>2, <1>3, <1>5, CompleteNames DEF NamesInv
  <1>6. ASSUME NEW id \in Ids, Fail(id)
        PROVE  NamesInv'
    BY <1>1, <1>2, <1>3, <1>6, FailNames DEF NamesInv
  <1>7. CASE Reattach
    <2>1. /\ \A id \in Ids : ~bus[id].busy
          /\ enumerated' = FALSE /\ UNCHANGED <<sessions, log, bus, capturing, owners>>
      BY <1>7 DEF Reattach, handleVars
    <2>2. HostReads'
      BY <2>1 DEF HostReads
    <2>3. SessionsNamed'
      BY <2>1, QuietNames DEF NamesInv
    <2>. QED
      BY <1>1, <1>2, <2>1, <2>2, <2>3 DEF NamesInv
  <1>8. CASE StartCapture
    BY <1>2, <1>8 DEF StartCapture
  <1>9. CASE UNCHANGED captureVars
    <2>1. UNCHANGED <<sessions, log, bus, attached, enumerated, capturing, owners>>
      BY <1>9 DEF captureVars, vars, busVars
    <2>2. HostReads'
      BY <2>1 DEF NamesInv, HostReads, DescriptorOf
    <2>3. SessionsNamed'
      BY <2>1, QuietNames DEF NamesInv
    <2>. QED
      BY <1>1, <1>2, <2>1, <2>2, <2>3 DEF NamesInv
  <1>. QED
    BY <1>4, <1>5, <1>6, <1>7, <1>8, <1>9 DEF CaptureNext

\* In a capture that starts with the bus and misses nothing, every transfer
\* but the descriptor reads themselves is reported in a session with the
\* descriptor of the device that was attached, failed transfers included,
\* whatever devices follow each other on the address.
THEOREM TrafficIsReportedUnderItsDevice ==
  ASSUME NothingLost
  PROVE  CaptureSpec => []SessionNamesItsDevice
  <1>1. CaptureInit => NamesInv
    <2>. SUFFICES ASSUME CaptureInit PROVE NamesInv
      OBVIOUS
    <2>1. capturing = TRUE /\ enumerated = FALSE /\ owners = <<>> /\ log = <<>>
      BY DEF CaptureInit, Init, NothingLost
    <2>2. \A id \in Ids : ~bus[id].busy
      BY DEF CaptureInit, Idle
    <2>3. HostReads
      BY <2>2 DEF HostReads
    <2>4. SessionsNamed
      BY <2>1, EmptySeq DEF SessionsNamed, SessionNamesItsDevice
    <2>5. owners \in Seq(Devices)
      BY <2>1
    <2>. QED
      BY <2>1, <2>3, <2>4, <2>5, CaptureInitial DEF NamesInv
  <1>2. NamesInv /\ [CaptureNext]_captureVars => NamesInv'
    BY NamesStep
  <1>3. NamesInv => SessionNamesItsDevice
    BY DEF NamesInv, SessionsNamed
  <1>. QED
    BY <1>1, <1>2, <1>3, PTL DEF CaptureSpec

-----------------------------------------------------------------------------
(***************************************************************************)
(* Part 3: the readers of capture files.                                   *)
(***************************************************************************)
HIDE CaptureAssumption
HIDE MaxCallsAssumption
HIDE LengthsAssumption
HIDE EndpointsAssumption
HIDE CellsAssumption
HIDE DEF CaptureAssumption

\* The words of a file, which may end inside the last one.
FileOK == file \in Seq(Nat) /\ size \in Nat /\ size <= Word * Len(file)

InterfaceRecords == [link : Nat, snaplen : Nat]
PacketRecords == [link : Nat, at : Nat, length : Nat]

\* What a warning may be about.
Topics == {"truncated block", "framing", "record header", "record", "interface",
           "enhanced packet", "undeclared interface", "overrun", "simple packet",
           "link type", "packet header"}

CountersOK ==
    /\ packets \in Seq(PacketRecords) /\ m_packetCount = Len(packets)
    /\ m_warningCount \in Nat /\ m_warnings \in Seq(Topics)
    /\ Len(m_warnings) = Min({m_warningCount, MaxWarnings})
    /\ m_unsupportedLinktypes \cap Supported = {}
    /\ m_deviceOrder \in Seq(Nat)

ReaderOK ==
    /\ status \in Statuses
    /\ offset \in Nat /\ offset <= size
    /\ interfaces \in Seq(InterfaceRecords)
    /\ status = "pcap" => offset >= 2 * Word

\* A word inside the file is a number.
LEMMA WordsAreNumbers ==
    ASSUME FileOK, NEW at \in Nat, at < size
    PROVE  WordAt(at) \in Nat
<1>1. at \div Word \in Nat /\ at \div Word < Len(file) /\ Len(file) \in Nat
  BY DEF FileOK, Word
<1>2. at \div Word + 1 \in 1..Len(file)
  BY <1>1
<1> QED BY <1>2 DEF WordAt, FileOK

\* What a warning does to the list of the first ones and the count of all.
LEMMA WarnedKeepsCount ==
    ASSUME CountersOK, NEW warning \in Topics, Warned(warning)
    PROVE  /\ m_warningCount' \in Nat /\ m_warnings' \in Seq(Topics)
           /\ Len(m_warnings') = Min({m_warningCount', MaxWarnings})
<1>1. MaxWarnings \in Nat
  BY FileAssumption
<1>2. m_warningCount \in Nat /\ m_warningCount' = m_warningCount + 1 /\ m_warningCount' \in Nat
  BY DEF CountersOK, Warned
<1>3. /\ Min({m_warningCount, MaxWarnings}) = IF m_warningCount <= MaxWarnings THEN m_warningCount ELSE MaxWarnings
      /\ Min({m_warningCount', MaxWarnings}) = IF m_warningCount' <= MaxWarnings THEN m_warningCount' ELSE MaxWarnings
  BY <1>1, <1>2, LeastOfTwo
<1>4. m_warnings \in Seq(Topics)
  BY DEF CountersOK
<1>5. Len(m_warnings) = IF m_warningCount <= MaxWarnings THEN m_warningCount ELSE MaxWarnings
  BY <1>3 DEF CountersOK
<1>6. m_warnings' = IF Len(m_warnings) < MaxWarnings THEN Append(m_warnings, warning) ELSE m_warnings
  BY DEF Warned
<1>7. m_warnings' \in Seq(Topics)
  <2>1. Append(m_warnings, warning) \in Seq(Topics)
    BY <1>4, AppendedTo
  <2> QED BY <1>4, <1>6, <2>1
<1>8. CASE m_warningCount < MaxWarnings
  <2>0. Len(m_warnings) < MaxWarnings
    BY <1>1, <1>2, <1>5, <1>8
  <2>1. m_warnings' = Append(m_warnings, warning)
    BY <1>6, <2>0
  <2>2. Len(m_warnings') = m_warningCount + 1
    BY <1>1, <1>2, <1>4, <1>5, <1>8, <2>1
  <2> QED BY <1>1, <1>2, <1>3, <1>7, <1>8, <2>2
<1>9. CASE ~(m_warningCount < MaxWarnings)
  <2>0. ~(Len(m_warnings) < MaxWarnings)
    BY <1>1, <1>2, <1>5, <1>9
  <2>1. m_warnings' = m_warnings
    BY <1>6, <2>0
  <2> QED BY <1>1, <1>2, <1>3, <1>5, <1>7, <1>9, <2>1
<1> QED BY <1>8, <1>9

\* A packet: its length and place are numbers, and it is inside the file.
IsInFile(p) == p \in PacketRecords /\ p.at + p.length <= size
Handed(p) == ProcessPacket(p.link, p.at, p.length)

LEMMA PacketKeepsCounters ==
    ASSUME FileOK, CountersOK, NEW p, IsInFile(p), Handed(p)
    PROVE  CountersOK'
<1>1. p.link \in Nat /\ p.at \in Nat /\ p.length \in Nat /\ p = [link |-> p.link, at |-> p.at, length |-> p.length]
  BY DEF IsInFile, PacketRecords
<1>2. packets' \in Seq(PacketRecords) /\ m_packetCount' = Len(packets')
  <2>1. packets' = Append(packets, p) /\ m_packetCount' = m_packetCount + 1
    BY <1>1 DEF Handed, ProcessPacket
  <2>2. packets \in Seq(PacketRecords) /\ m_packetCount = Len(packets) /\ p \in PacketRecords
    BY DEF CountersOK, IsInFile
  <2>3. Append(packets, p) \in Seq(PacketRecords) /\ Len(Append(packets, p)) = Len(packets) + 1
    BY <2>2, AppendedTo
  <2> QED BY <2>1, <2>2, <2>3
<1>3. \/ Warned("link type") \/ Warned("packet header") \/ NotWarned
  BY DEF Handed, ProcessPacket
<1>4. /\ m_warningCount' \in Nat /\ m_warnings' \in Seq(Topics)
      /\ Len(m_warnings') = Min({m_warningCount', MaxWarnings})
  <2>1. CASE NotWarned
    BY <2>1 DEF NotWarned, CountersOK
  <2>2. CASE Warned("link type")
    BY <2>2, WarnedKeepsCount, "link type" \in Topics DEF Topics
  <2>3. CASE Warned("packet header")
    BY <2>3, WarnedKeepsCount, "packet header" \in Topics DEF Topics
  <2> QED BY <1>3, <2>1, <2>2, <2>3
<1>5. m_unsupportedLinktypes' \cap Supported = {}
  BY DEF Handed, ProcessPacket, CountersOK
<1>6. m_deviceOrder' \in Seq(Nat)
  <2>1. m_deviceOrder \in Seq(Nat)
    BY DEF CountersOK
  <2>2. CASE m_deviceOrder' = m_deviceOrder
    BY <2>1, <2>2
  <2>3. CASE m_deviceOrder' # m_deviceOrder
    <3>1. ~(p.length < Word) /\ m_deviceOrder' = Append(m_deviceOrder, WordAt(p.at))
      BY <2>3 DEF Handed, ProcessPacket, Listed
    <3>2. p.at < size
      BY <1>1, <3>1 DEF IsInFile, Word, FileOK
    <3>3. WordAt(p.at) \in Nat
      BY <1>1, <3>2, WordsAreNumbers
    <3> QED BY <2>1, <3>1, <3>3, AppendedTo
  <2> QED BY <2>2, <2>3
<1> QED BY <1>2, <1>4, <1>5, <1>6 DEF CountersOK

-----------------------------------------------------------------------------
(* The devices in the order of their first packets.                         *)

\* The packets that are decoded and are of a device.
PacketsOfDevice(id) ==
    {k \in DOMAIN packets : Decodes(packets[k]) /\ WordAt(packets[k].at) = id}

\* A device is listed if and only if it has a packet, and one listed after
\* another has its first packet later.
InFile == \A k \in DOMAIN packets : packets[k].at + packets[k].length <= size
ListedIfSeen == \A id : id \in ToSet(m_deviceOrder) <=> PacketsOfDevice(id) # {}
ListedInOrder ==
    \A i, j \in DOMAIN m_deviceOrder : \A d, e :
        i < j /\ d = m_deviceOrder[i] /\ e = m_deviceOrder[j] => FirstOf(d) < FirstOf(e)
DevicesOK == InFile /\ ListedIfSeen /\ ListedInOrder

LEMMA DevicesListed ==
    ASSUME CountersOK, DevicesOK
    PROVE  DevicesInOrder
<1>1. ToSet(packets) = {packets[k] : k \in DOMAIN packets}
  BY DEF ToSet
<1>2. \A p \in ToSet(packets) : p.at + p.length <= size
  BY <1>1 DEF DevicesOK, InFile
<1>3. ToSet(m_deviceOrder) = {WordAt(p.at) : p \in {q \in ToSet(packets) : Decodes(q)}}
  <2>1. ASSUME NEW id PROVE id \in ToSet(m_deviceOrder) <=>
            id \in {WordAt(p.at) : p \in {q \in ToSet(packets) : Decodes(q)}}
    BY <1>1 DEF DevicesOK, ListedIfSeen, PacketsOfDevice
  <2> QED BY <2>1
<1> QED BY <1>2, <1>3 DEF DevicesInOrder, DevicesOK, ListedInOrder

\* The packet that is handed on is one more of its device, if it is decoded.
LEMMA OneMoreOfDevice ==
    ASSUME CountersOK, NEW p, IsInFile(p), Handed(p), UNCHANGED fileVars, NEW id
    PROVE  PacketsOfDevice(id)' = PacketsOfDevice(id) \cup
               (IF Decodes(p) /\ WordAt(p.at) = id THEN {Len(packets) + 1} ELSE {})
<1>1. p \in PacketRecords /\ packets \in Seq(PacketRecords) /\ Len(packets) \in Nat
  BY DEF CountersOK, IsInFile
<1>2. packets' = Append(packets, p)
  BY <1>1 DEF Handed, ProcessPacket, PacketRecords
<1> DEFINE q == Append(packets, p)
           n == Len(packets)
<1>3. /\ q \in Seq(PacketRecords) /\ Len(q) = n + 1 /\ q[n + 1] = p
      /\ \A k \in 1..n : q[k] = packets[k]
  BY <1>1, AppendedTo
<1>4. DOMAIN q = 1..n + 1 /\ DOMAIN packets = 1..n /\ n \in Nat
  BY <1>1, <1>3
<1>5. packets' = q
  BY <1>2
<1> HIDE DEF q, n
<1>6. PacketsOfDevice(id)' = {k \in 1..n + 1 : Decodes(q[k]) /\ WordAt(q[k].at) = id}
  BY <1>4, <1>5 DEF PacketsOfDevice, Decodes, WordAt, fileVars
<1>7. PacketsOfDevice(id) = {k \in 1..n : Decodes(packets[k]) /\ WordAt(packets[k].at) = id}
  BY <1>4 DEF PacketsOfDevice
<1>8. \A k \in 1..n + 1 : (k \in 1..n /\ q[k] = packets[k]) \/ (k = n + 1 /\ q[k] = p)
  <2> TAKE k \in 1..n + 1
  <2>1. CASE k \in 1..n
    BY <1>3, <2>1
  <2>2. CASE k = n + 1
    BY <1>3, <2>2
  <2> QED BY <1>4, <2>1, <2>2
<1>9. \A k \in 1..n : k \in 1..n + 1 /\ k # n + 1
  BY <1>4
<1>10. n + 1 \in 1..n + 1
  BY <1>4
<1>11. PacketsOfDevice(id)' = PacketsOfDevice(id) \cup
               (IF Decodes(p) /\ WordAt(p.at) = id THEN {n + 1} ELSE {})
  BY <1>6, <1>7, <1>8, <1>9, <1>10
<1> QED BY <1>11 DEF n

\* The first packet of a device that has one stays the first.
LEMMA FirstStays ==
    ASSUME CountersOK, NEW p, IsInFile(p), Handed(p), UNCHANGED fileVars, NEW id,
           PacketsOfDevice(id) # {}
    PROVE  FirstOf(id)' = FirstOf(id) /\ FirstOf(id) \in 1..Len(packets)
<1> DEFINE S == PacketsOfDevice(id)
           n == Len(packets)
           T == S \cup (IF Decodes(p) /\ WordAt(p.at) = id THEN {n + 1} ELSE {})
<1>1. n \in Nat /\ S \subseteq 1..n
  BY DEF CountersOK, PacketsOfDevice
<1>2. FirstOf(id) = Min(S)
  BY DEF FirstOf, PacketsOfDevice
<1>3. FirstOf(id)' = Min(T)
  <2>1. PacketsOfDevice(id)' = T
    BY OneMoreOfDevice
  <2>2. FirstOf(id)' = Min(PacketsOfDevice(id)')
    BY DEF FirstOf, PacketsOfDevice
  <2> QED BY <2>1, <2>2
<1>4. S # {}
  OBVIOUS
<1> HIDE DEF S, n
<1>5. S \in SUBSET Nat /\ T \in SUBSET Nat /\ T # {} /\ S \subseteq T
  BY <1>1, <1>4
<1>6. Min(S) \in S /\ \A m \in S : Min(S) <= m
  BY <1>4, <1>5, LeastIsMember
<1>7. Min(T) \in T /\ \A m \in T : Min(T) <= m
  <2>1. T \in SUBSET Nat /\ T # {}
    BY <1>5
  <2> HIDE DEF T
  <2> QED BY <2>1, LeastIsMember
<1>8. Min(S) \in 1..n /\ Min(T) <= Min(S)
  BY <1>1, <1>5, <1>6, <1>7
<1>9. Min(T) \in S
  BY <1>1, <1>7, <1>8
<1>10. Min(T) = Min(S)
  <2>1. Min(S) <= Min(T) /\ Min(T) <= Min(S)
    BY <1>6, <1>8, <1>9
  <2>2. Min(S) \in Nat /\ Min(T) \in Nat
    BY <1>5, <1>6, <1>7
  <2> QED BY <2>1, <2>2
<1> QED BY <1>2, <1>3, <1>8, <1>10 DEF n

\* A device whose first packet this is.
LEMMA FirstIsNew ==
    ASSUME CountersOK, NEW p, IsInFile(p), Handed(p), UNCHANGED fileVars, NEW id,
           PacketsOfDevice(id) = {}, Decodes(p), WordAt(p.at) = id
    PROVE  FirstOf(id)' = Len(packets) + 1
<1> DEFINE n == Len(packets)
<1>1. n \in Nat
  BY DEF CountersOK
<1>2. PacketsOfDevice(id)' = {n + 1}
  BY OneMoreOfDevice
<1>3. FirstOf(id)' = Min(PacketsOfDevice(id)')
  BY DEF FirstOf, PacketsOfDevice
<1>4. FirstOf(id)' = Min({n + 1})
  BY <1>2, <1>3
<1> HIDE DEF n
<1>5. {n + 1} \in SUBSET Nat /\ {n + 1} # {}
  BY <1>1
<1>6. Min({n + 1}) \in {n + 1}
  BY <1>5, LeastIsMember
<1> QED BY <1>4, <1>6 DEF n

\* Of a packet that is decoded, the device is listed; of others nothing is.
LEMMA PacketIsListed ==
    ASSUME CountersOK, NEW p, IsInFile(p), Handed(p)
    PROVE  m_deviceOrder' = IF Decodes(p) THEN Listed(WordAt(p.at)) ELSE m_deviceOrder
<1>1. p.length \in Nat
  BY DEF IsInFile, PacketRecords
<1>2. (p.length >= Word) <=> ~(p.length < Word)
  BY <1>1 DEF Word
<1> QED BY <1>2 DEF Handed, ProcessPacket, Decodes

LEMMA PacketKeepsDevices ==
    ASSUME FileOK, CountersOK, DevicesOK, NEW p, IsInFile(p), Handed(p), UNCHANGED fileVars
    PROVE  DevicesOK'
<1> DEFINE n == Len(packets)
           s == m_deviceOrder
<1>0. \E d : d = WordAt(p.at)
  OBVIOUS
<1> PICK id : id = WordAt(p.at)
  BY <1>0
<1>1. InFile'
  <2>1. packets \in Seq(PacketRecords) /\ p \in PacketRecords
    BY DEF CountersOK, IsInFile
  <2>2. packets' = Append(packets, p)
    BY DEF IsInFile, PacketRecords, Handed, ProcessPacket
  <2>3. /\ Len(packets') = n + 1 /\ packets'[n + 1] = p /\ n \in Nat
        /\ packets' \in Seq(PacketRecords)
        /\ \A k \in 1..n : packets'[k] = packets[k]
    BY <2>1, <2>2, AppendedTo
  <2>4. DOMAIN packets' = 1..n + 1 /\ DOMAIN packets = 1..n
    BY <2>1, <2>3
  <2> HIDE DEF n
  <2>5. ASSUME NEW k \in 1..n + 1 PROVE packets'[k].at + packets'[k].length <= size
    <3>1. CASE k \in 1..n
      BY <2>3, <2>4, <3>1 DEF DevicesOK, InFile
    <3>2. CASE k = n + 1
      BY <2>3, <3>2 DEF IsInFile
    <3> QED BY <2>3, <3>1, <3>2
  <2> QED BY <2>4, <2>5 DEF InFile, fileVars
<1>2. /\ s \in Seq(Nat) /\ DOMAIN s = 1..Len(s) /\ Len(s) \in Nat /\ n \in Nat
      /\ ToSet(s) = {s[i] : i \in DOMAIN s}
  BY DEF CountersOK, ToSet
<1>3. ASSUME NEW i \in DOMAIN s, NEW d, d = s[i]
      PROVE  FirstOf(d)' = FirstOf(d) /\ FirstOf(d) \in 1..n
  <2>1. PacketsOfDevice(d) # {}
    BY <1>2, <1>3 DEF DevicesOK, ListedIfSeen
  <2> QED BY <2>1, FirstStays
<1>4. CASE s' = s
  <2>1. ASSUME NEW d PROVE d \in ToSet(s) <=> PacketsOfDevice(d)' # {}
    <3>1. CASE PacketsOfDevice(d)' = PacketsOfDevice(d)
      BY <3>1 DEF DevicesOK, ListedIfSeen
    <3>2. CASE PacketsOfDevice(d)' # PacketsOfDevice(d)
      <4>0. PacketsOfDevice(d)' = PacketsOfDevice(d) \cup
                (IF Decodes(p) /\ WordAt(p.at) = d THEN {Len(packets) + 1} ELSE {})
        BY OneMoreOfDevice
      <4>1. Decodes(p) /\ d = id /\ PacketsOfDevice(d)' # {}
        BY <3>2, <4>0
      <4>2. s = Listed(id)
        BY <1>4, <4>1, PacketIsListed
      <4>3. id \in ToSet(s)
        <5>1. CASE id \notin ToSet(s)
          <6>1. s = Append(s, id)
            BY <4>2, <5>1 DEF Listed
          <6> QED BY <1>2, <6>1
        <5> QED BY <5>1
      <4> QED BY <4>1, <4>3
    <3> QED BY <3>1, <3>2
  <2>2. ListedIfSeen'
    BY <1>4, <2>1 DEF ListedIfSeen
  <2>3. \A i, j \in DOMAIN s : \A d, e :
            i < j /\ d = s[i] /\ e = s[j] => FirstOf(d)' < FirstOf(e)'
    BY <1>3 DEF DevicesOK, ListedInOrder
  <2>4. ListedInOrder'
    BY <1>4, <2>3 DEF ListedInOrder
  <2> QED BY <1>1, <2>2, <2>4 DEF DevicesOK
<1>5. CASE s' # s
  <2>1. Decodes(p) /\ id \notin ToSet(s) /\ s' = Append(s, id)
    BY <1>5, PacketIsListed DEF Listed
  <2>2. id \in Nat
    <3>1. p.at \in Nat /\ p.length \in Nat /\ p.length >= Word
      BY <2>1 DEF IsInFile, PacketRecords, Decodes
    <3>2. p.at < size
      BY <3>1 DEF IsInFile, Word, FileOK
    <3> QED BY <3>1, <3>2, WordsAreNumbers
  <2> HIDE DEF n
  <2> DEFINE m == Len(s)
  <2>3. /\ s' \in Seq(Nat) /\ Len(s') = m + 1 /\ s'[m + 1] = id
        /\ \A i \in 1..m : s'[i] = s[i]
        /\ ToSet(s') = ToSet(s) \cup {id}
    <3>1. s \in Seq(Nat) /\ id \in Nat
      BY <1>2, <2>2
    <3> DEFINE t == Append(s, id)
    <3>2. /\ t \in Seq(Nat) /\ Len(t) = m + 1 /\ t[m + 1] = id
          /\ \A i \in 1..m : t[i] = s[i]
          /\ ToSet(t) = ToSet(s) \cup {id}
      BY <3>1, AppendedTo
    <3>3. s' = t
      BY <2>1
    <3> HIDE DEF t
    <3> QED BY <3>2, <3>3
  <2>4. PacketsOfDevice(id) = {}
    BY <2>1 DEF DevicesOK, ListedIfSeen
  <2>5. FirstOf(id)' = n + 1
    BY <2>1, <2>4, FirstIsNew DEF n
  <2>6. ListedIfSeen'
    <3>1. ASSUME NEW d PROVE d \in ToSet(s') <=> PacketsOfDevice(d)' # {}
      <4>1. PacketsOfDevice(d)' = PacketsOfDevice(d) \cup (IF Decodes(p) /\ id = d THEN {Len(packets) + 1} ELSE {})
        BY OneMoreOfDevice
      <4>2. CASE d = id
        BY <2>1, <2>3, <4>1, <4>2
      <4>3. CASE d # id
        BY <2>3, <4>1, <4>3 DEF DevicesOK, ListedIfSeen
      <4> QED BY <4>2, <4>3
    <3> QED BY <3>1 DEF ListedIfSeen
  <2>7. DOMAIN s' = 1..m + 1 /\ m \in Nat /\ DOMAIN s = 1..m
    BY <1>2, <2>3
  <2>8. ASSUME NEW i \in 1..m, NEW d, d = s'[i]
        PROVE  i \in DOMAIN s /\ d = s[i] /\ FirstOf(d)' = FirstOf(d) /\ FirstOf(d) \in 1..n
    <3>1. i \in DOMAIN s /\ d = s[i]
      BY <2>3, <2>7, <2>8
    <3> QED BY <1>3, <3>1
  <2> HIDE DEF m
  <2>10. ASSUME NEW i \in 1..m + 1, NEW j \in 1..m + 1, i < j, NEW d, NEW e, d = s'[i], e = s'[j]
         PROVE  FirstOf(d)' < FirstOf(e)'
    <3>1. i \in 1..m
      BY <2>7, <2>10
    <3>2. CASE j \in 1..m
      BY <2>7, <2>8, <2>10, <3>1, <3>2 DEF DevicesOK, ListedInOrder
    <3>3. CASE j = m + 1
      <4>1. FirstOf(e)' = n + 1
        BY <2>3, <2>5, <2>10, <3>3
      <4>2. FirstOf(d)' \in 1..n
        BY <2>8, <2>10, <3>1
      <4> QED BY <1>2, <4>1, <4>2
    <3> QED BY <2>7, <3>2, <3>3
  <2>11. \A i, j \in DOMAIN s' : \A d, e :
             i < j /\ d = s'[i] /\ e = s'[j] => FirstOf(d)' < FirstOf(e)'
    BY <2>7, <2>10
  <2>12. ListedInOrder'
    BY <2>11 DEF ListedInOrder
  <2> QED BY <1>1, <2>6, <2>12 DEF DevicesOK
<1> QED BY <1>4, <1>5

-----------------------------------------------------------------------------
(* Any capture file, whole or damaged, and any step of a reader.            *)

FileInv == FileOK /\ ReaderOK /\ CountersOK /\ DevicesOK

\* What is written is words.
LEMMA FramedTyped ==
    ASSUME NEW type \in Nat, NEW body \in Seq(Nat)
    PROVE  /\ Framed(type, body) \in Seq(Nat)
           /\ Len(Framed(type, body)) = Len(body) + 3
<1> DEFINE k == Word * (Len(body) + 3)
           front == <<type, k>>
           back == <<k>>
<1>1. k \in Nat /\ Len(body) \in Nat
  BY DEF Word
<1> HIDE DEF k
<1>2. front \in Seq(Nat) /\ back \in Seq(Nat) /\ Len(front) = 2 /\ Len(back) = 1
  BY <1>1
<1> HIDE DEF front, back
<1>3. front \o body \in Seq(Nat) /\ Len(front \o body) = 2 + Len(body)
  <2>1. front \in Seq(Nat)
    BY <1>2
  <2>2. front \o body \in Seq(Nat) /\ Len(front \o body) = Len(front) + Len(body)
    BY <2>1, ConcatFirst
  <2> QED BY <1>2, <2>2
<1> DEFINE f == front \o body
<1>4. f \in Seq(Nat) /\ Len(f) = 2 + Len(body)
  BY <1>3
<1> HIDE DEF f
<1>5. f \o back \in Seq(Nat) /\ Len(f \o back) = Len(f) + 1
  <2>1. f \in Seq(Nat) /\ back \in Seq(Nat)
    BY <1>2, <1>4
  <2>2. f \o back \in Seq(Nat) /\ Len(f \o back) = Len(f) + Len(back)
    BY <2>1, ConcatFirst
  <2> QED BY <1>2, <2>2
<1>6. Framed(type, body) = f \o back
  BY DEF Framed, f, front, back, k
<1> QED BY <1>1, <1>4, <1>5, <1>6

LEMMA OrderTyped ==
    ASSUME NEW word \in Nat
    PROVE  Swap(word) \in Nat /\ Order(word) \in Nat /\ Value(word) \in Nat /\ LinkBits(word) \in Nat
<1>1. Swap(word) \in Nat /\ LinkBits(word) \in Nat
  BY DEF Swap, LinkBits
<1> QED BY <1>1 DEF Order, Value

LEMMA EncodedTyped ==
    ASSUME NEW block \in Blocks
    PROVE  Encoded(block) \in Seq(Nat)
<1>1. /\ block.kind \in {"section", "interface", "enhanced", "simple", "other", "pcap", "record"}
      /\ block.magic \in Nat /\ block.link \in Nat /\ block.snaplen \in Nat
      /\ block.interface \in Nat /\ block.payload \in Seq(Nat) /\ block.length \in Nat
  BY DEF Blocks
<1>2. CASE block.kind = "section"
  <2>1. <<ByteOrderMagic, 1>> \in Seq(Nat) /\ SectionHeader \in Nat
    BY DEF ByteOrderMagic, SectionHeader
  <2> QED BY <1>2, <2>1, FramedTyped DEF Encoded
<1>3. CASE block.kind = "interface"
  <2>1. <<block.link, block.snaplen>> \in Seq(Nat) /\ InterfaceDescription \in Nat
    BY <1>1 DEF InterfaceDescription
  <2> QED BY <1>3, <2>1, FramedTyped DEF Encoded
<1>4. CASE block.kind = "enhanced"
  <2>1. <<block.interface, block.length>> \in Seq(Nat) /\ EnhancedPacket \in Nat
    BY <1>1 DEF EnhancedPacket
  <2>2. <<block.interface, block.length>> \o block.payload \in Seq(Nat)
    BY <1>1, <2>1, ConcatFirst
  <2> QED BY <1>4, <2>1, <2>2, FramedTyped DEF Encoded
<1>5. CASE block.kind = "simple"
  <2>1. <<block.length>> \in Seq(Nat) /\ SimplePacket \in Nat
    BY <1>1 DEF SimplePacket
  <2>2. <<block.length>> \o block.payload \in Seq(Nat)
    BY <1>1, <2>1, ConcatFirst
  <2> QED BY <1>5, <2>1, <2>2, FramedTyped DEF Encoded
<1>6. CASE block.kind = "other"
  BY <1>1, <1>6, FramedTyped DEF Encoded
<1>7. CASE block.kind = "pcap"
  <2>1. Order(block.link) \in Nat
    BY <1>1, OrderTyped
  <2> QED BY <1>1, <1>7, <2>1 DEF Encoded
<1>8. CASE block.kind = "record"
  <2>1. Order(block.length) \in Nat
    BY <1>1, OrderTyped
  <2>2. <<Order(block.length)>> \in Seq(Nat)
    BY <2>1
  <2>3. <<Order(block.length)>> \o block.payload \in Seq(Nat)
    BY <1>1, <2>2, ConcatFirst
  <2> QED BY <1>8, <2>3 DEF Encoded
<1> QED BY <1>1, <1>2, <1>3, <1>4, <1>5, <1>6, <1>7, <1>8

LEMMA WrittenTyped ==
    ASSUME NEW blocks \in Seq(Blocks)
    PROVE  Written(blocks) \in Seq(Nat)
<1> DEFINE s == [i \in DOMAIN blocks |-> Encoded(blocks[i])]
<1>1. s \in Seq(Seq(Nat))
  <2>1. DOMAIN blocks = 1..Len(blocks) /\ Len(blocks) \in Nat /\ \A i \in 1..Len(blocks) : blocks[i] \in Blocks
    OBVIOUS
  <2>2. \A i \in 1..Len(blocks) : Encoded(blocks[i]) \in Seq(Nat)
    BY <2>1, EncodedTyped
  <2> QED BY <2>1, <2>2
<1> HIDE DEF s
<1>2. FlattenSeq(s) \in Seq(Nat)
  BY <1>1, FlattenTyped
<1> QED BY <1>2 DEF Written, s

\* The file and its one damage.
FileWritten ==
    LET words == Written(layout) IN
    /\ layout \in Layouts /\ damage \in Damages(words)
    /\ file = IF damage.kind = "word" THEN [words EXCEPT ![damage.at] = damage.value] ELSE words
    /\ size = IF damage.kind = "cut" THEN damage.at ELSE Word * Len(words)

LEMMA LayoutTyped ==
    ASSUME FileWritten
    PROVE  /\ layout \in Layouts /\ layout \in Seq(Blocks) /\ Len(layout) \in Nat /\ Len(layout) >= 1
           /\ PcapngFile(layout) \/ PcapFile(layout)
           /\ \A i \in 1..Len(layout) : layout[i] \in Blocks
<1>1. layout \in Layouts
  BY DEF FileWritten
<1>2. layout \in Seq(Blocks) /\ layout # <<>>
  BY <1>1, FileAssumption
<1>3. Len(layout) \in Nat /\ Len(layout) >= 1 /\ \A i \in 1..Len(layout) : layout[i] \in Blocks
  BY <1>2
<1> QED BY <1>1, <1>2, <1>3, LayoutAssumption

LEMMA FileIsTyped ==
    ASSUME FileWritten
    PROVE  FileOK
<1> DEFINE words == Written(layout)
<1>1. words \in Seq(Nat)
  BY LayoutTyped, WrittenTyped
<1>2. /\ damage \in Damages(words)
      /\ file = IF damage.kind = "word" THEN [words EXCEPT ![damage.at] = damage.value] ELSE words
      /\ size = IF damage.kind = "cut" THEN damage.at ELSE Word * Len(words)
  BY DEF FileWritten
<1> HIDE DEF words
<1>3. Len(words) \in Nat /\ Word * Len(words) \in Nat /\ DOMAIN words = 1..Len(words)
  BY <1>1 DEF Word
<1>4. /\ damage.kind = "cut" => damage.at \in 0..(Word * Len(words) - 1)
      /\ damage.kind = "word" => damage.at \in DOMAIN words /\ damage.value \in Values
  BY <1>2 DEF Damages
<1>5. file \in Seq(Nat) /\ Len(file) = Len(words)
  <2>1. damage.kind = "word" => damage.at \in 1..Len(words) /\ damage.value \in Nat
    BY <1>3, <1>4, FileAssumption
  <2> QED BY <1>1, <1>2, <2>1
<1>6. size \in Nat /\ size <= Word * Len(words)
  BY <1>2, <1>3, <1>4
<1> QED BY <1>5, <1>6 DEF FileOK

LEMMA FileStarts == FileInit => FileInv
<1> SUFFICES ASSUME FileInit PROVE FileInv
  OBVIOUS
<1>1. FileOK
  BY FileIsTyped DEF FileInit, FileWritten
<1>2. ReaderOK
  BY <1>1 DEF FileOK, FileInit, ReaderOK, Statuses
<1>3. CountersOK
  <2>1. MaxWarnings \in Nat
    BY FileAssumption
  <2>2. Min({0, MaxWarnings}) = 0
    BY <2>1, LeastOfTwo
  <2> QED BY <2>2 DEF FileInit, CountersOK
<1>4. DevicesOK
  BY DEF FileInit, DevicesOK, InFile, ListedIfSeen, ListedInOrder, PacketsOfDevice, ToSet
<1> QED BY <1>1, <1>2, <1>3, <1>4 DEF FileInv

\* What has been handed on is not touched.
LEMMA PacketsSame ==
    ASSUME FileInv, UNCHANGED <<fileVars, packets, m_deviceOrder>>
    PROVE  FileOK' /\ DevicesOK'
<1>1. /\ file' = file /\ size' = size /\ packets' = packets /\ m_deviceOrder' = m_deviceOrder
  BY DEF fileVars
<1>2. FileOK'
  BY <1>1 DEF FileInv, FileOK
<1>3. InFile'
  BY <1>1 DEF FileInv, DevicesOK, InFile
<1>4. \A id : PacketsOfDevice(id)' = PacketsOfDevice(id)
  BY <1>1 DEF PacketsOfDevice, Decodes, WordAt
<1>5. ListedIfSeen'
  BY <1>1, <1>4 DEF FileInv, DevicesOK, ListedIfSeen
<1>6. \A id : FirstOf(id)' = FirstOf(id)
  BY <1>1 DEF FirstOf, Decodes, WordAt
<1>7. ListedInOrder'
  BY <1>1, <1>6 DEF FileInv, DevicesOK, ListedInOrder
<1> QED BY <1>2, <1>3, <1>5, <1>7 DEF DevicesOK

LEMMA NothingHanded ==
    ASSUME FileInv, UNCHANGED <<fileVars, counters>>
    PROVE  FileOK' /\ CountersOK' /\ DevicesOK'
<1>1. FileOK' /\ DevicesOK'
  BY PacketsSame DEF counters
<1>2. CountersOK'
  BY DEF FileInv, CountersOK, counters
<1> QED BY <1>1, <1>2

LEMMA OnlyWarned ==
    ASSUME FileInv, NEW warning \in Topics, Warn(warning), UNCHANGED fileVars
    PROVE  FileOK' /\ CountersOK' /\ DevicesOK'
<1>1. FileOK' /\ DevicesOK'
  BY PacketsSame DEF Warn
<1>2. /\ m_warningCount' \in Nat /\ m_warnings' \in Seq(Topics)
      /\ Len(m_warnings') = Min({m_warningCount', MaxWarnings})
  BY WarnedKeepsCount DEF Warn, FileInv
<1>3. CountersOK'
  BY <1>2 DEF FileInv, CountersOK, Warn
<1> QED BY <1>1, <1>3

LEMMA PacketHanded ==
    ASSUME FileInv, NEW link \in Nat, NEW at \in Nat, NEW length \in Nat, at + length <= size,
           ProcessPacket(link, at, length), UNCHANGED fileVars
    PROVE  FileOK' /\ CountersOK' /\ DevicesOK'
<1> DEFINE p == [link |-> link, at |-> at, length |-> length]
<1>1. IsInFile(p) /\ Handed(p)
  BY DEF IsInFile, PacketRecords, Handed
<1>2. FileOK'
  BY DEF FileInv, FileOK, fileVars
<1> HIDE DEF p
<1> QED BY <1>1, <1>2, PacketKeepsCounters, PacketKeepsDevices DEF FileInv

-----------------------------------------------------------------------------
\* A block that is read is inside the file.
LEMMA BlockInFile ==
    ASSUME FileInv, ~Truncated
    PROVE  /\ size \in Nat /\ offset \in Nat /\ offset + 12 <= size
           /\ BlockType \in Nat /\ BlockLength \in Nat
           /\ Body = offset + 8 /\ BodyLength = BlockLength - 12
<1>1. size \in Nat /\ offset \in Nat /\ offset + 12 <= size
  BY DEF FileInv, FileOK, ReaderOK, Truncated, Overhead, Word
<1>2. BlockType \in Nat /\ BlockLength \in Nat
  <2>1. offset < size /\ offset + 4 \in Nat /\ offset + 4 < size
    BY <1>1
  <2> QED BY <1>1, <2>1, WordsAreNumbers DEF BlockType, BlockLength, Word, FileInv
<1> QED BY <1>1, <1>2 DEF Body, BodyLength, Overhead, Word

LEMMA InterfaceTyped ==
    ASSUME NEW s \in Seq(InterfaceRecords), NEW i \in 1..Len(s)
    PROVE  s[i].link \in Nat /\ s[i].snaplen \in Nat
<1>1. s[i] \in InterfaceRecords
  OBVIOUS
<1> QED BY <1>1 DEF InterfaceRecords

LEMMA InterfaceKept ==
    ASSUME FileInv, ~Truncated, ~BadFraming, InterfaceBlock, UNCHANGED fileVars
    PROVE  /\ interfaces' \in Seq(InterfaceRecords)
           /\ FileOK' /\ CountersOK' /\ DevicesOK'
<1>1. /\ size \in Nat /\ offset \in Nat /\ BlockLength \in Nat /\ offset + BlockLength <= size
      /\ Body = offset + 8 /\ BodyLength = BlockLength - 12
  BY BlockInFile DEF BadFraming
<1>2. interfaces \in Seq(InterfaceRecords)
  BY DEF FileInv, ReaderOK
<1>3. CASE BodyLength >= 2 * Word
  <2>1. Body \in Nat /\ Body < size /\ Body + Word \in Nat /\ Body + Word < size
    BY <1>1, <1>3 DEF Word
  <2>2. WordAt(Body) \in Nat /\ WordAt(Body + Word) \in Nat
    BY <2>1, WordsAreNumbers DEF FileInv
  <2> DEFINE r == [link |-> WordAt(Body), snaplen |-> WordAt(Body + Word)]
  <2>3. r \in InterfaceRecords
    BY <2>2 DEF InterfaceRecords
  <2>4. interfaces' = Append(interfaces, r) /\ UNCHANGED counters
    BY <1>3 DEF InterfaceBlock
  <2> HIDE DEF r
  <2> QED BY <1>2, <2>3, <2>4, AppendedTo, NothingHanded
<1>4. CASE ~(BodyLength >= 2 * Word)
  <2>1. Warn("interface") /\ interfaces' = interfaces
    BY <1>4 DEF InterfaceBlock
  <2> QED BY <1>2, <2>1, OnlyWarned DEF Topics
<1> QED BY <1>3, <1>4

LEMMA EnhancedKept ==
    ASSUME FileInv, ~Truncated, ~BadFraming, EnhancedBlock, UNCHANGED fileVars
    PROVE  FileOK' /\ CountersOK' /\ DevicesOK'
<1>1. /\ size \in Nat /\ offset \in Nat /\ BlockLength \in Nat /\ offset + BlockLength <= size
      /\ Body = offset + 8 /\ BodyLength = BlockLength - 12
  BY BlockInFile DEF BadFraming
<1>2. interfaces \in Seq(InterfaceRecords)
  BY DEF FileInv, ReaderOK
<1>3. CASE \E warning \in Topics : Warn(warning)
  BY <1>3, OnlyWarned
<1>4. CASE ~\E warning \in Topics : Warn(warning)
  <2> DEFINE id == WordAt(Body)
             captured == WordAt(Body + Word)
  <2>1. ~(BodyLength < 2 * Word)
    BY <1>4 DEF EnhancedBlock, Topics
  <2>2. ~(id >= Len(interfaces))
    BY <1>4, <2>1 DEF EnhancedBlock, Topics
  <2>3. ~Overruns(captured)
    BY <1>4, <2>1, <2>2 DEF EnhancedBlock, Topics
  <2>4. ProcessPacket(interfaces[id + 1].link, Body + 2 * Word, captured)
    BY <2>1, <2>2, <2>3 DEF EnhancedBlock
  <2>5. Body \in Nat /\ Body < size /\ Body + Word \in Nat /\ Body + Word < size
    BY <1>1, <2>1 DEF Word
  <2>6. id \in Nat /\ captured \in Nat
    BY <2>5, WordsAreNumbers DEF FileInv
  <2> HIDE DEF id, captured
  <2>7. id + 1 \in 1..Len(interfaces)
    BY <1>2, <2>2, <2>6
  <2>8. interfaces[id + 1].link \in Nat
    BY <1>2, <2>7, InterfaceTyped
  <2>9. Body + 2 * Word \in Nat /\ (Body + 2 * Word) + captured <= size
    BY <1>1, <2>1, <2>3, <2>6 DEF Overruns, Word
  <2> DEFINE link == interfaces[id + 1].link
             at == Body + 2 * Word
  <2>10. link \in Nat /\ at \in Nat /\ at + captured <= size /\ ProcessPacket(link, at, captured)
    BY <2>4, <2>8, <2>9
  <2> HIDE DEF link, at
  <2> QED BY <2>6, <2>10, PacketHanded
<1> QED BY <1>3, <1>4

LEMMA SimpleKept ==
    ASSUME FileInv, ~Truncated, ~BadFraming, SimpleBlock, UNCHANGED fileVars
    PROVE  FileOK' /\ CountersOK' /\ DevicesOK'
<1>1. /\ size \in Nat /\ offset \in Nat /\ BlockLength \in Nat /\ offset + BlockLength <= size
      /\ Body = offset + 8 /\ BodyLength = BlockLength - 12
  BY BlockInFile DEF BadFraming
<1>2. interfaces \in Seq(InterfaceRecords)
  BY DEF FileInv, ReaderOK
<1>3. CASE BodyLength < Word \/ interfaces = <<>>
  BY <1>3, OnlyWarned DEF SimpleBlock, Topics
<1>4. CASE ~(BodyLength < Word \/ interfaces = <<>>)
  <2> DEFINE snaplen == interfaces[1].snaplen
             link == interfaces[1].link
             at == Body + Word
             length == Captured(WordAt(Body), snaplen)
  <2>1. ProcessPacket(link, at, length)
    BY <1>4 DEF SimpleBlock
  <2>2. link \in Nat /\ snaplen \in Nat
    <3>1. 1 \in 1..Len(interfaces)
      BY <1>2, <1>4
    <3> QED BY <1>2, <3>1, InterfaceTyped
  <2>3. Body \in Nat /\ Body < size /\ at \in Nat /\ BodyLength - Word \in Nat
    BY <1>1, <1>4 DEF Word
  <2>4. WordAt(Body) \in Nat
    BY <2>3, WordsAreNumbers DEF FileInv
  <2> DEFINE S == {WordAt(Body), BodyLength - Word} \cup (IF snaplen # 0 THEN {snaplen} ELSE {})
  <2>5. length = Min(S)
    BY DEF Captured
  <2> HIDE DEF snaplen, link, length
  <2>6. S \in SUBSET Nat /\ S # {} /\ BodyLength - Word \in S
    BY <2>2, <2>3, <2>4
  <2> HIDE DEF S
  <2>7. length \in Nat /\ length <= BodyLength - Word
    BY <2>5, <2>6, LeastIsMember
  <2>8. at + length <= size
    BY <1>1, <2>3, <2>7 DEF Word
  <2> HIDE DEF at
  <2> QED BY <2>1, <2>2, <2>3, <2>7, <2>8, PacketHanded
<1> QED BY <1>3, <1>4

LEMMA BlockKept ==
    ASSUME FileInv, NextBlock
    PROVE  FileInv'
<1>1. /\ UNCHANGED fileVars /\ size \in Nat /\ offset \in Nat /\ offset <= size
      /\ status \in Statuses /\ status = "pcapng" /\ interfaces \in Seq(InterfaceRecords)
  BY DEF NextBlock, FileInv, FileOK, ReaderOK
<1>2. size' = size
  BY <1>1 DEF fileVars
<1>3. CASE \E why \in Topics : Stop(why)
  <2>1. PICK why \in Topics : Stop(why)
    BY <1>3
  <2>2. ReaderOK'
    BY <1>1, <1>2, <2>1 DEF Stop, ReaderOK, Statuses
  <2>3. FileOK' /\ CountersOK' /\ DevicesOK'
    BY <1>1, <2>1, OnlyWarned DEF Stop
  <2> QED BY <2>2, <2>3 DEF FileInv
<1>4. CASE Throw
  <2>1. ReaderOK'
    BY <1>1, <1>2, <1>4 DEF Throw, ReaderOK, Statuses
  <2>2. FileOK' /\ CountersOK' /\ DevicesOK'
    BY <1>1, <1>4, NothingHanded DEF Throw
  <2> QED BY <2>1, <2>2 DEF FileInv
<1>5. CASE ~(\E why \in Topics : Stop(why)) /\ ~Throw
  <2>1. ~Truncated /\ ~BadFraming
    BY <1>5 DEF NextBlock, Topics
  <2>2. /\ offset' = offset + BlockLength /\ status' = status
        /\ \/ InterfaceBlock
           \/ EnhancedBlock /\ UNCHANGED interfaces
           \/ SimpleBlock /\ UNCHANGED interfaces
           \/ interfaces' = InterfacesNow /\ UNCHANGED counters
    BY <1>5, <2>1 DEF NextBlock, Topics
  <2>3. offset' \in Nat /\ offset' <= size
    BY <2>1, <2>2, BlockInFile DEF BadFraming
  <2>4. interfaces' \in Seq(InterfaceRecords) /\ FileOK' /\ CountersOK' /\ DevicesOK'
    <3>1. CASE InterfaceBlock
      BY <1>1, <2>1, <3>1, InterfaceKept
    <3>2. CASE EnhancedBlock /\ UNCHANGED interfaces
      BY <1>1, <2>1, <3>2, EnhancedKept
    <3>3. CASE SimpleBlock /\ UNCHANGED interfaces
      BY <1>1, <2>1, <3>3, SimpleKept
    <3>4. CASE interfaces' = InterfacesNow /\ UNCHANGED counters
      <4>1. interfaces' \in Seq(InterfaceRecords)
        BY <1>1, <3>4 DEF InterfacesNow
      <4> QED BY <1>1, <3>4, <4>1, NothingHanded
    <3> QED BY <2>2, <3>1, <3>2, <3>3, <3>4
  <2> QED BY <1>1, <1>2, <2>2, <2>3, <2>4 DEF FileInv, ReaderOK
<1> QED BY <1>3, <1>4, <1>5

LEMMA RecordKept ==
    ASSUME FileInv, NextRecord
    PROVE  FileInv'
<1>1. /\ UNCHANGED fileVars /\ size \in Nat /\ offset \in Nat /\ offset < size
      /\ offset <= size /\ offset >= 8 /\ status = "pcap" /\ status \in Statuses /\ interfaces \in Seq(InterfaceRecords)
  <2>1. UNCHANGED fileVars /\ status = "pcap" /\ offset < size
    BY DEF NextRecord
  <2>2. /\ size \in Nat /\ offset \in Nat /\ offset <= size /\ status \in Statuses
        /\ interfaces \in Seq(InterfaceRecords)
        /\ status = "pcap" => offset >= 2 * Word
    BY DEF FileInv, FileOK, ReaderOK
  <2> QED BY <2>1, <2>2 DEF Word
<1>2. size' = size
  BY <1>1 DEF fileVars
<1>3. CASE \E why \in Topics : Stop(why)
  <2>1. PICK why \in Topics : Stop(why)
    BY <1>3
  <2>2. ReaderOK'
    <3>1. status' = "parsed" /\ offset' = offset /\ interfaces' = interfaces
      BY <2>1 DEF Stop
    <3> QED BY <1>1, <1>2, <3>1 DEF ReaderOK, Statuses
  <2>3. FileOK' /\ CountersOK' /\ DevicesOK'
    BY <1>1, <2>1, OnlyWarned DEF Stop
  <2> QED BY <2>2, <2>3 DEF FileInv
<1>4. CASE ~\E why \in Topics : Stop(why)
  <2> DEFINE included == Value(WordAt(offset))
  <2>1. HasStruct(offset, 1, size) /\ ~(included > size - offset - Word)
    BY <1>4 DEF NextRecord, Topics
  <2>2. /\ ProcessPacket(LinkType, offset + Word, included)
        /\ offset' = offset + Word + included /\ UNCHANGED <<status, interfaces>>
    BY <2>1 DEF NextRecord
  <2>3. included \in Nat
    BY <1>1, WordsAreNumbers, OrderTyped DEF FileInv
  <2>4. LinkType \in Nat
    <3>1. Word \in Nat /\ Word < size
      BY <1>1 DEF Word
    <3>2. WordAt(Word) \in Nat
      BY <3>1, WordsAreNumbers DEF FileInv
    <3>3. Value(WordAt(Word)) \in Nat
      BY <3>2, OrderTyped
    <3> QED BY <3>3, OrderTyped DEF LinkType
  <2> HIDE DEF included
  <2>5. offset + Word \in Nat /\ (offset + Word) + included <= size
    BY <1>1, <2>1, <2>3 DEF HasStruct, Word
  <2>6. FileOK' /\ CountersOK' /\ DevicesOK'
    BY <1>1, <2>2, <2>3, <2>4, <2>5, PacketHanded
  <2>7. ReaderOK'
    BY <1>1, <1>2, <2>2, <2>3, <2>5 DEF ReaderOK, Word
  <2> QED BY <2>6, <2>7 DEF FileInv
<1> QED BY <1>3, <1>4

LEMMA FileStep == FileInv /\ [FileNext]_readerVars => FileInv'
<1> SUFFICES ASSUME FileInv, [FileNext]_readerVars PROVE FileInv'
  OBVIOUS
<1>1. ReaderOK /\ size \in Nat
  BY DEF FileInv, FileOK
<1>2. CASE Open \/ EndOfFile \/ Report \/ PcapHeader \/ UNCHANGED readerVars
  <2>1. UNCHANGED <<fileVars, counters>>
    BY <1>2 DEF Open, EndOfFile, Report, PcapHeader, Throw, readerVars
  <2>2. size' = size
    BY <2>1 DEF fileVars
  <2>3. interfaces' = interfaces
    BY <1>2 DEF Open, EndOfFile, Report, PcapHeader, Throw, readerVars
  <2>4. status' \in Statuses
    BY <1>1, <1>2 DEF Open, EndOfFile, Report, PcapHeader, Throw, readerVars, ReaderOK, Statuses
  <2>5. /\ offset' \in Nat /\ offset' <= size
        /\ status' = "pcap" => offset' >= 2 * Word
    <3>1. CASE PcapHeader
      <4>1. \/ status' = "error" /\ offset' = offset
            \/ HasStruct(0, 2, size) /\ status' = "pcap" /\ offset' = 2 * Word
        BY <3>1 DEF PcapHeader, Throw
      <4> QED BY <1>1, <4>1 DEF HasStruct, Word, ReaderOK
    <3>2. CASE ~PcapHeader
      <4>1. offset' = offset
        BY <1>2, <3>2 DEF Open, EndOfFile, Report, readerVars
      <4>2. status' = status \/ status' # "pcap"
        BY <1>2, <3>2 DEF Open, EndOfFile, Report, readerVars
      <4> QED BY <1>1, <4>1, <4>2 DEF ReaderOK
    <3> QED BY <3>1, <3>2
  <2>6. ReaderOK'
    BY <1>1, <2>2, <2>3, <2>4, <2>5 DEF ReaderOK
  <2> QED BY <2>1, <2>6, NothingHanded DEF FileInv
<1>3. CASE NextBlock
  BY <1>3, BlockKept
<1>4. CASE NextRecord
  BY <1>4, RecordKept
<1> QED BY <1>2, <1>3, <1>4 DEF FileNext

\* Whatever is in a file, also a damaged one, the readers stay inside it, count
\* what they hand on, keep the first warnings and count all, and take no link
\* type they can decode for one they cannot (PcapNGInputFile::parse,
\* PcapInputFile::parse, InputFile::warn and processPacket).
THEOREM FileTypes == FileSpec => []FileTypeOK
<1>1. FileInv => FileTypeOK
  <2> SUFFICES ASSUME FileInv PROVE FileTypeOK
    OBVIOUS
  <2>1. size \in Nat /\ offset \in 0..size /\ status \in Statuses
    BY DEF FileInv, FileOK, ReaderOK
  <2>2. \A i \in DOMAIN interfaces : interfaces[i] \in [link : Nat, snaplen : Nat]
    <3>1. interfaces \in Seq(InterfaceRecords)
      BY DEF FileInv, ReaderOK
    <3>2. \A i \in DOMAIN interfaces : interfaces[i] \in InterfaceRecords
      BY <3>1
    <3> QED BY <3>2 DEF InterfaceRecords
  <2>3. \A p \in ToSet(packets) : p \in [link : Nat, at : Nat, length : Nat]
    <3>1. packets \in Seq(PacketRecords)
      BY DEF FileInv, CountersOK
    <3>2. \A p \in ToSet(packets) : p \in PacketRecords
      BY <3>1 DEF ToSet
    <3> QED BY <3>2 DEF PacketRecords
  <2> QED BY <2>1, <2>2, <2>3 DEF FileTypeOK, FileInv, CountersOK
<1> QED BY <1>1, FileStarts, FileStep, PTL DEF FileSpec

\* The devices reported are those of the packets that can be decoded, each once
\* and in the order of their first packets, and no packet reaches beyond the end
\* of the file: for every file, every damage to it and any number of packets
\* (InputFile::handleFor, and the bounds in both loops).
THEOREM DevicesAreInOrder == FileSpec => []DevicesInOrder
<1>1. FileInv => DevicesInOrder
  BY DevicesListed DEF FileInv
<1> QED BY <1>1, FileStarts, FileStep, PTL DEF FileSpec

-----------------------------------------------------------------------------
(* Where the blocks of a layout are in the file.                            *)

Encodings == [i \in DOMAIN layout |-> Encoded(layout[i])]
FirstWord(i) == Len(Written(SubSeq(layout, 1, i - 1)))

LEMMA EncodingsTyped ==
    ASSUME layout \in Seq(Blocks)
    PROVE  /\ Encodings \in Seq(Seq(Nat)) /\ Len(Encodings) = Len(layout)
           /\ \A i \in 1..Len(layout) : Encodings[i] = Encoded(layout[i])
<1>1. DOMAIN layout = 1..Len(layout) /\ Len(layout) \in Nat /\ \A i \in 1..Len(layout) : layout[i] \in Blocks
  OBVIOUS
<1>2. \A i \in 1..Len(layout) : Encoded(layout[i]) \in Seq(Nat)
  BY <1>1, EncodedTyped
<1> QED BY <1>1, <1>2 DEF Encodings

LEMMA WrittenIsJoined ==
    ASSUME layout \in Seq(Blocks), NEW n \in 0..Len(layout)
    PROVE  Written(SubSeq(layout, 1, n)) = JoinedTo(Encodings, n)
<1> DEFINE b == SubSeq(layout, 1, n)
           s == [i \in DOMAIN b |-> Encoded(b[i])]
           t == SubSeq(Encodings, 1, n)
<1>1. /\ n \in Nat /\ n <= Len(layout) /\ 1 <= n + 1 /\ n - 1 + 1 = n
      /\ Len(layout) \in Nat
  OBVIOUS
<1>2. /\ Encodings \in Seq(Seq(Nat)) /\ Len(Encodings) = Len(layout)
      /\ \A i \in 1..Len(layout) : Encodings[i] = Encoded(layout[i])
  BY EncodingsTyped
<1>3. /\ b \in Seq(Blocks) /\ Len(b) = n - 1 + 1 /\ \A i \in 1..(n - 1 + 1) : b[i] = layout[1 + i - 1]
  BY <1>1, PartTyped
<1>4. DOMAIN b = 1..n /\ \A i \in 1..n : b[i] = layout[i]
  BY <1>1, <1>3
<1>5. /\ t \in Seq(Seq(Nat)) /\ Len(t) = n - 1 + 1 /\ \A i \in 1..(n - 1 + 1) : t[i] = Encodings[1 + i - 1]
  <2> DEFINE B == Seq(Nat)
  <2>1. Encodings \in Seq(B) /\ n <= Len(Encodings)
    BY <1>1, <1>2
  <2> HIDE DEF B
  <2>2. /\ t \in Seq(B) /\ Len(t) = n - 1 + 1 /\ \A i \in 1..(n - 1 + 1) : t[i] = Encodings[1 + i - 1]
    BY <1>1, <2>1, PartTyped
  <2> QED BY <2>2 DEF B
<1>6. DOMAIN t = 1..n /\ \A i \in 1..n : t[i] = Encoded(layout[i])
  BY <1>1, <1>2, <1>5
<1> HIDE DEF b, t
<1>7. DOMAIN s = 1..n /\ \A i \in 1..n : s[i] = Encoded(layout[i])
  BY <1>4
<1>8. t = [i \in 1..n |-> t[i]] /\ s = [i \in 1..n |-> s[i]]
  BY <1>4, <1>5, <1>6
<1> HIDE DEF s
<1>9. s = t
  BY <1>6, <1>7, <1>8
<1> QED BY <1>9 DEF Written, JoinedTo, s, b, t

LEMMA WrittenIsAll ==
    ASSUME layout \in Seq(Blocks)
    PROVE  Written(layout) = JoinedTo(Encodings, Len(layout))
<1>1. Written(layout) = FlattenSeq(Encodings)
  BY DEF Written, Encodings
<1> QED BY <1>1, EncodingsTyped, JoinedAll

\* Each block follows the one before it.
BlockIsAt(i) ==
    LET e == Encoded(layout[i]) IN
    /\ FirstWord(i) \in Nat /\ FirstWord(i + 1) \in Nat
    /\ FirstWord(i + 1) = FirstWord(i) + Len(e) /\ FirstWord(i + 1) <= Len(Written(layout))
    /\ \A k \in 1..Len(e) : Written(layout)[FirstWord(i) + k] = e[k]

LEMMA BlocksInOrder ==
    ASSUME layout \in Seq(Blocks), NEW i \in 1..Len(layout)
    PROVE  BlockIsAt(i)
<1> DEFINE e == Encoded(layout[i])
           s == Encodings
           n == i - 1
           l == Len(layout)
<1>1. i \in Nat /\ l \in Nat /\ n \in Nat /\ n + 1 = i /\ i <= l /\ n \in 0..l /\ i \in 0..l
  OBVIOUS
<1>2. s \in Seq(Seq(Nat)) /\ Len(s) = l /\ s[i] = e
  BY EncodingsTyped
<1>3. e \in Seq(Nat) /\ Len(e) \in Nat
  BY EncodedTyped
<1>4. FirstWord(i) = Len(JoinedTo(s, n)) /\ FirstWord(i + 1) = Len(JoinedTo(s, i))
  <2>1. (i + 1) - 1 = i
    BY <1>1
  <2>2. Written(SubSeq(layout, 1, n)) = JoinedTo(s, n) /\ Written(SubSeq(layout, 1, i)) = JoinedTo(s, i)
    BY <1>1, WrittenIsJoined
  <2>3. FirstWord(i + 1) = Len(Written(SubSeq(layout, 1, i)))
    BY <2>1 DEF FirstWord
  <2> QED BY <2>2, <2>3 DEF FirstWord
<1> HIDE DEF s, n, l
<1>5. Len(JoinedTo(s, n)) \in Nat /\ Len(JoinedTo(s, i)) \in Nat
  BY <1>1, <1>2, JoinedTyped
<1>6. IsJoinedNext(s, n)
  BY <1>1, <1>2, JoinedNext
<1>7. IsJoinedFirst(s, i, l)
  <2>1. i \in 0..Len(s) /\ l \in i..Len(s)
    BY <1>1, <1>2
  <2> QED BY <1>2, <2>1, JoinedStays
<1>8. Written(layout) = JoinedTo(s, l)
  BY WrittenIsAll DEF s, l
<1> HIDE DEF e
<1>9. Len(JoinedTo(s, i)) = Len(JoinedTo(s, n)) + Len(e) /\ Len(JoinedTo(s, i)) <= Len(JoinedTo(s, l))
  BY <1>1, <1>2, <1>6, <1>7 DEF IsJoinedNext, IsJoinedFirst
<1>10. ASSUME NEW k \in 1..Len(e)
       PROVE  JoinedTo(s, l)[Len(JoinedTo(s, n)) + k] = e[k]
  <2>1. JoinedTo(s, i)[Len(JoinedTo(s, n)) + k] = e[k]
    BY <1>1, <1>2, <1>6 DEF IsJoinedNext
  <2>2. Len(JoinedTo(s, n)) + k \in 1..Len(JoinedTo(s, i))
    BY <1>3, <1>5, <1>9
  <2> QED BY <1>7, <2>1, <2>2 DEF IsJoinedFirst
<1> QED BY <1>4, <1>5, <1>8, <1>9, <1>10 DEF BlockIsAt, e

LEMMA LaterIsFurther ==
    ASSUME layout \in Seq(Blocks), NEW i \in 1..Len(layout) + 1, NEW j \in i..Len(layout) + 1
    PROVE  FirstWord(i) \in Nat /\ FirstWord(j) \in Nat /\ FirstWord(i) <= FirstWord(j)
<1> DEFINE s == Encodings
           m == i - 1
           n == j - 1
           l == Len(layout)
<1>1. m \in 0..l /\ n \in m..l /\ n \in 0..l
  OBVIOUS
<1>2. s \in Seq(Seq(Nat)) /\ Len(s) = l
  BY EncodingsTyped
<1>3. FirstWord(i) = Len(JoinedTo(s, m)) /\ FirstWord(j) = Len(JoinedTo(s, n))
  BY <1>1, WrittenIsJoined DEF FirstWord
<1> HIDE DEF s, m, n, l
<1>4. IsJoinedFirst(s, m, n)
  BY <1>1, <1>2, JoinedStays
<1>5. Len(JoinedTo(s, m)) \in Nat /\ Len(JoinedTo(s, n)) \in Nat
  BY <1>1, <1>2, JoinedTyped
<1> QED BY <1>3, <1>4, <1>5 DEF IsJoinedFirst

LEMMA FirstAndEnd ==
    ASSUME layout \in Seq(Blocks)
    PROVE  FirstWord(1) = 0 /\ FirstWord(Len(layout) + 1) = Len(Written(layout))
<1> DEFINE l == Len(layout)
<1>1. l \in Nat /\ 0 \in 0..l /\ l \in 0..l /\ (l + 1) - 1 = l /\ 1 - 1 = 0
  OBVIOUS
<1>2. Encodings \in Seq(Seq(Nat)) /\ Len(Encodings) = l
  BY EncodingsTyped
<1>3. FirstWord(1) = Len(Written(SubSeq(layout, 1, 0))) /\ FirstWord(l + 1) = Len(Written(SubSeq(layout, 1, l)))
  BY <1>1 DEF FirstWord
<1> HIDE DEF l
<1>4. Written(SubSeq(layout, 1, 0)) = JoinedTo(Encodings, 0) /\ Written(SubSeq(layout, 1, l)) = JoinedTo(Encodings, l)
  BY <1>1, WrittenIsJoined DEF l
<1>5. JoinedTo(Encodings, 0) = <<>>
  BY <1>2, JoinedNone
<1> QED BY <1>3, <1>4, <1>5, WrittenIsAll DEF l

-----------------------------------------------------------------------------
(* What of a file is as it was written.                                     *)

LEMMA StartTyped ==
    ASSUME FileWritten, NEW i \in 1..Len(layout) + 1
    PROVE  StartOf(i) = 4 * FirstWord(i) /\ FirstWord(i) \in Nat /\ StartOf(i) \in Nat
<1>1. FirstWord(i) \in Nat
  BY LayoutTyped, LaterIsFurther
<1>2. StartOf(i) = 4 * FirstWord(i)
  BY DEF StartOf, FirstWord, Word
<1> QED BY <1>1, <1>2

\* Where the damage is.
DamageIsAt ==
    /\ damage.kind \in {"none", "cut", "word"}
    /\ DamagedByte \in Nat
    /\ damage.kind = "none" => DamagedBlock = Len(layout) + 1
    /\ damage.kind # "none" => /\ DamagedBlock \in 1..Len(layout)
                               /\ DamagedByte < StartOf(DamagedBlock + 1)
    /\ \A i \in 1..Len(layout) : i < DamagedBlock /\ damage.kind # "none" => DamagedByte >= StartOf(i + 1)

LEMMA DamageFound ==
    ASSUME FileWritten
    PROVE  DamageIsAt
<1> DEFINE words == Written(layout)
<1>1. words \in Seq(Nat) /\ Len(words) \in Nat /\ DOMAIN words = 1..Len(words)
  <2>1. words \in Seq(Nat)
    BY LayoutTyped, WrittenTyped
  <2> HIDE DEF words
  <2> QED BY <2>1
<1>2. damage \in Damages(words)
  BY DEF FileWritten
<1>3. StartOf(Len(layout) + 1) = 4 * Len(words)
  BY LayoutTyped, StartTyped, FirstAndEnd
<1> HIDE DEF words
<1>4. /\ damage.kind \in {"none", "cut", "word"}
      /\ damage.kind = "cut" => damage.at \in 0..(4 * Len(words) - 1)
      /\ damage.kind = "word" => damage.at \in 1..Len(words)
      /\ damage.kind = "none" => damage.at = 0
  BY <1>1, <1>2 DEF Damages, Word
<1>5. DamagedByte \in Nat
  BY <1>1, <1>4 DEF DamagedByte, Word
<1>6. CASE damage.kind = "none"
  BY <1>4, <1>5, <1>6 DEF DamageIsAt, DamagedBlock, All
<1>7. CASE damage.kind # "none"
  <2> DEFINE l == Len(layout)
             S == {i \in 1..l : DamagedByte < StartOf(i + 1)}
  <2>1. l \in Nat /\ l >= 1
    BY LayoutTyped
  <2>2. DamagedByte < StartOf(l + 1)
    BY <1>1, <1>3, <1>4, <1>5, <1>7 DEF DamagedByte, Word
  <2>3. DamagedBlock = Min(S)
    BY <1>7 DEF DamagedBlock, All
  <2>3a. \A i \in 1..l : StartOf(i + 1) \in Nat
    BY StartTyped, <2>1
  <2> HIDE DEF l
  <2>4. S \in SUBSET Nat /\ S # {} /\ S \subseteq 1..l
    <3>1. l \in S /\ S \subseteq 1..l
      BY <2>1, <2>2
    <3> HIDE DEF S
    <3> QED BY <2>1, <3>1
  <2>5. Min(S) \in S /\ \A n \in S : Min(S) <= n
    BY <2>4, LeastIsMember
  <2>6. DamagedBlock \in 1..l /\ DamagedByte < StartOf(DamagedBlock + 1)
    BY <2>3, <2>5
  <2>7. ASSUME NEW i \in 1..l, i < DamagedBlock
        PROVE  DamagedByte >= StartOf(i + 1)
    <3>1. i \notin S
      BY <2>1, <2>3, <2>5, <2>6, <2>7
    <3> QED BY <1>5, <2>3a, <3>1
  <2> QED BY <1>4, <1>5, <1>7, <2>6, <2>7 DEF DamageIsAt, l
<1> QED BY <1>6, <1>7

\* A block whose words are in the file where it was written.
HasWords(i) ==
    LET e == Encoded(layout[i]) IN
    /\ StartOf(i) \in Nat /\ StartOf(i + 1) = StartOf(i) + 4 * Len(e) /\ StartOf(i + 1) <= size
    /\ \A k \in 1..Len(e) : WordAt(StartOf(i) + 4 * (k - 1)) = e[k]

\* The block is not touched by the damage, but may be cut off.
Untouched(i) == i < DamagedBlock \/ (damage.kind = "word" /\ i # DamagedBlock)

LEMMA WordIsThere ==
    ASSUME FileWritten, NEW i \in 1..Len(layout), NEW k \in 1..Len(Encoded(layout[i])),
           damage.kind = "word" => DamagedByte # StartOf(i) + 4 * (k - 1)
    PROVE  WordAt(StartOf(i) + 4 * (k - 1)) = Encoded(layout[i])[k]
<1> DEFINE words == Written(layout)
           e == Encoded(layout[i])
           n == FirstWord(i)
           m == FirstWord(i + 1)
<1>1. words \in Seq(Nat) /\ Len(words) \in Nat /\ DOMAIN words = 1..Len(words)
  <2>1. words \in Seq(Nat)
    BY LayoutTyped, WrittenTyped
  <2> HIDE DEF words
  <2> QED BY <2>1
<1>2. Len(e) \in Nat
  <2>1. e \in Seq(Nat)
    BY LayoutTyped, EncodedTyped
  <2> HIDE DEF e
  <2> QED BY <2>1
<1>3. /\ n \in Nat /\ m \in Nat /\ m = n + Len(e) /\ m <= Len(words)
      /\ words[n + k] = e[k]
  BY LayoutTyped, BlocksInOrder DEF BlockIsAt
<1>4. StartOf(i) = 4 * n
  BY LayoutTyped, StartTyped
<1>5. file = (IF damage.kind = "word" THEN [words EXCEPT ![damage.at] = damage.value] ELSE words)
  BY DEF FileWritten
<1>6. damage.kind = "word" => damage.at \in Nat
  <2>1. damage \in Damages(words)
    BY DEF FileWritten
  <2> QED BY <1>1, <2>1 DEF Damages
<1>7. damage.kind = "word" => damage.at # n + k
  <2> SUFFICES ASSUME damage.kind = "word" PROVE damage.at # n + k
    OBVIOUS
  <2>1. DamagedByte = 4 * (damage.at - 1) /\ damage.at \in Nat
    BY <1>6 DEF DamagedByte, Word
  <2>2. 4 * (damage.at - 1) # 4 * n + 4 * (k - 1) /\ n \in Nat /\ k \in Nat
    BY <1>2, <1>3, <1>4, <2>1
  <2> HIDE DEF n
  <2> QED BY <2>1, <2>2
<1> HIDE DEF words, e, n, m
<1>8. k \in Nat /\ n + k \in 1..Len(words) /\ (StartOf(i) + 4 * (k - 1)) \div Word + 1 = n + k
  <2> DEFINE l == Len(e)
             w == Len(words)
             s == StartOf(i)
  <2>1. k \in 1..l /\ l \in Nat /\ w \in Nat /\ s = 4 * n /\ n \in Nat /\ n + l <= w
    BY <1>1, <1>2, <1>3, <1>4 DEF e
  <2> HIDE DEF l, w, s
  <2>2. k \in Nat /\ n + k \in 1..w
    BY <2>1
  <2>3. s + 4 * (k - 1) = 4 * (n + k - 1) /\ n + k - 1 \in Nat
    BY <2>1
  <2>4. (4 * (n + k - 1)) \div 4 = n + k - 1
    BY <2>3
  <2>5. (s + 4 * (k - 1)) \div 4 + 1 = n + k
    BY <2>1, <2>2, <2>3, <2>4
  <2> QED BY <2>2, <2>5 DEF w, s, Word
<1>9. file[n + k] = words[n + k]
  BY <1>1, <1>5, <1>7, <1>8
<1> QED BY <1>3, <1>8, <1>9 DEF WordAt, e

LEMMA UntouchedHasWords ==
    ASSUME FileWritten, NEW i \in 1..Len(layout), Untouched(i)
    PROVE  HasWords(i)
<1> DEFINE words == Written(layout)
           e == Encoded(layout[i])
           n == FirstWord(i)
           m == FirstWord(i + 1)
<1>1. Len(words) \in Nat
  <2>1. words \in Seq(Nat)
    BY LayoutTyped, WrittenTyped
  <2> HIDE DEF words
  <2> QED BY <2>1
<1>2. Len(e) \in Nat
  <2>1. e \in Seq(Nat)
    BY LayoutTyped, EncodedTyped
  <2> HIDE DEF e
  <2> QED BY <2>1
<1>3. n \in Nat /\ m \in Nat /\ m = n + Len(e) /\ m <= Len(words)
  BY LayoutTyped, BlocksInOrder DEF BlockIsAt
<1>4. StartOf(i) = 4 * n /\ StartOf(i + 1) = 4 * m
  BY LayoutTyped, StartTyped
<1>5. DamageIsAt /\ Len(layout) \in Nat
  BY DamageFound, LayoutTyped
\* A word that is overwritten is one of another block.
<1>6. damage.kind = "word" => DamagedByte < 4 * n \/ DamagedByte >= 4 * m
  <2> SUFFICES ASSUME damage.kind = "word" PROVE DamagedByte < 4 * n \/ DamagedByte >= 4 * m
    OBVIOUS
  <2>1. CASE i < DamagedBlock
    <3>1. DamagedByte >= StartOf(i + 1)
      BY <1>5, <2>1 DEF DamageIsAt
    <3> QED BY <1>4, <3>1
  <2>2. CASE ~(i < DamagedBlock)
    <3> DEFINE d == DamagedBlock
    <3>1. d \in 1..Len(layout) /\ d < i /\ DamagedByte < StartOf(d + 1)
      BY <1>5, <2>2 DEF DamageIsAt, Untouched
    <3>2. StartOf(d + 1) = 4 * FirstWord(d + 1) /\ FirstWord(d + 1) \in Nat
      BY <1>5, <3>1, StartTyped
    <3>3. FirstWord(d + 1) <= n
      <4>1. d + 1 \in 1..Len(layout) + 1 /\ i \in (d + 1)..Len(layout) + 1
        BY <1>5, <3>1
      <4> QED BY <4>1, LayoutTyped, LaterIsFurther
    <3> DEFINE f == FirstWord(d + 1)
               x == DamagedByte
    <3>4. n \in Nat /\ f \in Nat /\ f <= n /\ x < 4 * f /\ x \in Nat
      BY <1>3, <1>5, <3>1, <3>2, <3>3 DEF DamageIsAt
    <3> HIDE DEF f, n, x
    <3>5. x < 4 * n
      BY <3>4
    <3> QED BY <3>5 DEF x
  <2> QED BY <2>1, <2>2
<1>7. 4 * m <= size
  <2>1. CASE damage.kind = "cut"
    <3>1. i < DamagedBlock /\ size = DamagedByte
      BY <2>1 DEF Untouched, DamagedByte, FileWritten
    <3> QED BY <1>4, <1>5, <2>1, <3>1 DEF DamageIsAt
  <2>2. CASE damage.kind # "cut"
    <3>1. size = 4 * Len(words)
      BY <2>2 DEF FileWritten, Word
    <3> QED BY <1>1, <1>3, <3>1
  <2> QED BY <2>1, <2>2
<1>8. ASSUME NEW k \in 1..Len(e)
      PROVE  WordAt(StartOf(i) + 4 * (k - 1)) = e[k]
  <2>1. damage.kind = "word" => DamagedByte # StartOf(i) + 4 * (k - 1)
    <3> DEFINE x == DamagedByte
               l == Len(e)
    <3>1. x \in Nat /\ l \in Nat /\ k \in 1..l /\ n \in Nat /\ m = n + l
      BY <1>2, <1>3, <1>5 DEF DamageIsAt
    <3>2. damage.kind = "word" => x < 4 * n \/ x >= 4 * m
      BY <1>6
    <3> HIDE DEF x, l, n, m
    <3>3. damage.kind = "word" => x # 4 * n + 4 * (k - 1)
      BY <3>1, <3>2
    <3> QED BY <1>4, <3>3 DEF x, n
  <2> QED BY <2>1, WordIsThere
<1>9. StartOf(i) \in Nat /\ StartOf(i + 1) = StartOf(i) + 4 * Len(e) /\ StartOf(i + 1) <= size
  <2> HIDE DEF e, n, m
  <2> QED BY <1>2, <1>3, <1>4, <1>7
<1> QED BY <1>8, <1>9 DEF HasWords, e

\* Nothing of this changes while the file is read.
LEMMA FileStaysWritten ==
    ASSUME UNCHANGED fileVars
    PROVE  /\ layout' = layout /\ damage' = damage /\ size' = size /\ file' = file
           /\ FileWritten' = FileWritten /\ DamagedBlock' = DamagedBlock /\ DamagedByte' = DamagedByte
           /\ \A i : StartOf(i)' = StartOf(i)
<1>1. layout' = layout /\ damage' = damage /\ size' = size /\ file' = file
  BY DEF fileVars
<1>2. \A b : Encoded(b)' = Encoded(b)
  BY <1>1 DEF Encoded, Order
<1>3. Written(layout)' = Written(layout)
  BY <1>1, <1>2 DEF Written
<1>4. \A i : StartOf(i)' = StartOf(i)
  BY <1>1, <1>2 DEF StartOf, Written
<1>5. DamagedByte' = DamagedByte
  BY <1>1 DEF DamagedByte
<1>6. DamagedBlock' = DamagedBlock
  BY <1>1, <1>4, <1>5 DEF DamagedBlock, All
<1>7. FileWritten' = FileWritten
  BY <1>1, <1>3 DEF FileWritten, Damages
<1> QED BY <1>1, <1>4, <1>5, <1>6, <1>7

LEMMA PacketsStayWritten ==
    ASSUME UNCHANGED fileVars
    PROVE  /\ \A i : PacketsIn(i)' = PacketsIn(i)
           /\ \A i, j : PacketsOf(i, j)' = PacketsOf(i, j)
<1>1. layout' = layout /\ \A i : StartOf(i)' = StartOf(i)
  BY FileStaysWritten
<1>2. \A i : InterfacesOf(layout, i)' = InterfacesOf(layout, i) /\ SimpleLength(layout, i)' = SimpleLength(layout, i)
  BY <1>1
<1>3. \A i : PacketOf(i)' = PacketOf(i)
  BY <1>1, <1>2 DEF PacketOf
<1>4. \A i : PacketsIn(i)' = PacketsIn(i)
  BY <1>1, <1>3 DEF PacketsIn, IsPacket
<1>5. \A i, j : PacketsOf(i, j)' = PacketsOf(i, j)
  BY <1>4 DEF PacketsOf
<1> QED BY <1>4, <1>5

-----------------------------------------------------------------------------
(* The interfaces and the packets of a layout, block by block.              *)

Declared(i) ==
    [j \in 1..i |->
        IF j > SectionOf(layout, i) /\ layout[j].kind = "interface"
        THEN <<[link |-> layout[j].link, snaplen |-> layout[j].snaplen]>> ELSE <<>>]

LEMMA DeclaredTyped ==
    ASSUME layout \in Seq(Blocks), NEW i \in 0..Len(layout)
    PROVE  /\ Declared(i) \in Seq(Seq(InterfaceRecords)) /\ Len(Declared(i)) = i
           /\ InterfacesOf(layout, i) = FlattenSeq(Declared(i))
           /\ InterfacesOf(layout, i) \in Seq(InterfaceRecords)
<1> DEFINE B == Seq(InterfaceRecords)
           d == Declared(i)
<1>1. i \in Nat /\ \A j \in 1..i : layout[j].link \in Nat /\ layout[j].snaplen \in Nat
  <2>1. i \in Nat /\ \A j \in 1..i : layout[j] \in Blocks
    OBVIOUS
  <2> QED BY <2>1 DEF Blocks
<1>2. ASSUME NEW j \in 1..i PROVE d[j] \in B
  <2> DEFINE r == [link |-> layout[j].link, snaplen |-> layout[j].snaplen]
  <2>1. r \in InterfaceRecords
    BY <1>1 DEF InterfaceRecords
  <2>2. d[j] = <<r>> \/ d[j] = <<>>
    BY DEF Declared
  <2> HIDE DEF r, d
  <2>3. <<r>> \in B /\ <<>> \in B
    BY <2>1
  <2> QED BY <2>2, <2>3
<1>3. d = [j \in 1..i |-> d[j]]
  BY DEF Declared
<1> HIDE DEF B, d
<1>4. d \in Seq(B) /\ Len(d) = i
  BY <1>1, <1>2, <1>3
<1>5. InterfacesOf(layout, i) = FlattenSeq(d)
  BY DEF InterfacesOf, Declared, d
<1>6. FlattenSeq(d) \in Seq(InterfaceRecords)
  <2>1. d \in Seq(Seq(InterfaceRecords))
    BY <1>4 DEF B
  <2> QED BY <2>1, FlattenTyped
<1> QED BY <1>4, <1>5, <1>6 DEF B, d

\* What a block makes of the interfaces of its section.
InterfacesAfter(i) ==
    CASE layout[i].kind = "section" -> <<>>
      [] layout[i].kind = "interface" ->
             Append(InterfacesOf(layout, i - 1), [link |-> layout[i].link, snaplen |-> layout[i].snaplen])
      [] OTHER -> InterfacesOf(layout, i - 1)

LEMMA InterfacesNext ==
    ASSUME layout \in Seq(Blocks), NEW i \in 1..Len(layout)
    PROVE  InterfacesOf(layout, i) = InterfacesAfter(i)
<1> DEFINE s == Declared(i - 1)
           t == Declared(i)
<1>1. i \in Nat /\ i - 1 \in 0..Len(layout) /\ i \in 0..Len(layout) /\ i - 1 \in Nat /\ (i - 1) + 1 = i
  OBVIOUS
<1>2. /\ s \in Seq(Seq(InterfaceRecords)) /\ t \in Seq(Seq(InterfaceRecords)) /\ Len(s) = i - 1 /\ Len(t) = i
      /\ InterfacesOf(layout, i - 1) = FlattenSeq(s) /\ InterfacesOf(layout, i) = FlattenSeq(t)
      /\ InterfacesOf(layout, i - 1) \in Seq(InterfaceRecords)
  BY <1>1, DeclaredTyped
<1>3. CASE layout[i].kind = "section"
  <2> DEFINE S == {0} \cup {j \in 1..i : layout[j].kind = "section"}
  <2>1. i \in S /\ \A j \in S : i >= j
    BY <1>1, <1>3
  <2>2. S \subseteq 0..i
    BY <1>1
  <2>3. SectionOf(layout, i) = Max(S)
    BY DEF SectionOf
  <2> HIDE DEF S
  <2>4. SectionOf(layout, i) = i
    <3>1. Max(S) \in S /\ \A y \in S : Max(S) >= y
      BY <1>1, <2>1, <2>2, LargestOf
    <3>2. Max(S) \in 0..i /\ i >= Max(S) /\ Max(S) >= i
      BY <2>1, <2>2, <3>1
    <3> QED BY <1>1, <2>3, <3>2
  <2>5. \A j \in 1..Len(t) : t[j] = <<>>
    BY <1>1, <1>2, <2>4 DEF Declared
  <2> HIDE DEF t
  <2>6. FlattenSeq(t) = <<>>
    BY <1>2, <2>5, FlattenNothing
  <2> QED BY <1>2, <1>3, <2>6 DEF InterfacesAfter
<1>4. CASE layout[i].kind # "section"
  <2>1. {j \in 1..i : layout[j].kind = "section"} = {j \in 1..(i - 1) : layout[j].kind = "section"}
    BY <1>1, <1>4
  <2>2. SectionOf(layout, i) = SectionOf(layout, i - 1)
    BY <2>1 DEF SectionOf
  <2>3. SectionOf(layout, i) < i
    <3> DEFINE S == {0} \cup {j \in 1..(i - 1) : layout[j].kind = "section"}
    <3>1. S \subseteq 0..(i - 1) /\ 0 \in S
      BY <1>1
    <3>2. SectionOf(layout, i - 1) = Max(S)
      BY DEF SectionOf
    <3> HIDE DEF S
    <3>3. Max(S) \in S
      BY <1>1, <3>1, LargestOf
    <3>4. Max(S) \in 0..(i - 1)
      BY <3>1, <3>3
    <3> QED BY <1>1, <2>2, <3>2, <3>4
  <2>4. \A j \in 1..Len(s) : t[j] = s[j]
    BY <1>1, <1>2, <2>2 DEF Declared
  <2> DEFINE r == [link |-> layout[i].link, snaplen |-> layout[i].snaplen]
             x == IF layout[i].kind = "interface" THEN <<r>> ELSE <<>>
  <2>5. t[Len(s) + 1] = x
    BY <1>1, <1>2, <2>3 DEF Declared
  <2>6. r \in InterfaceRecords
    <3>1. layout[i] \in Blocks
      OBVIOUS
    <3> QED BY <3>1 DEF InterfaceRecords, Blocks
  <2> HIDE DEF r, s, t
  <2>7. x \in Seq(InterfaceRecords)
    BY <2>6
  <2> DEFINE f == InterfacesOf(layout, i - 1)
  <2>8. InterfacesOf(layout, i) = f \o x
    <3> HIDE DEF x
    <3>1. Len(t) = Len(s) + 1
      BY <1>1, <1>2
    <3>2. IsFlattenedMore(s, t, x)
      BY <1>2, <2>4, <2>5, <2>7, <3>1, FlattenMore
    <3> QED BY <1>2, <3>2 DEF IsFlattenedMore
  <2>9. f \in Seq(InterfaceRecords)
    BY <1>2
  <2>10. f \o x = IF layout[i].kind = "interface" THEN Append(f, r) ELSE f
    <3> HIDE DEF f
    <3> QED BY <2>6, <2>9
  <2> QED BY <1>4, <2>8, <2>10 DEF InterfacesAfter, r
<1> QED BY <1>3, <1>4

\* The lengths of a simple packet block.
LEMMA SimpleLengthTyped ==
    ASSUME FileWritten, NEW i \in 1..Len(layout), layout[i].kind = "simple"
    PROVE  /\ 1 \in 1..Len(InterfacesOf(layout, i)) /\ SimpleLength(layout, i) \in Nat
           /\ LET snaplen == InterfacesOf(layout, i)[1].snaplen
                  n == layout[i].length
              IN  /\ snaplen \in Nat /\ n \in Nat
                  /\ SimpleLength(layout, i) = IF snaplen # 0 /\ snaplen < n THEN snaplen ELSE n
<1> DEFINE s == InterfacesOf(layout, i)
           n == layout[i].length
           snaplen == s[1].snaplen
<1>1. layout[i] \in Blocks /\ layout \in Seq(Blocks) /\ i \in 0..Len(layout)
  BY LayoutTyped
<1>2. n \in Nat
  BY <1>1 DEF Blocks
<1>3. s \in Seq(InterfaceRecords)
  BY <1>1, DeclaredTyped
<1>4. s # <<>>
  BY LayoutTyped DEF PcapngFile, PcapFile
<1>5. SimpleLength(layout, i) = IF snaplen # 0 THEN Min({n, snaplen}) ELSE n
  BY DEF SimpleLength
<1> HIDE DEF s
<1>6. 1 \in 1..Len(s)
  BY <1>3, <1>4
<1>7. snaplen \in Nat
  BY <1>3, <1>6, InterfaceTyped
<1> HIDE DEF n, snaplen
<1>8. Min({n, snaplen}) = IF n <= snaplen THEN n ELSE snaplen
  BY <1>2, <1>7, LeastOfTwo
<1>9. /\ SimpleLength(layout, i) \in Nat
      /\ SimpleLength(layout, i) = IF snaplen # 0 /\ snaplen < n THEN snaplen ELSE n
  BY <1>2, <1>5, <1>7, <1>8
<1> QED BY <1>2, <1>6, <1>7, <1>9 DEF n, s, snaplen

\* The kinds of blocks in a file.
LEMMA KindsOfFile ==
    ASSUME FileWritten, NEW i \in 1..Len(layout)
    PROVE  /\ PcapngFile(layout) => layout[i].kind \in {"section", "interface", "enhanced", "simple", "other"}
           /\ PcapFile(layout) => layout[i].kind = IF i = 1 THEN "pcap" ELSE "record"
<1>1. layout[i] \in Blocks /\ DOMAIN layout = 1..Len(layout) /\ Len(layout) \in Nat
  BY LayoutTyped
<1>2. PcapngFile(layout) => layout[i].kind \notin {"pcap", "record"}
  BY <1>1 DEF PcapngFile
<1>3. PcapFile(layout) => layout[i].kind = IF i = 1 THEN "pcap" ELSE "record"
  BY <1>1 DEF PcapFile
<1> QED BY <1>1, <1>2, <1>3 DEF Blocks

LEMMA PacketTyped ==
    ASSUME FileWritten, NEW i \in 1..Len(layout)
    PROVE  /\ IsPacket(i) => PacketOf(i) \in PacketRecords
           /\ PacketsIn(i) \in Seq(PacketRecords)
<1> DEFINE s == InterfacesOf(layout, i)
<1>1. /\ layout[i] \in Blocks /\ layout[1] \in Blocks /\ layout \in Seq(Blocks) /\ i \in 0..Len(layout)
      /\ i \in 1..Len(layout) + 1
  BY LayoutTyped
<1>2. layout[i].length \in Nat /\ layout[1].link \in Nat /\ layout[i].interface \in Nat
  BY <1>1 DEF Blocks
<1>3. StartOf(i) \in Nat
  BY <1>1, StartTyped
<1>4. s \in Seq(InterfaceRecords)
  BY <1>1, DeclaredTyped
<1>5. ASSUME IsPacket(i) PROVE PacketOf(i) \in PacketRecords
  <2>1. CASE layout[i].kind = "enhanced"
    <3>1. PacketOf(i) = [link |-> s[layout[i].interface + 1].link, at |-> StartOf(i) + Word * 4,
                         length |-> layout[i].length]
      BY <2>1 DEF PacketOf
    <3>2. layout[i].interface < Len(s)
      BY <2>1, LayoutTyped DEF PcapngFile, PcapFile
    <3> HIDE DEF s
    <3>3. layout[i].interface + 1 \in 1..Len(s)
      BY <1>2, <1>4, <3>2
    <3>4. s[layout[i].interface + 1].link \in Nat
      BY <1>4, <3>3, InterfaceTyped
    <3> QED BY <1>2, <1>3, <3>1, <3>4 DEF PacketRecords, Word
  <2>2. CASE layout[i].kind = "simple"
    <3>1. PacketOf(i) = [link |-> s[1].link, at |-> StartOf(i) + Word * 3, length |-> SimpleLength(layout, i)]
      BY <2>2 DEF PacketOf
    <3>2. 1 \in 1..Len(s) /\ SimpleLength(layout, i) \in Nat
      BY <2>2, SimpleLengthTyped
    <3> HIDE DEF s
    <3>4. s[1].link \in Nat
      BY <1>4, <3>2, InterfaceTyped
    <3> QED BY <1>3, <3>1, <3>2, <3>4 DEF PacketRecords, Word
  <2>3. CASE layout[i].kind = "record"
    <3>1. PacketOf(i) = [link |-> LinkBits(layout[1].link), at |-> StartOf(i) + Word * 1, length |-> layout[i].length]
      BY <2>3 DEF PacketOf
    <3>2. LinkBits(layout[1].link) \in Nat
      BY <1>2, OrderTyped
    <3> QED BY <1>2, <1>3, <3>1, <3>2 DEF PacketRecords, Word
  <2> QED BY <1>5, <2>1, <2>2, <2>3 DEF IsPacket
<1>6. PacketsIn(i) \in Seq(PacketRecords)
  BY <1>5 DEF PacketsIn
<1> QED BY <1>5, <1>6

\* The packets of some blocks, and of one more.
EachOf(first, last) == [k \in 1..(last - first + 1) |-> PacketsIn(first + k - 1)]
IsNextPacket(first, last) == PacketsOf(first, last + 1) = PacketsOf(first, last) \o PacketsIn(last + 1)

LEMMA PacketsTyped ==
    ASSUME FileWritten, NEW first \in 1..Len(layout) + 1, NEW last \in (first - 1)..Len(layout)
    PROVE  /\ EachOf(first, last) \in Seq(Seq(PacketRecords)) /\ Len(EachOf(first, last)) = last - first + 1
           /\ PacketsOf(first, last) = FlattenSeq(EachOf(first, last))
           /\ PacketsOf(first, last) \in Seq(PacketRecords)
<1> DEFINE B == Seq(PacketRecords)
           d == EachOf(first, last)
           n == last - first + 1
<1>1. n \in Nat /\ \A k \in 1..n : first + k - 1 \in 1..Len(layout)
  BY LayoutTyped
<1>2. \A k \in 1..n : PacketsIn(first + k - 1) \in B
  BY <1>1, PacketTyped
<1>3. d = [k \in 1..n |-> PacketsIn(first + k - 1)]
  BY DEF EachOf
<1>4. PacketsOf(first, last) = FlattenSeq(d)
  BY DEF PacketsOf, EachOf
<1> HIDE DEF B, d, n
<1>5. d \in Seq(B) /\ Len(d) = n
  BY <1>1, <1>2, <1>3
<1>6. FlattenSeq(d) \in Seq(PacketRecords)
  <2>1. d \in Seq(Seq(PacketRecords))
    BY <1>5 DEF B
  <2> QED BY <2>1, FlattenTyped
<1> QED BY <1>4, <1>5, <1>6 DEF B, d, n

LEMMA PacketsNext ==
    ASSUME FileWritten, NEW first \in 1..Len(layout) + 1, NEW last \in (first - 1)..(Len(layout) - 1)
    PROVE  IsNextPacket(first, last)
<1> DEFINE s == EachOf(first, last)
           t == EachOf(first, last + 1)
           x == PacketsIn(last + 1)
<1>1. /\ Len(layout) \in Nat /\ last \in (first - 1)..Len(layout) /\ last + 1 \in (first - 1)..Len(layout)
      /\ last + 1 \in 1..Len(layout) /\ last - first + 1 \in Nat
      /\ (last + 1) - first + 1 = (last - first + 1) + 1 /\ first + ((last - first + 1) + 1) - 1 = last + 1
  BY LayoutTyped
<1>2. /\ s \in Seq(Seq(PacketRecords)) /\ t \in Seq(Seq(PacketRecords)) /\ Len(s) = last - first + 1
      /\ Len(t) = (last - first + 1) + 1
      /\ PacketsOf(first, last) = FlattenSeq(s) /\ PacketsOf(first, last + 1) = FlattenSeq(t)
  BY <1>1, PacketsTyped
<1>3. x \in Seq(PacketRecords)
  BY <1>1, PacketTyped
<1>4. \A k \in 1..((last - first + 1) + 1) : t[k] = PacketsIn(first + k - 1)
  BY <1>1 DEF EachOf
<1>5. \A k \in 1..(last - first + 1) : s[k] = PacketsIn(first + k - 1)
  BY DEF EachOf
<1>6. t[Len(s) + 1] = x /\ \A k \in 1..Len(s) : t[k] = s[k]
  BY <1>1, <1>2, <1>4, <1>5
<1> HIDE DEF s, t, x
<1>7. Len(t) = Len(s) + 1
  BY <1>2
<1>8. IsFlattenedMore(s, t, x)
  BY <1>2, <1>3, <1>6, <1>7, FlattenMore
<1> QED BY <1>2, <1>8 DEF IsFlattenedMore, IsNextPacket, x

LEMMA PacketsOfNone ==
    ASSUME NEW first \in Nat, NEW last \in Nat, last < first
    PROVE  PacketsOf(first, last) = <<>>
<1>1. 1..(last - first + 1) = {}
  OBVIOUS
<1>2. [k \in 1..(last - first + 1) |-> PacketsIn(first + k - 1)] = <<>>
  BY <1>1
<1> QED BY <1>2 DEF PacketsOf, FlattenSeq

-----------------------------------------------------------------------------
(* What a reader finds at the start of a block.                             *)

TypeOf(block) ==
    CASE block.kind = "section" -> SectionHeader
      [] block.kind = "interface" -> InterfaceDescription
      [] block.kind = "enhanced" -> EnhancedPacket
      [] block.kind = "simple" -> SimplePacket
      [] block.kind = "other" -> 5

BodyOf(block) ==
    CASE block.kind = "section" -> <<ByteOrderMagic, 1>>
      [] block.kind = "interface" -> <<block.link, block.snaplen>>
      [] block.kind = "enhanced" -> <<block.interface, block.length>> \o block.payload
      [] block.kind = "simple" -> <<block.length>> \o block.payload
      [] block.kind = "other" -> block.payload

FramedKinds == {"section", "interface", "enhanced", "simple", "other"}

LEMMA BodyTyped ==
    ASSUME NEW block \in Blocks, block.kind \in FramedKinds
    PROVE  /\ TypeOf(block) \in Nat /\ BodyOf(block) \in Seq(Nat) /\ Len(BodyOf(block)) \in Nat
           /\ Encoded(block) = Framed(TypeOf(block), BodyOf(block))
<1>1. /\ block.magic \in Nat /\ block.link \in Nat /\ block.snaplen \in Nat
      /\ block.interface \in Nat /\ block.payload \in Seq(Nat) /\ block.length \in Nat
  BY DEF Blocks
<1>2. BodyOf(block) \in Seq(Nat)
  <2>1. CASE block.kind = "section"
    <3>1. <<ByteOrderMagic, 1>> \in Seq(Nat)
      BY DEF ByteOrderMagic
    <3> QED BY <2>1, <3>1 DEF BodyOf
  <2>2. CASE block.kind = "interface"
    <3>1. <<block.link, block.snaplen>> \in Seq(Nat)
      BY <1>1
    <3> QED BY <2>2, <3>1 DEF BodyOf
  <2>3. CASE block.kind = "enhanced"
    <3>1. <<block.interface, block.length>> \in Seq(Nat)
      BY <1>1
    <3>2. <<block.interface, block.length>> \o block.payload \in Seq(Nat)
      BY <1>1, <3>1, ConcatFirst
    <3> QED BY <2>3, <3>2 DEF BodyOf
  <2>4. CASE block.kind = "simple"
    <3>1. <<block.length>> \in Seq(Nat)
      BY <1>1
    <3>2. <<block.length>> \o block.payload \in Seq(Nat)
      BY <1>1, <3>1, ConcatFirst
    <3> QED BY <2>4, <3>2 DEF BodyOf
  <2>5. CASE block.kind = "other"
    BY <1>1, <2>5 DEF BodyOf
  <2> QED BY <2>1, <2>2, <2>3, <2>4, <2>5 DEF FramedKinds
<1>3. TypeOf(block) \in Nat
  BY DEF TypeOf, FramedKinds, SectionHeader, InterfaceDescription, EnhancedPacket, SimplePacket
<1>4. Encoded(block) = Framed(TypeOf(block), BodyOf(block))
  BY DEF Encoded, TypeOf, BodyOf, FramedKinds
<1>5. Len(BodyOf(block)) \in Nat
  <2> DEFINE s == BodyOf(block)
  <2>1. s \in Seq(Nat)
    BY <1>2
  <2> HIDE DEF s
  <2>2. Len(s) \in Nat
    BY <2>1
  <2> QED BY <2>2 DEF s
<1> QED BY <1>2, <1>3, <1>4, <1>5

LEMMA FramedWords ==
    ASSUME NEW type \in Nat, NEW body \in Seq(Nat)
    PROVE  LET f == Framed(type, body)
               n == Len(body)
           IN  /\ f[1] = type /\ f[2] = 4 * (n + 3) /\ f[n + 3] = 4 * (n + 3)
               /\ \A k \in 1..n : f[k + 2] = body[k]
<1> DEFINE n == Len(body)
           x == Word * (n + 3)
           front == <<type, x>>
           back == <<x>>
           g == front \o body
           h == g \o back
<1>1. n \in Nat /\ x = 4 * (n + 3) /\ x \in Nat
  BY DEF Word
<1>2. Framed(type, body) = h
  BY DEF Framed
<1> HIDE DEF x
<1>3. /\ front \in Seq(Nat) /\ back \in Seq(Nat) /\ Len(front) = 2 /\ Len(back) = 1
      /\ front[1] = type /\ front[2] = x /\ back[1] = x
  BY <1>1
<1> HIDE DEF front, back
<1>4. /\ g \in Seq(Nat) /\ Len(g) = 2 + n
      /\ g[1] = type /\ g[2] = x /\ \A k \in 1..n : g[2 + k] = body[k]
  <2>1. front \in Seq(Nat)
    BY <1>3
  <2>2. /\ g \in Seq(Nat) /\ Len(g) = Len(front) + Len(body)
        /\ \A i \in 1..Len(front) : g[i] = front[i]
    BY <2>1, ConcatFirst
  <2>3. \A i \in 1..Len(body) : g[Len(front) + i] = body[i]
    BY <2>1, ConcatSecond
  <2> HIDE DEF g
  <2> QED BY <1>3, <2>2, <2>3
<1> HIDE DEF g
<1>5. /\ h \in Seq(Nat) /\ Len(h) = n + 3
      /\ \A i \in 1..(2 + n) : h[i] = g[i]
      /\ h[n + 3] = x
  <2>1. g \in Seq(Nat) /\ back \in Seq(Nat)
    BY <1>3, <1>4
  <2>2. /\ h \in Seq(Nat) /\ Len(h) = Len(g) + Len(back)
        /\ \A i \in 1..Len(g) : h[i] = g[i]
    BY <2>1, ConcatFirst
  <2>3. \A i \in 1..Len(back) : h[Len(g) + i] = back[i]
    BY <2>1, ConcatSecond
  <2> HIDE DEF h, n
  <2>4. (2 + n) + 1 = n + 3 /\ 1 \in 1..Len(back)
    BY <1>1, <1>3
  <2> QED BY <1>1, <1>3, <1>4, <2>2, <2>3, <2>4
<1> HIDE DEF h, n
<1>6. 1 \in 1..(2 + n) /\ 2 \in 1..(2 + n)
  BY <1>1
<1>7. \A k \in 1..n : 2 + k \in 1..(2 + n) /\ k + 2 = 2 + k
  BY <1>1
<1>8. \A k \in 1..n : h[k + 2] = body[k]
  BY <1>4, <1>5, <1>7
<1> QED BY <1>1, <1>2, <1>4, <1>5, <1>6, <1>8 DEF n

\* The framing of a block, and its body, are in the file.
FrameIsAt(i) ==
    LET n == Len(BodyOf(layout[i]))
        start == StartOf(i)
    IN  /\ start \in Nat /\ StartOf(i + 1) = start + 4 * (n + 3) /\ StartOf(i + 1) <= size
        /\ WordAt(start) = TypeOf(layout[i]) /\ WordAt(start + 4) = 4 * (n + 3)
        /\ WordAt(start + 4 * (n + 3) - 4) = 4 * (n + 3)

BodyIsAt(i) ==
    \A k \in 1..Len(BodyOf(layout[i])) : WordAt(StartOf(i) + 8 + 4 * (k - 1)) = BodyOf(layout[i])[k]

LEMMA WordsOfBlock ==
    ASSUME NEW i, layout[i] \in Blocks, layout[i].kind \in FramedKinds, HasWords(i)
    PROVE  FrameIsAt(i) /\ BodyIsAt(i)
<1> DEFINE e == Encoded(layout[i])
           type == TypeOf(layout[i])
           body == BodyOf(layout[i])
           n == Len(body)
           start == StartOf(i)
<1>1. type \in Nat /\ body \in Seq(Nat) /\ n \in Nat /\ e = Framed(type, body)
  BY BodyTyped
<1>2. /\ start \in Nat /\ StartOf(i + 1) = start + 4 * Len(e) /\ StartOf(i + 1) <= size
      /\ \A k \in 1..Len(e) : WordAt(start + 4 * (k - 1)) = e[k]
  BY DEF HasWords
<1> HIDE DEF e, type, body, start
<1>3. Len(e) = n + 3
  BY <1>1, FramedTyped
<1>4. e[1] = type /\ e[2] = 4 * (n + 3) /\ e[n + 3] = 4 * (n + 3) /\ \A k \in 1..n : e[k + 2] = body[k]
  BY <1>1, FramedWords
<1> HIDE DEF n
<1>5. WordAt(start) = type
  <2>1. 1 \in 1..Len(e) /\ start + 4 * (1 - 1) = start
    BY <1>1, <1>2, <1>3
  <2> QED BY <1>2, <1>4, <2>1
<1>6. WordAt(start + 4) = 4 * (n + 3)
  <2>1. 2 \in 1..Len(e) /\ start + 4 * (2 - 1) = start + 4
    BY <1>1, <1>2, <1>3
  <2> QED BY <1>2, <1>4, <2>1
<1>7. WordAt(start + 4 * (n + 3) - 4) = 4 * (n + 3)
  <2>1. n + 3 \in 1..Len(e) /\ start + 4 * ((n + 3) - 1) = start + 4 * (n + 3) - 4
    BY <1>1, <1>2, <1>3
  <2> QED BY <1>2, <1>4, <2>1
<1>8. ASSUME NEW k \in 1..n PROVE WordAt(start + 8 + 4 * (k - 1)) = body[k]
  <2>1. k + 2 \in 1..Len(e) /\ start + 4 * ((k + 2) - 1) = start + 8 + 4 * (k - 1)
    BY <1>1, <1>2, <1>3
  <2> QED BY <1>2, <1>4, <2>1
<1>9. FrameIsAt(i)
  BY <1>2, <1>3, <1>5, <1>6, <1>7 DEF FrameIsAt, n, body, type, start
<1>10. BodyIsAt(i)
  BY <1>8 DEF BodyIsAt, n, body, start
<1> QED BY <1>9, <1>10

\* Such a block is read as one.
LEMMA FrameIsRead ==
    ASSUME FileWritten, NEW i, layout[i] \in Blocks, layout[i].kind \in FramedKinds,
           FrameIsAt(i), layout[i].kind = "section" => BodyIsAt(i), offset = StartOf(i)
    PROVE  LET n == Len(BodyOf(layout[i])) IN
           /\ n \in Nat /\ offset \in Nat /\ size \in Nat
           /\ offset < size /\ ~Truncated /\ ~BadFraming /\ ~BadSection
           /\ BlockType = TypeOf(layout[i]) /\ BlockLength = 4 * (n + 3)
           /\ Body = offset + 8 /\ BodyLength = 4 * n
           /\ offset + BlockLength = StartOf(i + 1) /\ StartOf(i + 1) <= size
<1> DEFINE n == Len(BodyOf(layout[i]))
           start == StartOf(i)
           x == 4 * (n + 3)
<1>1. n \in Nat
  BY BodyTyped
<1>2. /\ start \in Nat /\ StartOf(i + 1) = start + x /\ StartOf(i + 1) <= size
      /\ WordAt(start) = TypeOf(layout[i]) /\ WordAt(start + 4) = x
      /\ WordAt(start + x - 4) = x
  BY DEF FrameIsAt
<1>3. size \in Nat
  BY FileIsTyped DEF FileOK
<1> HIDE DEF n, start
<1>4. BlockType = TypeOf(layout[i]) /\ BlockLength = x /\ Body = offset + 8
  BY <1>2 DEF BlockType, BlockLength, Body, Word, start
<1>5. BodyLength = 4 * n
  BY <1>1, <1>4 DEF BodyLength, Overhead, Word
<1>6. x \in Nat /\ x >= 12 /\ x % 4 = 0
  BY <1>1
<1>7. offset = start
  BY DEF start
<1> HIDE DEF x
<1>8. offset < size /\ x <= size - offset /\ offset + BlockLength = StartOf(i + 1)
  BY <1>2, <1>3, <1>4, <1>6, <1>7
<1>9. ~Truncated
  BY <1>2, <1>3, <1>6, <1>7, <1>8 DEF Truncated, Overhead, Word
<1>10. ~BadFraming
  BY <1>2, <1>3, <1>4, <1>6, <1>7, <1>8 DEF BadFraming, Overhead, Word
<1>11. ~BadSection
  <2>1. CASE layout[i].kind = "section"
    <3>1. BodyIsAt(i) /\ BodyOf(layout[i]) = <<ByteOrderMagic, 1>>
      BY <2>1 DEF BodyOf
    <3>2. 1 \in 1..Len(BodyOf(layout[i])) /\ BodyOf(layout[i])[1] = ByteOrderMagic /\ n = 2
      BY <3>1 DEF n
    <3>3. WordAt(start + 8) = ByteOrderMagic
      <4>1. WordAt(start + 8 + 4 * (1 - 1)) = ByteOrderMagic
        BY <3>1, <3>2 DEF BodyIsAt, start
      <4>2. start + 8 + 4 * (1 - 1) = start + 8
        BY <1>2
      <4> QED BY <4>1, <4>2
    <3>4. HasStruct(Body, 2, size)
      <4>1. x = 20
        BY <3>2 DEF x
      <4> QED BY <1>2, <1>3, <1>4, <1>7, <1>8, <4>1 DEF HasStruct, Word
    <3> QED BY <1>4, <1>7, <3>3, <3>4 DEF BadSection
  <2>2. CASE layout[i].kind # "section"
    <3>1. BlockType # SectionHeader
      BY <1>4, <2>2 DEF TypeOf, FramedKinds, SectionHeader, InterfaceDescription, EnhancedPacket, SimplePacket
    <3> QED BY <3>1 DEF BadSection, IsSection
  <2> QED BY <2>1, <2>2
<1> QED BY <1>1, <1>2, <1>3, <1>4, <1>5, <1>7, <1>8, <1>9, <1>10, <1>11 DEF n, x

LEMMA BlockGoesOn ==
    ASSUME FileWritten, NEW i, layout[i] \in Blocks, layout[i].kind \in FramedKinds,
           FrameIsAt(i), layout[i].kind = "section" => BodyIsAt(i), offset = StartOf(i), NextBlock
    PROVE  /\ offset' = StartOf(i + 1) /\ status' = status /\ UNCHANGED fileVars
           /\ layout[i].kind = "section" => interfaces' = <<>> /\ UNCHANGED counters
           /\ layout[i].kind = "interface" => InterfaceBlock
           /\ layout[i].kind = "enhanced" => EnhancedBlock /\ UNCHANGED interfaces
           /\ layout[i].kind = "simple" => SimpleBlock /\ UNCHANGED interfaces
           /\ layout[i].kind = "other" => UNCHANGED <<interfaces, counters>>
<1>1. /\ ~Truncated /\ ~BadFraming /\ ~BadSection /\ BlockType = TypeOf(layout[i])
      /\ offset + BlockLength = StartOf(i + 1)
  BY FrameIsRead
<1>2. /\ offset' = offset + BlockLength /\ status' = status /\ UNCHANGED fileVars
      /\ CASE BlockType = InterfaceDescription -> InterfaceBlock
           [] BlockType = EnhancedPacket -> EnhancedBlock /\ UNCHANGED interfaces
           [] BlockType = SimplePacket -> SimpleBlock /\ UNCHANGED interfaces
           [] OTHER -> interfaces' = InterfacesNow /\ UNCHANGED counters
  BY <1>1 DEF NextBlock
<1>3. /\ layout[i].kind = "section" => BlockType = 1000
      /\ layout[i].kind = "interface" => BlockType = 1
      /\ layout[i].kind = "enhanced" => BlockType = 6
      /\ layout[i].kind = "simple" => BlockType = 3
      /\ layout[i].kind = "other" => BlockType = 5
  BY <1>1 DEF TypeOf, SectionHeader, InterfaceDescription, EnhancedPacket, SimplePacket
<1>4. /\ BlockType = 1 => InterfaceBlock
      /\ BlockType = 6 => EnhancedBlock /\ UNCHANGED interfaces
      /\ BlockType = 3 => SimpleBlock /\ UNCHANGED interfaces
      /\ BlockType = 1000 => interfaces' = InterfacesNow /\ UNCHANGED counters
      /\ BlockType = 5 => interfaces' = InterfacesNow /\ UNCHANGED counters
  BY <1>2 DEF SectionHeader, InterfaceDescription, EnhancedPacket, SimplePacket
<1>5. /\ BlockType = 1000 => InterfacesNow = <<>>
      /\ BlockType = 5 => InterfacesNow = interfaces
  BY DEF InterfacesNow, IsSection, SectionHeader
<1> QED BY <1>1, <1>2, <1>3, <1>4, <1>5

\* What becomes of the packet of a block, if it has one.
HandedOn(i) ==
    /\ IsPacket(i) => Handed(PacketOf(i))
    /\ ~IsPacket(i) => UNCHANGED counters

\* A block that is as it was written is taken as what it was written as.
TakenOver(i) ==
    /\ UNCHANGED <<fileVars, status>> /\ offset' = StartOf(i + 1)
    /\ interfaces' = InterfacesOf(layout, i)
    /\ HandedOn(i)

LEMMA BlockTakenOver ==
    ASSUME FileWritten, PcapngFile(layout), NEW i \in 1..Len(layout), FrameIsAt(i), BodyIsAt(i),
           offset = StartOf(i), interfaces = InterfacesOf(layout, i - 1), NextBlock
    PROVE  TakenOver(i)
<1> DEFINE block == layout[i]
           body == BodyOf(layout[i])
           before == InterfacesOf(layout, i - 1)
           now == InterfacesOf(layout, i)
<1>1. /\ block \in Blocks /\ layout \in Seq(Blocks) /\ i \in Nat /\ i - 1 \in 0..Len(layout) /\ i \in 0..Len(layout)
      /\ Len(layout) \in Nat
  BY LayoutTyped
<1>2. block.kind \in FramedKinds /\ block.kind # "record"
  BY KindsOfFile DEF FramedKinds
<1>3. /\ block.magic \in Nat /\ block.link \in Nat /\ block.snaplen \in Nat
      /\ block.interface \in Nat /\ block.payload \in Seq(Nat) /\ block.length \in Nat
      /\ Len(block.payload) \in Nat
  <2>1. block.payload \in Seq(Nat)
    BY <1>1 DEF Blocks
  <2> DEFINE p == block.payload
  <2> HIDE DEF p
  <2>2. p \in Seq(Nat)
    BY <2>1 DEF p
  <2>3. Len(p) \in Nat
    BY <2>2
  <2> QED BY <1>1, <2>1, <2>3 DEF Blocks, p
<1>4. /\ offset' = StartOf(i + 1) /\ status' = status /\ UNCHANGED fileVars
      /\ block.kind = "section" => interfaces' = <<>> /\ UNCHANGED counters
      /\ block.kind = "interface" => InterfaceBlock
      /\ block.kind = "enhanced" => EnhancedBlock /\ UNCHANGED interfaces
      /\ block.kind = "simple" => SimpleBlock /\ UNCHANGED interfaces
      /\ block.kind = "other" => UNCHANGED <<interfaces, counters>>
  BY <1>1, <1>2, BlockGoesOn
<1>5. /\ Len(body) \in Nat /\ offset \in Nat
      /\ Body = offset + 8 /\ BodyLength = 4 * Len(body)
  BY <1>1, <1>2, FrameIsRead
<1>6. before \in Seq(InterfaceRecords) /\ now \in Seq(InterfaceRecords) /\ now = InterfacesAfter(i)
  BY <1>1, DeclaredTyped, InterfacesNext
\* The words of the body.
<1>7. /\ Len(body) >= 1 => WordAt(Body) = body[1]
      /\ Len(body) >= 2 => WordAt(Body + Word) = body[2]
  <2>1. Body = StartOf(i) + 8 + 4 * (1 - 1) /\ Body + Word = StartOf(i) + 8 + 4 * (2 - 1)
    BY <1>5 DEF Word
  <2>2. /\ Len(body) >= 1 => 1 \in 1..Len(body)
        /\ Len(body) >= 2 => 2 \in 1..Len(body)
    BY <1>5
  <2> QED BY <2>1, <2>2 DEF BodyIsAt
<1>8. CASE block.kind \in {"section", "other"}
  <2>1. ~IsPacket(i)
    BY <1>8 DEF IsPacket
  <2>2. interfaces' = now /\ UNCHANGED counters
    BY <1>4, <1>6, <1>8 DEF InterfacesAfter
  <2> QED BY <1>4, <2>1, <2>2 DEF TakenOver, HandedOn
<1>9. CASE block.kind = "interface"
  <2>1. ~IsPacket(i)
    BY <1>9 DEF IsPacket
  <2>2. body = <<block.link, block.snaplen>>
    BY <1>9 DEF BodyOf
  <2>3. Len(body) = 2 /\ body[1] = block.link /\ body[2] = block.snaplen
    BY <2>2
  <2>4. BodyLength >= 2 * Word /\ WordAt(Body) = block.link /\ WordAt(Body + Word) = block.snaplen
    BY <1>5, <1>7, <2>3 DEF Word
  <2>5. interfaces' = Append(before, [link |-> block.link, snaplen |-> block.snaplen]) /\ UNCHANGED counters
    BY <1>4, <1>9, <2>4 DEF InterfaceBlock
  <2> QED BY <1>4, <1>6, <1>9, <2>1, <2>5 DEF TakenOver, HandedOn, InterfacesAfter
<1>10. CASE block.kind = "enhanced"
  <2>1. IsPacket(i) /\ now = before /\ interfaces = now
    BY <1>6, <1>10 DEF IsPacket, InterfacesAfter
  <2>2. body = <<block.interface, block.length>> \o block.payload
    BY <1>10 DEF BodyOf
  <2>3. Len(body) = Len(block.payload) + 2 /\ body[1] = block.interface /\ body[2] = block.length
    BY <1>3, <2>2, WordsFirst
  <2>4. WordAt(Body) = block.interface /\ WordAt(Body + Word) = block.length
    BY <1>3, <1>7, <2>3
  <2>5. block.interface < Len(now) /\ block.length <= 4 * Len(block.payload)
    BY <1>10 DEF PcapngFile, Word
  <2>6. ~(BodyLength < 2 * Word) /\ ~Overruns(block.length)
    <3> DEFINE l == Len(block.payload)
               n == Len(body)
               m == block.length
               b == BodyLength
    <3>1. l \in Nat /\ n = l + 2 /\ b = 4 * n /\ m \in Nat /\ m <= 4 * l
      BY <1>3, <1>5, <2>3, <2>5
    <3> HIDE DEF l, n, m, b
    <3>2. ~(b < 2 * 4) /\ ~(m > b - 2 * 4)
      BY <3>1
    <3> QED BY <3>2 DEF b, m, Word, Overruns
  <2>7. ~(block.interface >= Len(now))
    <3> HIDE DEF now
    <3>1. Len(now) \in Nat
      BY <1>6
    <3> QED BY <1>3, <2>5, <3>1
  <2>8. ProcessPacket(now[block.interface + 1].link, Body + 2 * Word, block.length)
    BY <1>4, <1>10, <2>1, <2>4, <2>6, <2>7 DEF EnhancedBlock
  <2>9. Body + 2 * Word = StartOf(i) + Word * 4
    BY <1>5 DEF Word
  <2>10. PacketOf(i) = [link |-> now[block.interface + 1].link, at |-> StartOf(i) + Word * 4, length |-> block.length]
    BY <1>10 DEF PacketOf
  <2>11. Handed(PacketOf(i))
    BY <2>8, <2>9, <2>10 DEF Handed
  <2>12. interfaces' = now
    BY <1>4, <1>10, <2>1
  <2> QED BY <1>4, <2>1, <2>11, <2>12 DEF TakenOver, HandedOn
<1>11. CASE block.kind = "simple"
  <2>1. IsPacket(i) /\ now = before /\ interfaces = now
    BY <1>6, <1>11 DEF IsPacket, InterfacesAfter
  <2>2. body = <<block.length>> \o block.payload
    BY <1>11 DEF BodyOf
  <2>3. Len(body) = Len(block.payload) + 1 /\ body[1] = block.length
    BY <1>3, <2>2, WordsFirst
  <2>4. WordAt(Body) = block.length
    BY <1>3, <1>7, <2>3
  <2> DEFINE n == SimpleLength(layout, i)
             snaplen == now[1].snaplen
  <2>5. /\ 1 \in 1..Len(now) /\ n \in Nat /\ snaplen \in Nat
        /\ n = IF snaplen # 0 /\ snaplen < block.length THEN snaplen ELSE block.length
    BY <1>11, SimpleLengthTyped
  <2>6. n <= 4 * Len(block.payload)
    BY <1>11 DEF PcapngFile, Word
  <2>7. ~(BodyLength < Word \/ interfaces = <<>>)
    <3>1. ~(BodyLength < Word)
      BY <1>3, <1>5, <2>3 DEF Word
    <3>2. now # <<>>
      BY <1>11 DEF PcapngFile
    <3> QED BY <2>1, <3>1, <3>2
  <2>8. ProcessPacket(now[1].link, Body + Word, Captured(block.length, snaplen))
    BY <1>4, <1>11, <2>1, <2>4, <2>7 DEF SimpleBlock
  <2> HIDE DEF n, snaplen
  <2>9. Captured(block.length, snaplen) = n
    <3> DEFINE room == BodyLength - Word
               l == block.length
               S == {l, room} \cup (IF snaplen # 0 THEN {snaplen} ELSE {})
    <3>1. room \in Nat /\ n <= room
      BY <1>3, <1>5, <2>3, <2>5, <2>6 DEF Word
    <3>2. l \in Nat /\ (n = IF snaplen # 0 /\ snaplen < l THEN snaplen ELSE l)
      BY <1>3, <2>5
    <3>3. Captured(l, snaplen) = Min(S)
      BY DEF Captured
    <3> HIDE DEF room, l
    <3>4. S \in SUBSET Nat /\ S # {} /\ n \in S /\ (\A m \in S : n <= m)
      BY <2>5, <3>1, <3>2
    <3> HIDE DEF S
    <3>5. Min(S) \in S /\ (\A m \in S : Min(S) <= m)
      BY <3>4, LeastIsMember
    <3>6. Min(S) <= n /\ n <= Min(S) /\ Min(S) \in Nat
      BY <3>4, <3>5
    <3> QED BY <2>5, <3>3, <3>6 DEF l
  <2>10. Body + Word = StartOf(i) + Word * 3
    BY <1>5 DEF Word
  <2>11. PacketOf(i) = [link |-> now[1].link, at |-> StartOf(i) + Word * 3, length |-> n]
    BY <1>11 DEF PacketOf, n
  <2>12. Handed(PacketOf(i))
    BY <2>8, <2>9, <2>10, <2>11 DEF Handed
  <2>13. interfaces' = now
    BY <1>4, <1>11, <2>1
  <2> QED BY <1>4, <2>1, <2>12, <2>13 DEF TakenOver, HandedOn
<1> QED BY <1>2, <1>8, <1>9, <1>10, <1>11 DEF FramedKinds

-----------------------------------------------------------------------------
(* The same for a pcap file.                                                *)

\* Its header, and the length of a record.
HeaderIsAt == WordAt(0) = layout[1].magic /\ WordAt(Word) = Order(layout[1].link)

RecordIsAt(i) ==
    /\ StartOf(i) \in Nat /\ StartOf(i + 1) = StartOf(i) + 4 + layout[i].length /\ StartOf(i + 1) <= size
    /\ WordAt(StartOf(i)) = Order(layout[i].length)

LEMMA WordsOfHeader ==
    ASSUME FileWritten, PcapFile(layout), HasWords(1)
    PROVE  HeaderIsAt /\ StartOf(1) = 0 /\ StartOf(2) = 8 /\ 8 <= size
<1> DEFINE b == layout[1]
           e == Encoded(b)
<1>1. b \in Blocks /\ b.kind = "pcap" /\ layout \in Seq(Blocks) /\ 1 \in 1..Len(layout) + 1 /\ Len(layout) \in Nat
  BY LayoutTyped DEF PcapFile
<1>2. e = <<b.magic, Order(b.link)>>
  BY <1>1 DEF Encoded
<1>3. Len(e) = 2 /\ e[1] = b.magic /\ e[2] = Order(b.link)
  BY <1>2
<1>4. StartOf(1) = 0
  <2>1. FirstWord(1) = 0 /\ StartOf(1) = 4 * FirstWord(1)
    BY <1>1, FirstAndEnd, StartTyped
  <2> QED BY <2>1
<1>5. /\ StartOf(1 + 1) = StartOf(1) + 4 * Len(e) /\ StartOf(1 + 1) <= size
      /\ \A k \in 1..Len(e) : WordAt(StartOf(1) + 4 * (k - 1)) = e[k]
  BY DEF HasWords
<1> HIDE DEF e
<1>6. StartOf(2) = 8 /\ 8 <= size
  <2>1. 1 + 1 = 2
    OBVIOUS
  <2>2. StartOf(2) = StartOf(1) + 4 * Len(e) /\ StartOf(2) <= size
    BY <1>5, <2>1
  <2> QED BY <1>3, <1>4, <2>2
<1>7. WordAt(0) = b.magic
  <2>1. 1 \in 1..Len(e) /\ StartOf(1) + 4 * (1 - 1) = 0
    BY <1>3, <1>4
  <2> QED BY <1>3, <1>5, <2>1
<1>8. WordAt(Word) = Order(b.link)
  <2>1. 2 \in 1..Len(e) /\ StartOf(1) + 4 * (2 - 1) = Word
    BY <1>3, <1>4 DEF Word
  <2> QED BY <1>3, <1>5, <2>1
<1> QED BY <1>4, <1>6, <1>7, <1>8 DEF HeaderIsAt

LEMMA WordsOfRecord ==
    ASSUME FileWritten, PcapFile(layout), NEW i \in 2..Len(layout), HasWords(i)
    PROVE  RecordIsAt(i)
<1> DEFINE b == layout[i]
           e == Encoded(b)
           x == Order(b.length)
           p == b.payload
<1>1. b \in Blocks /\ i \in 1..Len(layout) /\ b.kind = "record" /\ b.length = Word * Len(p)
  BY LayoutTyped DEF PcapFile
<1>2. b.length \in Nat /\ p \in Seq(Nat)
  BY <1>1 DEF Blocks
<1>3. x \in Nat
  BY <1>2, OrderTyped
<1>4. e = <<x>> \o p
  BY <1>1 DEF Encoded
<1> HIDE DEF x, p
<1>5. Len(e) = Len(p) + 1 /\ e[1] = x /\ Len(p) \in Nat
  BY <1>2, <1>3, <1>4, WordsFirst
<1>6. /\ StartOf(i) \in Nat /\ StartOf(i + 1) = StartOf(i) + 4 * Len(e) /\ StartOf(i + 1) <= size
      /\ \A k \in 1..Len(e) : WordAt(StartOf(i) + 4 * (k - 1)) = e[k]
  BY DEF HasWords
<1> HIDE DEF e
<1>7. StartOf(i + 1) = StartOf(i) + 4 + b.length
  BY <1>1, <1>5, <1>6 DEF Word
<1>8. WordAt(StartOf(i)) = x
  <2>1. 1 \in 1..Len(e) /\ StartOf(i) + 4 * (1 - 1) = StartOf(i)
    BY <1>5, <1>6
  <2> QED BY <1>5, <1>6, <2>1
<1> QED BY <1>6, <1>7, <1>8 DEF RecordIsAt, x

\* A reader in the order of the file gets the value that was written.
LEMMA ValueOfOrder ==
    ASSUME FileWritten, PcapFile(layout), HeaderIsAt, NEW word \in Nat, word < WordLimit
    PROVE  Value(Order(word)) = word
<1>1. layout[1].kind = "pcap" /\ WordAt(0) = layout[1].magic
  BY DEF PcapFile, HeaderIsAt
<1>2. Swap(Swap(word)) = word
  BY DEF Swap, WordLimit
<1>3. CASE layout[1].magic \in PcapMagics
  BY <1>1, <1>3 DEF Value, Order
<1>4. CASE layout[1].magic \notin PcapMagics
  BY <1>1, <1>2, <1>4 DEF Value, Order
<1> QED BY <1>3, <1>4

LEMMA RecordTakenOver ==
    ASSUME FileWritten, PcapFile(layout), HeaderIsAt, NEW i \in 2..Len(layout), RecordIsAt(i),
           offset = StartOf(i), interfaces = InterfacesOf(layout, i - 1), NextRecord
    PROVE  TakenOver(i)
<1> DEFINE n == layout[i].length
           link == layout[1].link
<1>1. /\ i \in 1..Len(layout) /\ layout[i] \in Blocks /\ layout[1] \in Blocks /\ layout[i].kind = "record"
      /\ n < WordLimit /\ link < WordLimit /\ layout \in Seq(Blocks)
  BY LayoutTyped DEF PcapFile
<1>2. n \in Nat /\ link \in Nat /\ size \in Nat
  BY <1>1, FileIsTyped DEF Blocks, FileOK
<1>3. Value(WordAt(offset)) = n /\ LinkType = LinkBits(link)
  <2>1. Value(Order(n)) = n /\ Value(Order(link)) = link
    BY <1>1, <1>2, ValueOfOrder
  <2> QED BY <2>1 DEF RecordIsAt, HeaderIsAt, LinkType
<1>4. offset \in Nat /\ offset + 4 + n = StartOf(i + 1) /\ StartOf(i + 1) <= size
  BY DEF RecordIsAt
<1>5. HasStruct(offset, 1, size) /\ ~(n > size - offset - Word)
  BY <1>2, <1>4 DEF HasStruct, Word
<1>6. /\ ProcessPacket(LinkType, offset + Word, n) /\ offset' = offset + Word + n
      /\ UNCHANGED <<status, interfaces>> /\ UNCHANGED fileVars
  BY <1>3, <1>5 DEF NextRecord
<1>7. offset' = StartOf(i + 1)
  BY <1>2, <1>4, <1>6 DEF Word
<1>8. PacketOf(i) = [link |-> LinkBits(link), at |-> StartOf(i) + Word * 1, length |-> n]
  BY <1>1 DEF PacketOf
<1>9. offset + Word = StartOf(i) + Word * 1
  BY DEF Word
<1>10. HandedOn(i)
  BY <1>1, <1>3, <1>6, <1>8, <1>9 DEF HandedOn, Handed, IsPacket
<1>11. InterfacesOf(layout, i) = InterfacesOf(layout, i - 1)
  BY <1>1, InterfacesNext DEF InterfacesAfter
<1> QED BY <1>6, <1>7, <1>10, <1>11 DEF TakenOver

-----------------------------------------------------------------------------
(* Any step of a reader that is at the start of a block.                    *)

Opened(i) ==
    \/ PcapngFile(layout) /\ status = "pcapng"
    \/ PcapFile(layout) /\ status = "pcap" /\ HeaderIsAt /\ i >= 2

IsReader(i) == offset = StartOf(i) /\ interfaces = InterfacesOf(layout, i - 1) /\ Opened(i)

\* A block that is not touched is read as it was written.
LEMMA ReadOn ==
    ASSUME FileWritten, NEW i \in 1..Len(layout), Untouched(i), IsReader(i), [FileNext]_readerVars
    PROVE  UNCHANGED readerVars \/ TakenOver(i)
<1>1. HasWords(i) /\ layout[i] \in Blocks /\ Len(layout) \in Nat /\ size \in Nat
  BY LayoutTyped, UntouchedHasWords, FileIsTyped DEF FileOK
<1>2. status \in {"pcapng", "pcap"} /\ offset = StartOf(i) /\ interfaces = InterfacesOf(layout, i - 1)
  BY DEF IsReader, Opened
<1>3. CASE PcapngFile(layout) /\ status = "pcapng"
  <2>1. layout[i].kind \in FramedKinds
    BY <1>3, KindsOfFile DEF FramedKinds
  <2>2. FrameIsAt(i) /\ BodyIsAt(i)
    BY <1>1, <2>1, WordsOfBlock
  <2>3. offset < size /\ offset \in Nat
    BY <1>1, <1>2, <2>1, <2>2, FrameIsRead
  <2>4. UNCHANGED readerVars \/ NextBlock
    BY <1>1, <1>3, <2>3 DEF FileNext, Open, PcapHeader, NextRecord, EndOfFile, Report
  <2> QED BY <1>2, <1>3, <2>2, <2>4, BlockTakenOver
<1>4. CASE PcapFile(layout) /\ status = "pcap" /\ HeaderIsAt /\ i >= 2
  <2>1. i \in 2..Len(layout)
    BY <1>1, <1>4
  <2>2. RecordIsAt(i)
    BY <1>1, <1>4, <2>1, WordsOfRecord
  <2>3. offset < size
    <3>1. layout[i].length \in Nat
      BY <1>1 DEF Blocks
    <3> QED BY <1>1, <1>2, <2>2, <3>1 DEF RecordIsAt
  <2>4. UNCHANGED readerVars \/ NextRecord
    <3>1. offset \in Nat
      BY <1>2, <2>2 DEF RecordIsAt
    <3> QED BY <1>1, <1>4, <2>3, <3>1 DEF FileNext, Open, PcapHeader, NextBlock, EndOfFile, Report
  <2> QED BY <1>2, <1>4, <2>1, <2>2, <2>4, RecordTakenOver
<1> QED BY <1>3, <1>4 DEF IsReader, Opened

\* At the end of a file that is not cut off there is nothing more to read.
LEMMA ReadToEnd ==
    ASSUME FileWritten, damage.kind # "cut", IsReader(Len(layout) + 1), [FileNext]_readerVars
    PROVE  UNCHANGED readerVars \/ EndOfFile
<1> DEFINE words == Written(layout)
<1>1. StartOf(Len(layout) + 1) = 4 * Len(words)
  BY LayoutTyped, StartTyped, FirstAndEnd
<1>2. size = 4 * Len(words)
  BY DEF FileWritten, Word
<1>3. offset = size /\ status \in {"pcapng", "pcap"}
  BY <1>1, <1>2 DEF IsReader, Opened
<1>4. size \in Nat
  BY FileIsTyped DEF FileOK
<1>5. ~(offset < size)
  BY <1>3, <1>4
<1>6. ~NextBlock /\ ~NextRecord
  BY <1>5 DEF NextBlock, NextRecord
<1>7. ~Open /\ ~PcapHeader /\ ~Report
  BY <1>3 DEF Open, PcapHeader, Report
<1> QED BY <1>6, <1>7 DEF FileNext

\* What is handed on, and what is warned about.
Harmless == {"link type", "packet header"}
IsBoth(c, s, t) == c = s \o t

LEMMA HandedGrows ==
    ASSUME FileWritten, FileInv, NEW i \in 1..Len(layout), HandedOn(i)
    PROVE  /\ IsBoth(packets', packets, PacketsIn(i))
           /\ ToSet(m_warnings) \subseteq Harmless => ToSet(m_warnings') \subseteq Harmless
<1>1. packets \in Seq(PacketRecords) /\ m_warnings \in Seq(Topics)
  BY DEF FileInv, CountersOK
<1>2. CASE IsPacket(i)
  <2> DEFINE p == PacketOf(i)
  <2>1. p \in PacketRecords /\ PacketsIn(i) = <<p>> /\ Handed(p)
    BY <1>2, PacketTyped DEF PacketsIn, HandedOn
  <2> HIDE DEF p
  <2>2. packets' = Append(packets, p)
    <3>1. p = [link |-> p.link, at |-> p.at, length |-> p.length]
      BY <2>1 DEF PacketRecords
    <3>2. packets' = Append(packets, [link |-> p.link, at |-> p.at, length |-> p.length])
      BY <2>1 DEF Handed, ProcessPacket
    <3> QED BY <3>1, <3>2
  <2>3. Append(packets, p) = packets \o <<p>>
    BY <1>1, <2>1
  <2>4. \/ m_warnings' = m_warnings
        \/ \E warning \in Harmless : Warned(warning)
    BY <2>1 DEF Handed, ProcessPacket, NotWarned, Harmless
  <2>5. \/ m_warnings' = m_warnings
        \/ \E warning \in Harmless : m_warnings' = Append(m_warnings, warning)
    BY <2>4 DEF Warned
  <2>6. Harmless \subseteq Topics
    BY DEF Harmless, Topics
  <2>7. ToSet(m_warnings) \subseteq Harmless => ToSet(m_warnings') \subseteq Harmless
    <3>1. ASSUME NEW warning \in Harmless, m_warnings' = Append(m_warnings, warning),
                 ToSet(m_warnings) \subseteq Harmless
          PROVE  ToSet(m_warnings') \subseteq Harmless
      <4>1. ToSet(Append(m_warnings, warning)) = ToSet(m_warnings) \cup {warning}
        BY <1>1, <2>6, AppendedTo
      <4> QED BY <3>1, <4>1
    <3> QED BY <2>5, <3>1
  <2> QED BY <2>1, <2>2, <2>3, <2>7 DEF IsBoth
<1>3. CASE ~IsPacket(i)
  <2>1. packets' = packets /\ m_warnings' = m_warnings /\ PacketsIn(i) = <<>>
    BY <1>3 DEF HandedOn, counters, PacketsIn
  <2>2. packets \o <<>> = packets
    BY <1>1
  <2> QED BY <2>1, <2>2 DEF IsBoth
<1> QED BY <1>2, <1>3

-----------------------------------------------------------------------------
(* All that is written before the damage is reported.                       *)

\* A step hands at most one packet on.
LEMMA PacketsGrow ==
    ASSUME FileInv, [FileNext]_readerVars
    PROVE  packets' = packets \/ \E p \in PacketRecords : packets' = Append(packets, p)
<1>1. packets \in Seq(PacketRecords)
  BY DEF FileInv, CountersOK
<1>2. packets' \in Seq(PacketRecords)
  BY FileStep DEF FileInv, CountersOK
<1>3. packets' = packets \/ \E p : packets' = Append(packets, p)
  <2>1. CASE Open \/ EndOfFile \/ Report \/ PcapHeader \/ UNCHANGED readerVars
    BY <2>1 DEF Open, EndOfFile, Report, PcapHeader, Throw, readerVars, counters
  <2>2. CASE NextBlock
    <3>1. \/ \E why : Warn(why)
          \/ UNCHANGED counters
          \/ \E link, at, length : ProcessPacket(link, at, length)
      <4>1. CASE (\E why : Stop(why)) \/ Throw
        BY <4>1 DEF Stop, Throw
      <4>2. CASE InterfaceBlock
        BY <4>2 DEF InterfaceBlock
      <4>3. CASE EnhancedBlock
        BY <4>3 DEF EnhancedBlock
      <4>4. CASE SimpleBlock
        BY <4>4 DEF SimpleBlock
      <4>5. CASE UNCHANGED counters
        BY <4>5
      <4> QED BY <2>2, <4>1, <4>2, <4>3, <4>4, <4>5 DEF NextBlock
    <3> QED BY <3>1 DEF Warn, ProcessPacket, counters
  <2>3. CASE NextRecord
    <3>1. \/ \E why : Warn(why)
          \/ \E link, at, length : ProcessPacket(link, at, length)
      BY <2>3 DEF NextRecord, Stop
    <3> QED BY <3>1 DEF Warn, ProcessPacket
  <2> QED BY <2>1, <2>2, <2>3 DEF FileNext
<1>4. ASSUME NEW p, packets' = Append(packets, p)
      PROVE  p \in PacketRecords
  <2>1. Len(packets) \in Nat /\ Len(Append(packets, p)) = Len(packets) + 1 /\ Append(packets, p)[Len(packets) + 1] = p
    BY <1>1
  <2>2. Len(packets) + 1 \in 1..Len(packets')
    BY <1>4, <2>1
  <2>3. packets'[Len(packets) + 1] \in PacketRecords
    BY <1>2, <2>2
  <2> QED BY <1>4, <2>1, <2>3
<1> QED BY <1>3, <1>4

\* How far the program is, where all it has read is as it was written.
ReadUpTo(i) ==
    /\ i <= DamagedBlock
    /\ offset = StartOf(i) /\ interfaces = InterfacesOf(layout, i - 1)
    /\ packets = PacketsOf(1, i - 1) /\ ToSet(m_warnings) \subseteq Harmless
    /\ \/ i = 1 /\ status = "start"
       \/ i = 1 /\ status = "pcap header" /\ PcapFile(layout)
       \/ Opened(i)
       \/ i = Len(layout) + 1 /\ status \in {"parsed", "reported"}

\* What remains true after that.
ReadPast == damage.kind # "none" /\ IsPrefix(PacketsOf(1, DamagedBlock - 1), packets)

ReportInv == FileInv /\ FileWritten /\ (ReadPast \/ \E i \in 1..Len(layout) + 1 : ReadUpTo(i))

LEMMA FileStartsUpTo == FileInit => FileWritten /\ 1 \in 1..Len(layout) + 1 /\ ReadUpTo(1)
<1> SUFFICES ASSUME FileInit PROVE FileWritten /\ 1 \in 1..Len(layout) + 1 /\ ReadUpTo(1)
  OBVIOUS
<1>1. FileWritten
  BY DEF FileInit, FileWritten
<1>2. 1 \in 1..Len(layout) + 1 /\ layout \in Seq(Blocks) /\ 0 \in 0..Len(layout) /\ Len(layout) \in Nat
  BY <1>1, LayoutTyped
<1>3. ReadUpTo(1)
  <2>1. 1 <= DamagedBlock
    BY <1>1, <1>2, DamageFound DEF DamageIsAt
  <2>2. StartOf(1) = 0
    BY <1>1, <1>2, FirstAndEnd, StartTyped
  <2>3. InterfacesOf(layout, 1 - 1) = <<>>
    <3>1. InterfacesOf(layout, 0) = FlattenSeq(Declared(0)) /\ Declared(0) \in Seq(Seq(InterfaceRecords)) /\ Len(Declared(0)) = 0
      BY <1>2, DeclaredTyped
    <3>2. Declared(0) = <<>>
      BY <3>1
    <3> QED BY <3>1, <3>2 DEF FlattenSeq
  <2>4. PacketsOf(1, 1 - 1) = <<>>
    BY PacketsOfNone
  <2>5. ToSet(m_warnings) \subseteq Harmless
    BY DEF FileInit, ToSet
  <2> QED BY <2>1, <2>2, <2>3, <2>4, <2>5 DEF FileInit, ReadUpTo
<1> QED BY <1>1, <1>2, <1>3

LEMMA ReportStarts == FileInit => ReportInv
BY FileStarts, FileStartsUpTo DEF ReportInv

\* All of this is of the file, and stays as it is.
LEMMA ProgressSame ==
    ASSUME UNCHANGED fileVars
    PROVE  /\ FileWritten' = FileWritten /\ DamagedBlock' = DamagedBlock /\ layout' = layout /\ damage' = damage
           /\ HeaderIsAt' = HeaderIsAt
           /\ \A i : StartOf(i)' = StartOf(i) /\ InterfacesOf(layout, i)' = InterfacesOf(layout, i)
           /\ \A i, j : PacketsOf(i, j)' = PacketsOf(i, j)
<1>1. layout' = layout /\ damage' = damage /\ size' = size /\ file' = file
  BY DEF fileVars
<1>2. HeaderIsAt' = HeaderIsAt
  BY <1>1 DEF HeaderIsAt, Order, WordAt
<1> QED BY <1>1, <1>2, FileStaysWritten, PacketsStayWritten

LEMMA StillPast ==
    ASSUME FileInv, FileWritten, ReadPast, [FileNext]_readerVars
    PROVE  ReadPast'
<1> DEFINE s == PacketsOf(1, DamagedBlock - 1)
<1>1. UNCHANGED fileVars
  BY DEF FileNext, readerVars, Open, NextBlock, PcapHeader, NextRecord, EndOfFile, Report
<1>2. s' = s /\ damage' = damage
  BY <1>1, ProgressSame
<1>3. s \in Seq(PacketRecords)
  <2>1. DamagedBlock \in 1..Len(layout) /\ Len(layout) \in Nat
    BY DamageFound, LayoutTyped DEF DamageIsAt, ReadPast
  <2>2. 1 \in 1..Len(layout) + 1 /\ DamagedBlock - 1 \in (1 - 1)..Len(layout)
    BY <2>1
  <2> QED BY <2>2, PacketsTyped
<1>4. packets \in Seq(PacketRecords)
  BY DEF FileInv, CountersOK
<1>5. IsPrefix(s, packets) /\ damage.kind # "none"
  BY DEF ReadPast
<1> HIDE DEF s
<1>6. IsPrefix(s, packets')
  <2>1. CASE packets' = packets
    BY <1>5, <2>1
  <2>2. CASE \E p \in PacketRecords : packets' = Append(packets, p)
    BY <1>3, <1>4, <1>5, <2>2, PrefixGrows
  <2> QED BY <2>1, <2>2, PacketsGrow
<1>7. ReadPast' = (damage'.kind # "none" /\ IsPrefix(s', packets'))
  BY DEF ReadPast, s
<1> QED BY <1>2, <1>5, <1>6, <1>7

\* The reader is at the damage.
LEMMA AtDamage ==
    ASSUME FileInv, FileWritten, NEW i \in 1..Len(layout), ReadUpTo(i), ~(i < DamagedBlock)
    PROVE  ReadPast
<1>1. DamageIsAt /\ Len(layout) \in Nat /\ i <= DamagedBlock
  BY DamageFound, LayoutTyped DEF ReadUpTo
<1>2. damage.kind # "none" /\ DamagedBlock \in 1..Len(layout)
  <2>1. damage.kind = "none" => i < DamagedBlock
    BY <1>1 DEF DamageIsAt
  <2> QED BY <1>1, <2>1 DEF DamageIsAt
<1>3. DamagedBlock = i
  BY <1>1, <1>2
<1>4. packets = PacketsOf(1, DamagedBlock - 1)
  BY <1>3 DEF ReadUpTo
<1>5. packets \in Seq(PacketRecords)
  BY DEF FileInv, CountersOK
<1>6. IsPrefix(packets, packets)
  BY <1>5, PrefixOfItself
<1> QED BY <1>2, <1>4, <1>6 DEF ReadPast

LEMMA StartOfFirst ==
    ASSUME FileWritten
    PROVE  StartOf(1) = 0 /\ 1 \in 1..Len(layout) /\ 1 \in 1..Len(layout) + 1 /\ layout[1] \in Blocks
<1>1. Len(layout) \in Nat /\ Len(layout) >= 1 /\ layout \in Seq(Blocks)
  BY LayoutTyped
<1>2. 1 \in 1..Len(layout) /\ 1 \in 1..Len(layout) + 1
  BY <1>1
<1>3. StartOf(1) = 4 * FirstWord(1) /\ FirstWord(1) = 0
  BY <1>1, <1>2, FirstAndEnd, StartTyped
<1>4. layout[1] \in Blocks
  BY <1>2, LayoutTyped
<1> QED BY <1>2, <1>3, <1>4

\* The beginning of a file that is not damaged there.
IsBeginning == status = "start" \/ status = "pcap header"

LEMMA BeginningIsRead ==
    ASSUME FileInv, FileWritten, ReadUpTo(1), Untouched(1), [FileNext]_readerVars, IsBeginning
    PROVE  \/ UNCHANGED readerVars
           \/ PcapngFile(layout) /\ Open /\ status' = "pcapng"
           \/ PcapFile(layout) /\ Open /\ status' = "pcap header"
           \/ PcapFile(layout) /\ PcapHeader /\ HeaderIsAt /\ StartOf(2) = 8
              /\ status' = "pcap" /\ offset' = 8 /\ UNCHANGED <<fileVars, interfaces, counters>>
<1>1. /\ 1 \in 1..Len(layout) /\ layout[1] \in Blocks /\ layout \in Seq(Blocks) /\ size \in Nat
      /\ PcapngFile(layout) \/ PcapFile(layout)
  BY StartOfFirst, LayoutTyped, FileIsTyped DEF FileOK
<1>0. size \in Nat
  BY <1>1
<1>2. HasWords(1)
  BY <1>1, UntouchedHasWords
<1>3. CASE status = "pcap header"
  <2>1. PcapFile(layout)
    BY <1>3 DEF ReadUpTo, Opened
  <2>2. HeaderIsAt /\ StartOf(2) = 8 /\ 8 <= size
    BY <1>2, <2>1, WordsOfHeader
  <2>3. UNCHANGED readerVars \/ PcapHeader
    BY <1>3 DEF FileNext, Open, NextBlock, NextRecord, EndOfFile, Report
  <2>4. PcapHeader => status' = "pcap" /\ offset' = 8 /\ UNCHANGED <<fileVars, interfaces, counters>>
    <3>1. HasStruct(0, 2, size)
      BY <1>0, <2>2 DEF HasStruct, Word
    <3>2. 2 * Word = 8
      BY DEF Word
    <3> QED BY <3>1, <3>2 DEF PcapHeader
  <2> QED BY <2>1, <2>2, <2>3, <2>4
<1>4. CASE status = "start"
  <2>1. UNCHANGED readerVars \/ Open
    BY <1>4 DEF FileNext, PcapHeader, NextBlock, NextRecord, EndOfFile, Report
  <2>2. CASE PcapngFile(layout)
    <3>1. layout[1].kind = "section"
      BY <2>2 DEF PcapngFile
    <3>2. FrameIsAt(1)
      BY <1>1, <1>2, <3>1, WordsOfBlock DEF FramedKinds
    <3>3. StartOf(1) = 0
      BY StartOfFirst
    <3>4. WordAt(0) = SectionHeader /\ ~(size < Word)
      <4>1. WordAt(0) = SectionHeader
        BY <3>1, <3>2, <3>3 DEF FrameIsAt, TypeOf
      <4>2. Len(BodyOf(layout[1])) \in Nat
        BY <1>1, <3>1, BodyTyped DEF FramedKinds
      <4> DEFINE n == Len(BodyOf(layout[1]))
      <4>3. StartOf(1 + 1) = 0 + 4 * (n + 3) /\ StartOf(1 + 1) <= size
        BY <3>2, <3>3 DEF FrameIsAt
      <4> HIDE DEF n
      <4>4. n \in Nat
        BY <4>2 DEF n
      <4>5. 0 + 4 * (n + 3) <= size
        BY <4>3
      <4>6. ~(size < Word)
        BY <1>0, <4>4, <4>5 DEF Word
      <4> QED BY <4>1, <4>6
    <3>5. Open => status' = "pcapng"
      BY <3>4 DEF Open
    <3> QED BY <2>1, <2>2, <3>5
  <2>3. CASE PcapFile(layout)
    <3>1. HeaderIsAt /\ 8 <= size /\ layout[1].magic \in PcapMagics \cup {Swap(m) : m \in PcapMagics}
      BY <1>2, <2>3, WordsOfHeader DEF PcapFile
    <3>2. ~(size < Word) /\ WordAt(0) \in PcapMagics \cup {Swap(m) : m \in PcapMagics}
      <4>1. ~(size < Word)
        BY <1>0, <3>1 DEF Word
      <4> QED BY <3>1, <4>1 DEF HeaderIsAt
    <3>3. WordAt(0) # SectionHeader
      <4> DEFINE x == WordAt(0)
      <4>1. x \in PcapMagics \cup {Swap(m) : m \in PcapMagics}
        BY <3>2
      <4> HIDE DEF x
      <4>2. x \in {3000, 3001, 103000, 103001}
        BY <4>1 DEF PcapMagics, Swap
      <4> QED BY <4>2 DEF SectionHeader, x
    <3>4. Open => status' = "pcap header"
      BY <3>2, <3>3 DEF Open
    <3> QED BY <2>1, <2>3, <3>4
  <2> QED BY <1>1, <2>2, <2>3
<1> QED BY <1>3, <1>4 DEF IsBeginning

LEMMA UpToStays ==
    ASSUME NEW i, ReadUpTo(i), UNCHANGED readerVars
    PROVE  ReadUpTo(i)'
<1>1. /\ UNCHANGED fileVars /\ offset' = offset /\ interfaces' = interfaces /\ packets' = packets
      /\ m_warnings' = m_warnings /\ status' = status
  BY DEF readerVars, counters
<1>2. /\ DamagedBlock' = DamagedBlock /\ layout' = layout /\ HeaderIsAt' = HeaderIsAt
      /\ \A k : StartOf(k)' = StartOf(k) /\ InterfacesOf(layout, k)' = InterfacesOf(layout, k)
      /\ \A k, l : PacketsOf(k, l)' = PacketsOf(k, l)
  BY <1>1, ProgressSame
<1>3. Opened(i)' = Opened(i)
  BY <1>1, <1>2 DEF Opened
<1> QED BY <1>1, <1>2, <1>3 DEF ReadUpTo

\* One block more has been read.
LEMMA UpToNext ==
    ASSUME FileInv, FileWritten, NEW i \in 1..Len(layout), i < DamagedBlock, ReadUpTo(i), Opened(i),
           TakenOver(i)
    PROVE  ReadUpTo(i + 1)'
<1>1. /\ UNCHANGED fileVars /\ status' = status /\ offset' = StartOf(i + 1)
      /\ interfaces' = InterfacesOf(layout, i) /\ HandedOn(i)
  BY DEF TakenOver
<1>2. /\ DamagedBlock' = DamagedBlock /\ layout' = layout /\ HeaderIsAt' = HeaderIsAt
      /\ \A k : StartOf(k)' = StartOf(k) /\ InterfacesOf(layout, k)' = InterfacesOf(layout, k)
      /\ \A k, l : PacketsOf(k, l)' = PacketsOf(k, l)
  BY <1>1, ProgressSame
<1>3. /\ i \in Nat /\ i >= 1 /\ (i + 1) - 1 = i /\ (i - 1) + 1 = i /\ Len(layout) \in Nat
      /\ i - 1 \in (1 - 1)..(Len(layout) - 1) /\ 1 \in 1..Len(layout) + 1
  BY LayoutTyped
<1>4. DamagedBlock \in Nat
  BY <1>3, DamageFound DEF DamageIsAt
<1>5. i + 1 <= DamagedBlock
  <2> DEFINE d == DamagedBlock
  <2>1. d \in Nat /\ i < d
    BY <1>4
  <2> HIDE DEF d
  <2>2. i + 1 <= d
    BY <1>3, <2>1
  <2> QED BY <2>2 DEF d
<1>6. packets' = PacketsOf(1, i) /\ ToSet(m_warnings') \subseteq Harmless
  <2>1. packets = PacketsOf(1, i - 1) /\ ToSet(m_warnings) \subseteq Harmless
    BY DEF ReadUpTo
  <2>2. IsBoth(packets', packets, PacketsIn(i)) /\ ToSet(m_warnings') \subseteq Harmless
    BY <1>1, <2>1, HandedGrows
  <2>3. IsNextPacket(1, i - 1)
    BY <1>3, PacketsNext
  <2>4. PacketsOf(1, i) = PacketsOf(1, i - 1) \o PacketsIn(i)
    BY <1>3, <2>3 DEF IsNextPacket
  <2> QED BY <2>1, <2>2, <2>4 DEF IsBoth
<1>7. Opened(i + 1)'
  <2>1. i >= 2 => i + 1 >= 2
    BY <1>3
  <2> QED BY <1>1, <1>2, <2>1 DEF Opened
<1> QED BY <1>1, <1>2, <1>3, <1>5, <1>6, <1>7 DEF ReadUpTo

\* The reader has been chosen, or has read the header of a pcap file.
LEMMA UpToBeginning ==
    ASSUME FileInv, FileWritten, ReadUpTo(1), 1 < DamagedBlock, IsBeginning, [FileNext]_readerVars
    PROVE  ReadUpTo(1)' \/ ReadUpTo(2)'
<1>1. Untouched(1)
  BY DEF Untouched
<1>2. CASE UNCHANGED readerVars
  BY <1>2, UpToStays
<1>3. CASE \/ PcapngFile(layout) /\ Open /\ status' = "pcapng"
           \/ PcapFile(layout) /\ Open /\ status' = "pcap header"
  <2>1. UNCHANGED <<fileVars, offset, interfaces, counters>>
    BY <1>3 DEF Open
  <2>2. /\ DamagedBlock' = DamagedBlock /\ layout' = layout
        /\ \A k : StartOf(k)' = StartOf(k) /\ InterfacesOf(layout, k)' = InterfacesOf(layout, k)
        /\ \A k, l : PacketsOf(k, l)' = PacketsOf(k, l)
    BY <2>1, ProgressSame
  <2>3. packets' = packets /\ m_warnings' = m_warnings /\ offset' = offset /\ interfaces' = interfaces
    BY <2>1 DEF counters
  <2>4. \/ PcapngFile(layout)' /\ status' = "pcapng"
        \/ PcapFile(layout)' /\ status' = "pcap header"
    BY <1>3, <2>2
  <2>5. \/ Opened(1)'
        \/ PcapFile(layout)' /\ status' = "pcap header"
    BY <2>4 DEF Opened
  <2> QED BY <2>2, <2>3, <2>5 DEF ReadUpTo
<1>4. CASE PcapFile(layout) /\ PcapHeader /\ HeaderIsAt /\ StartOf(2) = 8
           /\ status' = "pcap" /\ offset' = 8 /\ UNCHANGED <<fileVars, interfaces, counters>>
  <2>1. UNCHANGED fileVars
    BY <1>4
  <2>2. /\ DamagedBlock' = DamagedBlock /\ layout' = layout /\ HeaderIsAt' = HeaderIsAt
        /\ \A k : StartOf(k)' = StartOf(k) /\ InterfacesOf(layout, k)' = InterfacesOf(layout, k)
        /\ \A k, l : PacketsOf(k, l)' = PacketsOf(k, l)
    BY <2>1, ProgressSame
  <2>3. packets' = packets /\ m_warnings' = m_warnings /\ interfaces' = interfaces
    BY <1>4 DEF counters
  <2>4. layout[1].kind = "pcap" /\ 1 \in 1..Len(layout) /\ layout \in Seq(Blocks) /\ Len(layout) \in Nat
    BY <1>4, LayoutTyped, StartOfFirst DEF PcapFile
  <2>5. InterfacesOf(layout, 1) = InterfacesOf(layout, 0)
    <3>1. InterfacesOf(layout, 1) = InterfacesAfter(1)
      BY <2>4, InterfacesNext
    <3>2. InterfacesAfter(1) = InterfacesOf(layout, 1 - 1)
      BY <2>4 DEF InterfacesAfter
    <3>3. 1 - 1 = 0
      OBVIOUS
    <3> QED BY <3>1, <3>2, <3>3
  <2>6. PacketsOf(1, 1) = PacketsOf(1, 0)
    <3>1. 0 \in (1 - 1)..(Len(layout) - 1) /\ 0 \in (1 - 1)..Len(layout) /\ 1 \in 1..Len(layout) + 1
      BY <2>4
    <3>2. IsNextPacket(1, 0) /\ PacketsOf(1, 0) \in Seq(PacketRecords)
      BY <3>1, PacketsNext, PacketsTyped
    <3>3. PacketsIn(1) = <<>>
      BY <2>4 DEF PacketsIn, IsPacket
    <3>4. PacketsOf(1, 0 + 1) = PacketsOf(1, 0) \o <<>>
      BY <3>2, <3>3 DEF IsNextPacket
    <3>5. PacketsOf(1, 0) \o <<>> = PacketsOf(1, 0)
      BY <3>2
    <3> QED BY <3>4, <3>5
  <2>7. 2 <= DamagedBlock
    <3> DEFINE d == DamagedBlock
    <3>1. d \in Nat /\ 1 < d
      BY <2>4, DamageFound DEF DamageIsAt
    <3> HIDE DEF d
    <3>2. 2 <= d
      BY <3>1
    <3> QED BY <3>2 DEF d
  <2>8. Opened(2)'
    BY <1>4, <2>2 DEF Opened
  <2>9. offset' = StartOf(2)
    BY <1>4
  <2>10. interfaces = InterfacesOf(layout, 0) /\ packets = PacketsOf(1, 0) /\ ToSet(m_warnings) \subseteq Harmless
    <3>1. 1 - 1 = 0
      OBVIOUS
    <3> QED BY <3>1 DEF ReadUpTo
  <2>11. 2 - 1 = 1
    OBVIOUS
  <2> QED BY <2>2, <2>3, <2>5, <2>6, <2>7, <2>8, <2>9, <2>10, <2>11 DEF ReadUpTo
<1> QED BY <1>1, <1>2, <1>3, <1>4, BeginningIsRead

\* Everything has been read.
LEMMA UpToEnd ==
    ASSUME FileInv, FileWritten, ReadUpTo(Len(layout) + 1), [FileNext]_readerVars
    PROVE  ReadUpTo(Len(layout) + 1)'
<1> DEFINE i == Len(layout) + 1
<1>1. Len(layout) \in Nat /\ Len(layout) >= 1 /\ DamageIsAt
  BY LayoutTyped, DamageFound
<1>2. damage.kind = "none"
  <2> SUFFICES ASSUME damage.kind # "none" PROVE FALSE
    OBVIOUS
  <2> DEFINE d == DamagedBlock
  <2>1. d \in 1..Len(layout) /\ Len(layout) + 1 <= d
    BY <1>1 DEF DamageIsAt, ReadUpTo
  <2> HIDE DEF d
  <2> QED BY <1>1, <2>1
<1>3. i # 1
  BY <1>1
<1> HIDE DEF i
<1>4. /\ \/ Opened(i)
         \/ status \in {"parsed", "reported"}
      /\ ReadUpTo(i)
  BY <1>3 DEF ReadUpTo, i
<1>5. CASE UNCHANGED readerVars
  <2>1. ReadUpTo(i)'
    <3>1. layout' = layout
      BY <1>5 DEF readerVars, fileVars
    <3> QED BY <1>4, <1>5, <3>1, UpToStays DEF i
  <2> QED BY <2>1 DEF i
<1>6. CASE ~UNCHANGED readerVars
  <2>1. /\ UNCHANGED <<fileVars, offset, interfaces, counters>> /\ status' \in {"parsed", "reported"}
    <3>1. CASE Opened(i)
      <4>1. IsReader(i)
        BY <1>4, <3>1 DEF IsReader, ReadUpTo
      <4>2. EndOfFile
        BY <1>2, <1>6, <4>1, ReadToEnd DEF i
      <4> QED BY <4>2 DEF EndOfFile
    <3>2. CASE status \in {"parsed", "reported"}
      <4>1. Report
        BY <1>6, <3>2 DEF FileNext, Open, PcapHeader, NextBlock, NextRecord, EndOfFile
      <4> QED BY <4>1 DEF Report
    <3> QED BY <1>4, <3>1, <3>2
  <2>2. /\ DamagedBlock' = DamagedBlock /\ layout' = layout
        /\ \A k : StartOf(k)' = StartOf(k) /\ InterfacesOf(layout, k)' = InterfacesOf(layout, k)
        /\ \A k, l : PacketsOf(k, l)' = PacketsOf(k, l)
    BY <2>1, ProgressSame
  <2>3. packets' = packets /\ m_warnings' = m_warnings /\ offset' = offset /\ interfaces' = interfaces
    BY <2>1 DEF counters
  <2>4. i' = i
    BY <2>2 DEF i
  <2>5. /\ i <= DamagedBlock'
        /\ offset' = StartOf(i)' /\ interfaces' = InterfacesOf(layout, i - 1)'
        /\ packets' = PacketsOf(1, i - 1)' /\ ToSet(m_warnings') \subseteq Harmless
        /\ i = Len(layout)' + 1
    BY <1>4, <2>2, <2>3 DEF ReadUpTo, i
  <2> QED BY <2>1, <2>2, <2>5 DEF ReadUpTo, i
<1> QED BY <1>5, <1>6

\* Before the damage, and at the end, every step goes on as the file was written.
LEMMA UpToGoesOn ==
    ASSUME FileInv, FileWritten, NEW i \in 1..Len(layout), i < DamagedBlock, ReadUpTo(i), [FileNext]_readerVars
    PROVE  ReadUpTo(i)' \/ ReadUpTo(i + 1)' \/ ReadUpTo(1)' \/ ReadUpTo(2)'
<1>1. i # Len(layout) + 1
  <2>1. Len(layout) \in Nat
    BY LayoutTyped
  <2> QED BY <2>1
<1>2. CASE Opened(i)
  <2>1. IsReader(i) /\ Untouched(i)
    BY <1>2 DEF ReadUpTo, IsReader, Untouched
  <2>2. UNCHANGED readerVars \/ TakenOver(i)
    BY <2>1, ReadOn
  <2> QED BY <1>2, <2>2, UpToStays, UpToNext
<1>3. CASE ~Opened(i)
  <2>1. i = 1 /\ IsBeginning
    BY <1>1, <1>3 DEF ReadUpTo, IsBeginning
  <2> QED BY <2>1, UpToBeginning
<1> QED BY <1>2, <1>3

LEMMA ReportStep == ReportInv /\ [FileNext]_readerVars => ReportInv'
<1> SUFFICES ASSUME ReportInv, [FileNext]_readerVars PROVE ReportInv'
  OBVIOUS
<1>1. FileInv /\ FileWritten /\ FileInv'
  BY FileStep DEF ReportInv
<1>2. UNCHANGED fileVars
  BY DEF FileNext, readerVars, Open, NextBlock, PcapHeader, NextRecord, EndOfFile, Report
<1>3. FileWritten' /\ layout' = layout
  BY <1>1, <1>2, ProgressSame
<1>4. CASE ReadPast
  BY <1>1, <1>3, <1>4, StillPast DEF ReportInv
<1>5. ASSUME NEW i \in 1..Len(layout) + 1, ReadUpTo(i)
      PROVE  ReadPast' \/ \E k \in 1..Len(layout) + 1 : ReadUpTo(k)'
  <2>1. Len(layout) \in Nat /\ Len(layout) >= 1
    BY <1>1, LayoutTyped
  <2>2. CASE i \in 1..Len(layout) /\ ~(i < DamagedBlock)
    BY <1>1, <1>5, <2>2, AtDamage, StillPast
  <2>3. CASE i \in 1..Len(layout) /\ i < DamagedBlock
    <3>1. ReadUpTo(i)' \/ ReadUpTo(i + 1)' \/ ReadUpTo(1)' \/ ReadUpTo(2)'
      BY <1>1, <1>5, <2>3, UpToGoesOn
    <3>2. i + 1 \in 1..Len(layout) + 1 /\ 1 \in 1..Len(layout) + 1 /\ 2 \in 1..Len(layout) + 1
      BY <2>1, <2>3
    <3> QED BY <1>5, <3>1, <3>2
  <2>4. CASE i = Len(layout) + 1
    <3>1. ReadUpTo(Len(layout) + 1)'
      BY <1>1, <1>5, <2>4, UpToEnd
    <3> QED BY <1>3, <1>5, <2>4, <3>1
  <2> QED BY <2>1, <2>2, <2>3, <2>4
<1> QED BY <1>1, <1>3, <1>4, <1>5 DEF ReportInv

\* All packets before the damage of a file are reported, each once, in order,
\* with its own link type and exactly its own data, and of a file that is not
\* damaged all of them and nothing else, without a complaint about the file: for
\* every file a writer may write and every damage to it (PcapNGInputFile::parse
\* and PcapInputFile::parse).
THEOREM AllIsReported == FileSpec => []ReportedAsWritten
<1>1. ReportInv => ReportedAsWritten
  <2> SUFFICES ASSUME ReportInv, status = "reported" PROVE
                 /\ IsPrefix(PacketsOf(1, DamagedBlock - 1), packets)
                 /\ damage.kind = "none" => /\ packets = PacketsOf(1, All)
                                            /\ ToSet(m_warnings) \subseteq {"link type", "packet header"}
    BY DEF ReportedAsWritten
  <2>1. CASE ReadPast
    BY <2>1 DEF ReadPast
  <2>2. CASE \E i \in 1..Len(layout) + 1 : ReadUpTo(i)
    <3>1. PICK i \in 1..Len(layout) + 1 : ReadUpTo(i)
      BY <2>2
    <3>2. FileWritten /\ DamageIsAt /\ Len(layout) \in Nat /\ packets \in Seq(PacketRecords)
      BY LayoutTyped, DamageFound DEF ReportInv, FileInv, CountersOK
    <3>3. i = Len(layout) + 1
      BY <3>1 DEF ReadUpTo, Opened
    <3>4. DamagedBlock = Len(layout) + 1
      <4> DEFINE d == DamagedBlock
      <4>1. (d = Len(layout) + 1 \/ d \in 1..Len(layout)) /\ Len(layout) + 1 <= d
        BY <3>1, <3>2, <3>3 DEF DamageIsAt, ReadUpTo
      <4> HIDE DEF d
      <4>2. d = Len(layout) + 1
        BY <3>2, <4>1
      <4> QED BY <4>2 DEF d
    <3>5. (Len(layout) + 1) - 1 = Len(layout)
      BY <3>2
    <3>6. packets = PacketsOf(1, Len(layout)) /\ PacketsOf(1, DamagedBlock - 1) = packets
      BY <3>1, <3>3, <3>4, <3>5 DEF ReadUpTo
    <3>7. IsPrefix(packets, packets)
      BY <3>2, PrefixOfItself
    <3>8. ToSet(m_warnings) \subseteq {"link type", "packet header"}
      BY <3>1 DEF ReadUpTo, Harmless
    <3> QED BY <3>6, <3>7, <3>8 DEF All
  <2> QED BY <2>1, <2>2 DEF ReportInv
<1> QED BY <1>1, ReportStarts, ReportStep, PTL DEF FileSpec

-----------------------------------------------------------------------------
(* Damage inside a block costs no other block its packet.                   *)

\* A word inside the block is overwritten, and its framing is not.
DamageInside ==
    /\ DamagedBlock <= Len(layout)
    /\ layout[DamagedBlock].kind \in {"enhanced", "simple", "other", "record"}
    /\ InsideBlock(DamagedBlock)

LEMMA DamagedInside ==
    ASSUME FileWritten, DamageInside
    PROVE  /\ damage.kind = "word" /\ DamagedBlock \in 2..Len(layout) /\ DamagedBlock \in 1..Len(layout)
           /\ Len(layout) \in Nat /\ DamagedBlock \in Nat /\ DamagedByte < StartOf(DamagedBlock + 1)
           /\ DamagedByte \in Nat
<1> DEFINE d == DamagedBlock
<1>1. DamageIsAt /\ Len(layout) \in Nat /\ damage.kind = "word"
  BY DamageFound, LayoutTyped DEF DamageInside, InsideBlock
<1>2. d \in 1..Len(layout) /\ DamagedByte < StartOf(d + 1) /\ DamagedByte \in Nat
  BY <1>1 DEF DamageIsAt
<1>3. d # 1
  <2>1. layout[1].kind \notin {"enhanced", "simple", "other", "record"}
    BY LayoutTyped DEF PcapngFile, PcapFile
  <2> QED BY <2>1 DEF DamageInside
<1>4. d \in 2..Len(layout) /\ d \in Nat
  <2> HIDE DEF d
  <2> QED BY <1>1, <1>2, <1>3
<1> QED BY <1>1, <1>2, <1>4

\* The framing of the damaged block is still there.
LEMMA FrameIsSpared ==
    ASSUME FileWritten, DamageInside, PcapngFile(layout)
    PROVE  FrameIsAt(DamagedBlock)
<1> DEFINE d == DamagedBlock
           block == layout[d]
           e == Encoded(block)
           n == Len(BodyOf(block))
           start == StartOf(d)
           x == DamagedByte
<1>1. /\ d \in 1..Len(layout) /\ damage.kind = "word" /\ block \in Blocks /\ x \in Nat
      /\ size = 4 * Len(Written(layout))
  BY DamagedInside, LayoutTyped DEF FileWritten, Word
<1>2. block.kind \in FramedKinds /\ block.kind # "record"
  BY <1>1, KindsOfFile DEF FramedKinds
<1>3. /\ TypeOf(block) \in Nat /\ BodyOf(block) \in Seq(Nat) /\ n \in Nat
      /\ e = Framed(TypeOf(block), BodyOf(block))
  BY <1>1, <1>2, BodyTyped
<1>4. Len(e) = n + 3 /\ e[1] = TypeOf(block) /\ e[2] = 4 * (n + 3) /\ e[n + 3] = 4 * (n + 3)
  <2> DEFINE type == TypeOf(block)
             body == BodyOf(block)
  <2>1. type \in Nat /\ body \in Seq(Nat) /\ e = Framed(type, body)
    BY <1>3
  <2> HIDE DEF type, body, e
  <2>2. LET l == Len(body) IN
        Len(e) = l + 3 /\ e[1] = type /\ e[2] = 4 * (l + 3) /\ e[l + 3] = 4 * (l + 3)
    BY <2>1, FramedTyped, FramedWords
  <2> QED BY <2>2 DEF type, body
<1>5. /\ FirstWord(d) \in Nat /\ FirstWord(d + 1) = FirstWord(d) + Len(e)
      /\ FirstWord(d + 1) <= Len(Written(layout)) /\ FirstWord(d + 1) \in Nat
  BY <1>1, LayoutTyped, BlocksInOrder DEF BlockIsAt
<1>6. start = 4 * FirstWord(d) /\ StartOf(d + 1) = 4 * FirstWord(d + 1)
  BY <1>1, LayoutTyped, StartTyped
<1>7. x >= start + 2 * Word /\ x < StartOf(d + 1) - Word
  BY <1>2 DEF DamageInside, InsideBlock
<1>8. \A k \in 1..Len(e) : x # start + 4 * (k - 1) => WordAt(start + 4 * (k - 1)) = e[k]
  BY <1>1, WordIsThere
<1>9. Len(Written(layout)) \in Nat
  <2> DEFINE w == Written(layout)
  <2>1. w \in Seq(Nat)
    BY LayoutTyped, WrittenTyped
  <2> HIDE DEF w
  <2>2. Len(w) \in Nat
    BY <2>1
  <2> QED BY <2>2 DEF w
<1> HIDE DEF n, e, start, x
<1>10. /\ start \in Nat /\ StartOf(d + 1) = start + 4 * (n + 3) /\ StartOf(d + 1) <= size
  <2> DEFINE f == FirstWord(d)
             g == FirstWord(d + 1)
             w == Len(Written(layout))
  <2>1. /\ f \in Nat /\ g \in Nat /\ w \in Nat /\ n \in Nat /\ g = f + (n + 3) /\ g <= w
        /\ start = 4 * f /\ StartOf(d + 1) = 4 * g /\ size = 4 * w
    BY <1>1, <1>3, <1>4, <1>5, <1>6, <1>9
  <2> HIDE DEF d, f, g, w
  <2> QED BY <2>1
<1>11. WordAt(start) = TypeOf(block)
  <2>1. 1 \in 1..Len(e) /\ start + 4 * (1 - 1) = start /\ x # start
    BY <1>1, <1>3, <1>4, <1>7, <1>10 DEF Word
  <2> QED BY <1>4, <1>8, <2>1
<1>12. WordAt(start + 4) = 4 * (n + 3)
  <2>1. 2 \in 1..Len(e) /\ start + 4 * (2 - 1) = start + 4 /\ x # start + 4
    BY <1>1, <1>3, <1>4, <1>7, <1>10 DEF Word
  <2> QED BY <1>4, <1>8, <2>1
<1>13. WordAt(start + 4 * (n + 3) - 4) = 4 * (n + 3)
  <2>1. n + 3 \in 1..Len(e) /\ start + 4 * ((n + 3) - 1) = start + 4 * (n + 3) - 4
        /\ x # start + 4 * ((n + 3) - 1)
    BY <1>1, <1>3, <1>4, <1>7, <1>10 DEF Word
  <2> QED BY <1>4, <1>8, <2>1
<1> QED BY <1>10, <1>11, <1>12, <1>13 DEF FrameIsAt, n, start

LEMMA RecordIsSpared ==
    ASSUME FileWritten, DamageInside, PcapFile(layout)
    PROVE  RecordIsAt(DamagedBlock)
<1> DEFINE d == DamagedBlock
           block == layout[d]
           e == Encoded(block)
           o == Order(block.length)
           start == StartOf(d)
           p == block.payload
           x == DamagedByte
<1>1. /\ d \in 1..Len(layout) /\ d \in 2..Len(layout) /\ damage.kind = "word" /\ block \in Blocks /\ x \in Nat
      /\ size = 4 * Len(Written(layout))
  BY DamagedInside, LayoutTyped DEF FileWritten, Word
<1>2. block.kind = "record" /\ block.length = Word * Len(p)
  BY <1>1 DEF PcapFile
<1>3. block.length \in Nat /\ p \in Seq(Nat)
  BY <1>1 DEF Blocks
<1>4. o \in Nat
  BY <1>3, OrderTyped
<1>5. e = <<o>> \o p
  BY <1>2 DEF Encoded
<1>6. /\ FirstWord(d) \in Nat /\ FirstWord(d + 1) = FirstWord(d) + Len(e)
      /\ FirstWord(d + 1) <= Len(Written(layout)) /\ FirstWord(d + 1) \in Nat
  BY <1>1, LayoutTyped, BlocksInOrder DEF BlockIsAt
<1>7. start = 4 * FirstWord(d) /\ StartOf(d + 1) = 4 * FirstWord(d + 1)
  BY <1>1, LayoutTyped, StartTyped
<1>8. x >= start + Word
  BY <1>2 DEF DamageInside, InsideBlock
<1>9. \A k \in 1..Len(e) : x # start + 4 * (k - 1) => WordAt(start + 4 * (k - 1)) = e[k]
  BY <1>1, WordIsThere
<1>10. Len(Written(layout)) \in Nat
  <2> DEFINE w == Written(layout)
  <2>1. w \in Seq(Nat)
    BY LayoutTyped, WrittenTyped
  <2> HIDE DEF w
  <2>2. Len(w) \in Nat
    BY <2>1
  <2> QED BY <2>2 DEF w
<1> HIDE DEF o, p
<1>11. Len(e) = Len(p) + 1 /\ e[1] = o /\ Len(p) \in Nat
  BY <1>3, <1>4, <1>5, WordsFirst
<1> HIDE DEF e, start, x
<1>12. /\ start \in Nat /\ StartOf(d + 1) = start + 4 + block.length /\ StartOf(d + 1) <= size
  <2> DEFINE f == FirstWord(d)
             g == FirstWord(d + 1)
             w == Len(Written(layout))
             l == Len(p)
             m == block.length
             t == StartOf(d + 1)
  <2>1. /\ f \in Nat /\ g = f + (l + 1) /\ g <= w /\ w \in Nat /\ l \in Nat /\ m = 4 * l
        /\ start = 4 * f /\ t = 4 * g /\ size = 4 * w
    BY <1>1, <1>2, <1>6, <1>7, <1>10, <1>11 DEF p, Word
  <2> HIDE DEF d, f, g, w, l, m, t
  <2>2. start \in Nat /\ t = start + 4 + m /\ t <= size
    BY <2>1
  <2> QED BY <2>2 DEF t, m
<1>13. WordAt(start) = o
  <2>1. 1 \in 1..Len(e) /\ start + 4 * (1 - 1) = start /\ x # start
    BY <1>1, <1>8, <1>11, <1>12 DEF Word
  <2> QED BY <1>9, <1>11, <2>1
<1> QED BY <1>12, <1>13 DEF RecordIsAt, start, o

\* What is taken for the packet of a block.
IsInBlock(p, i) == p \in PacketRecords /\ p.at >= StartOf(i) /\ p.at + p.length <= StartOf(i + 1)

\* The damaged block is passed, with a packet or without.
PassedBlock(i) ==
    /\ UNCHANGED <<fileVars, status>> /\ offset' = StartOf(i + 1)
    /\ interfaces' = InterfacesOf(layout, i)
    /\ packets' = packets \/ \E p : IsInBlock(p, i) /\ packets' = Append(packets, p)

LEMMA BlockPassed ==
    ASSUME FileInv, FileWritten, DamageInside, PcapngFile(layout), IsReader(DamagedBlock), NextBlock
    PROVE  PassedBlock(DamagedBlock)
<1> DEFINE d == DamagedBlock
           block == layout[d]
           n == Len(BodyOf(block))
           start == StartOf(d)
<1>1. d \in 1..Len(layout) /\ block \in Blocks /\ layout \in Seq(Blocks) /\ d - 1 \in 0..Len(layout)
  BY DamagedInside, LayoutTyped
<1>2. block.kind \in FramedKinds /\ block.kind \in {"enhanced", "simple", "other"}
  BY <1>1, KindsOfFile DEF FramedKinds, DamageInside
<1>3. offset = start /\ interfaces = InterfacesOf(layout, d - 1)
  BY DEF IsReader
<1>4. FrameIsAt(d)
  BY FrameIsSpared
<1>5. /\ offset' = StartOf(d + 1) /\ status' = status /\ UNCHANGED fileVars
      /\ block.kind = "enhanced" => EnhancedBlock /\ UNCHANGED interfaces
      /\ block.kind = "simple" => SimpleBlock /\ UNCHANGED interfaces
      /\ block.kind = "other" => UNCHANGED <<interfaces, counters>>
  BY <1>1, <1>2, <1>3, <1>4, BlockGoesOn
<1>6. /\ n \in Nat /\ offset \in Nat /\ offset < size /\ BlockLength = 4 * (n + 3)
      /\ Body = offset + 8 /\ BodyLength = 4 * n /\ size \in Nat
      /\ StartOf(d + 1) = offset + 4 * (n + 3) /\ StartOf(d + 1) <= size
  BY <1>1, <1>2, <1>3, <1>4, FrameIsRead
<1>7. interfaces' = InterfacesOf(layout, d)
  <2>1. InterfacesOf(layout, d) = InterfacesOf(layout, d - 1)
    BY <1>1, <1>2, InterfacesNext DEF InterfacesAfter
  <2> QED BY <1>2, <1>3, <1>5, <2>1
<1>8. packets \in Seq(PacketRecords) /\ packets' \in Seq(PacketRecords)
  <2>1. FileInv'
    BY BlockKept
  <2> QED BY <2>1 DEF FileInv, CountersOK
\* A packet of the length "length" that ends in the body.
<1>9. ASSUME NEW link, NEW at \in Nat, NEW length, at >= offset, ProcessPacket(link, at, length),
             length \in Nat => at + length <= offset + 8 + 4 * n
      PROVE  \E p : IsInBlock(p, d) /\ packets' = Append(packets, p)
  <2> DEFINE p == [link |-> link, at |-> at, length |-> length]
  <2>1. packets' = Append(packets, p)
    BY <1>9 DEF ProcessPacket
  <2>2. p.at = at /\ p.length = length
    OBVIOUS
  <2> HIDE DEF p
  <2>3. p \in PacketRecords
    BY <1>8, <2>1, AppendedIsTyped
  <2>4. length \in Nat
    BY <2>2, <2>3 DEF PacketRecords
  <2>5. p.at >= start /\ p.at + p.length <= StartOf(d + 1)
    <3> HIDE DEF n, start
    <3>1. at + length <= offset + 8 + 4 * n
      BY <1>9, <2>4
    <3> QED BY <1>3, <1>6, <1>9, <2>2, <2>4, <3>1
  <2> QED BY <2>1, <2>3, <2>5 DEF IsInBlock
<1> HIDE DEF n
<1>10. packets' = packets \/ \E p : IsInBlock(p, d) /\ packets' = Append(packets, p)
  <2>1. CASE \E warning : Warn(warning)
    BY <2>1 DEF Warn
  <2>2. CASE block.kind = "other"
    BY <1>5, <2>2 DEF counters
  <2>3. CASE block.kind = "enhanced" /\ ~\E warning : Warn(warning)
    <3> DEFINE id == WordAt(Body)
               captured == WordAt(Body + Word)
    <3>1. ~(BodyLength < 2 * Word) /\ ~Overruns(captured)
          /\ ProcessPacket(interfaces[id + 1].link, Body + 2 * Word, captured)
      BY <1>5, <2>3 DEF EnhancedBlock
    <3>2. Body + 2 * Word \in Nat /\ Body + 2 * Word >= offset
      BY <1>6 DEF Word
    <3> HIDE DEF captured
    <3>3. captured \in Nat => (Body + 2 * Word) + captured <= offset + 8 + 4 * n
      BY <1>6, <3>1 DEF Overruns, Word
    <3> QED BY <1>9, <3>1, <3>2, <3>3
  <2>4. CASE block.kind = "simple" /\ ~\E warning : Warn(warning)
    <3> DEFINE snaplen == interfaces[1].snaplen
               length == Captured(WordAt(Body), snaplen)
               S == {WordAt(Body), BodyLength - Word} \cup (IF snaplen # 0 THEN {snaplen} ELSE {})
    <3>1. ~(BodyLength < Word) /\ interfaces # <<>> /\ ProcessPacket(interfaces[1].link, Body + Word, length)
      BY <1>5, <2>4 DEF SimpleBlock
    <3>2. Body + Word \in Nat /\ Body + Word >= offset /\ Body \in Nat /\ Body < size /\ BodyLength - Word \in Nat
      BY <1>6, <3>1 DEF Word
    <3>3. WordAt(Body) \in Nat
      BY <3>2, WordsAreNumbers DEF FileInv
    <3>4. snaplen \in Nat
      <4>1. interfaces \in Seq(InterfaceRecords)
        BY DEF FileInv, ReaderOK
      <4>2. 1 \in 1..Len(interfaces)
        BY <3>1, <4>1
      <4> QED BY <4>1, <4>2, InterfaceTyped
    <3>5. length = Min(S)
      BY DEF Captured
    <3> HIDE DEF snaplen, length
    <3>6. S \in SUBSET Nat /\ S # {} /\ BodyLength - Word \in S
      BY <3>2, <3>3, <3>4
    <3> HIDE DEF S
    <3>7. length <= BodyLength - Word
      BY <3>5, <3>6, LeastIsMember
    <3>8. length \in Nat => (Body + Word) + length <= offset + 8 + 4 * n
      BY <1>6, <3>7 DEF Word
    <3> QED BY <1>9, <3>1, <3>2, <3>8
  <2> QED BY <1>2, <2>1, <2>2, <2>3, <2>4
<1> QED BY <1>5, <1>7, <1>10 DEF PassedBlock

LEMMA RecordPassed ==
    ASSUME FileInv, FileWritten, DamageInside, PcapFile(layout), HeaderIsAt, IsReader(DamagedBlock), NextRecord
    PROVE  PassedBlock(DamagedBlock)
<1> DEFINE d == DamagedBlock
<1>1. d \in 2..Len(layout) /\ d \in 1..Len(layout) /\ layout[d] \in Blocks
  BY DamagedInside, LayoutTyped
<1>2. RecordIsAt(d)
  BY RecordIsSpared
<1>3. TakenOver(d)
  BY <1>1, <1>2, RecordTakenOver DEF IsReader
<1>4. layout[d].kind = "record" /\ IsPacket(d)
  BY <1>1 DEF PcapFile, IsPacket
<1> DEFINE p == PacketOf(d)
<1>5. p \in PacketRecords /\ PacketsIn(d) = <<p>>
  BY <1>1, <1>4, PacketTyped DEF PacketsIn
<1>6. p.at = StartOf(d) + Word * 1 /\ p.length = layout[d].length
  BY <1>4 DEF PacketOf
<1> HIDE DEF p
<1>7. packets' = Append(packets, p)
  <2>1. IsBoth(packets', packets, PacketsIn(d))
    BY <1>1, <1>3, HandedGrows DEF TakenOver
  <2>2. packets' = packets \o <<p>> /\ packets \in Seq(PacketRecords)
    BY <1>5, <2>1 DEF IsBoth, FileInv, CountersOK
  <2> QED BY <1>5, <2>2
<1>8. IsInBlock(p, d)
  <2>1. layout[d].length \in Nat
    BY <1>1 DEF Blocks
  <2> DEFINE a == StartOf(d)
             b == StartOf(d + 1)
             l == layout[d].length
  <2>2. a \in Nat /\ b = a + 4 + l /\ p.at = a + 4 /\ p.length = l /\ l \in Nat
    BY <1>2, <1>6, <2>1 DEF RecordIsAt, Word
  <2> HIDE DEF a, b, l
  <2>3. p.at >= a /\ p.at + p.length <= b
    BY <2>2
  <2> QED BY <1>5, <2>3 DEF IsInBlock, a, b
<1> QED BY <1>3, <1>7, <1>8 DEF PassedBlock, TakenOver

\* How far the program is, beyond the damaged block: "some" is what that was taken for.
SomePacket(some) ==
    \/ some = <<>>
    \/ \E p : IsInBlock(p, DamagedBlock) /\ some = <<p>>

ReadBeyond(j, some) ==
    /\ offset = StartOf(j) /\ interfaces = InterfacesOf(layout, j - 1)
    /\ packets = PacketsOf(1, DamagedBlock - 1) \o some \o PacketsOf(DamagedBlock + 1, j - 1)
    /\ Opened(j) \/ (j = Len(layout) + 1 /\ status \in {"parsed", "reported"})

IsBeyond(j) == \E some : SomePacket(some) /\ ReadBeyond(j, some)

LocalInv ==
    /\ FileInv /\ FileWritten
    /\ DamageInside => \/ \E i \in 1..Len(layout) + 1 : ReadUpTo(i)
                       \/ \E j \in DamagedBlock + 1..Len(layout) + 1 : IsBeyond(j)

LEMMA InsideSame ==
    ASSUME UNCHANGED fileVars
    PROVE  /\ DamageInside' = DamageInside
           /\ \A i, p : IsInBlock(p, i)' = IsInBlock(p, i)
           /\ \A some : SomePacket(some)' = SomePacket(some)
<1>1. /\ layout' = layout /\ damage' = damage /\ DamagedBlock' = DamagedBlock /\ DamagedByte' = DamagedByte
      /\ \A i : StartOf(i)' = StartOf(i)
  BY FileStaysWritten
<1>2. \A i : InsideBlock(i)' = InsideBlock(i)
  BY <1>1 DEF InsideBlock
<1>3. DamageInside' = DamageInside
  BY <1>1, <1>2 DEF DamageInside
<1>4. \A i, p : IsInBlock(p, i)' = IsInBlock(p, i)
  BY <1>1 DEF IsInBlock
<1>5. \A some : SomePacket(some)' = SomePacket(some)
  BY <1>1, <1>4 DEF SomePacket
<1> QED BY <1>3, <1>4, <1>5

\* The packets before, in and after the damaged block.
LEMMA ThreeParts ==
    ASSUME FileWritten, DamageInside, NEW some, SomePacket(some), NEW j \in DamagedBlock + 1..Len(layout) + 1
    PROVE  /\ PacketsOf(1, DamagedBlock - 1) \in Seq(PacketRecords) /\ some \in Seq(PacketRecords)
           /\ PacketsOf(DamagedBlock + 1, j - 1) \in Seq(PacketRecords)
<1> DEFINE d == DamagedBlock
           l == Len(layout)
<1>1. d \in 2..l /\ l \in Nat /\ d \in Nat
  BY DamagedInside
<1>2. some \in Seq(PacketRecords)
  <2>1. CASE some = <<>>
    BY <2>1
  <2>2. CASE \E p : IsInBlock(p, DamagedBlock) /\ some = <<p>>
    <3>1. PICK p : p \in PacketRecords /\ some = <<p>>
      BY <2>2 DEF IsInBlock
    <3> QED BY <3>1
  <2> QED BY <2>1, <2>2 DEF SomePacket
<1> HIDE DEF d, l
<1>3. /\ 1 \in 1..l + 1 /\ d - 1 \in (1 - 1)..l /\ d + 1 \in 1..l + 1 /\ j - 1 \in ((d + 1) - 1)..l
  <2>1. j \in d + 1..l + 1
    BY DEF d, l
  <2> QED BY <1>1, <2>1
<1>4. PacketsOf(1, d - 1) \in Seq(PacketRecords)
  BY <1>3, PacketsTyped DEF l
<1>5. PacketsOf(d + 1, j - 1) \in Seq(PacketRecords)
  BY <1>3, PacketsTyped DEF l
<1> QED BY <1>2, <1>4, <1>5 DEF d

\* The step past the damaged block.
LEMMA ReadDamaged ==
    ASSUME FileInv, FileWritten, DamageInside, ReadUpTo(DamagedBlock), [FileNext]_readerVars,
           NEW j, j = DamagedBlock + 1
    PROVE  UNCHANGED readerVars \/ IsBeyond(j)'
<1> DEFINE d == DamagedBlock
<1>1. /\ d \in 2..Len(layout) /\ d \in 1..Len(layout) /\ Len(layout) \in Nat /\ d \in Nat
      /\ d # 1 /\ d # Len(layout) + 1 /\ layout[d] \in Blocks /\ size \in Nat
  <2>1. d \in 2..Len(layout) /\ d \in 1..Len(layout) /\ Len(layout) \in Nat /\ d \in Nat
    BY DamagedInside
  <2>2. d # 1 /\ d # Len(layout) + 1
    <3> HIDE DEF d
    <3> QED BY <2>1
  <2> QED BY <2>1, <2>2, LayoutTyped, FileIsTyped DEF FileOK
<1>2. Opened(d) /\ IsReader(d) /\ packets = PacketsOf(1, d - 1)
  BY <1>1 DEF ReadUpTo, IsReader
<1>3. UNCHANGED readerVars \/ PassedBlock(d)
  <2>1. CASE PcapngFile(layout) /\ status = "pcapng"
    <3>1. layout[d].kind \in FramedKinds /\ layout[d].kind # "section"
      BY <1>1, <2>1, KindsOfFile DEF FramedKinds, DamageInside
    <3>2. offset < size /\ offset \in Nat
      BY <1>1, <1>2, <2>1, <3>1, FrameIsSpared, FrameIsRead DEF IsReader
    <3>3. UNCHANGED readerVars \/ NextBlock
      <4>1. ~EndOfFile
        BY <1>1, <3>2 DEF EndOfFile
      <4> QED BY <2>1, <4>1 DEF FileNext, Open, PcapHeader, NextRecord, Report
    <3> QED BY <1>2, <2>1, <3>3, BlockPassed
  <2>2. CASE PcapFile(layout) /\ status = "pcap" /\ HeaderIsAt
    <3>1. RecordIsAt(d)
      BY <2>2, RecordIsSpared
    <3>2. offset < size /\ offset \in Nat
      <4>1. layout[d].length \in Nat
        BY <1>1 DEF Blocks
      <4> DEFINE a == StartOf(d)
                 b == StartOf(d + 1)
                 n == layout[d].length
      <4>2. a \in Nat /\ b = a + 4 + n /\ b <= size /\ n \in Nat /\ offset = a
        BY <1>2, <3>1, <4>1 DEF RecordIsAt, IsReader
      <4> HIDE DEF a, b, n
      <4> QED BY <1>1, <4>2
    <3>3. UNCHANGED readerVars \/ NextRecord
      <4>1. ~EndOfFile
        BY <1>1, <3>2 DEF EndOfFile
      <4> QED BY <2>2, <4>1 DEF FileNext, Open, PcapHeader, NextBlock, Report
    <3> QED BY <1>2, <2>2, <3>3, RecordPassed
  <2> QED BY <1>2, <2>1, <2>2 DEF Opened
<1>4. ASSUME PassedBlock(d) PROVE IsBeyond(j)'
  <2>1. UNCHANGED <<fileVars, status>> /\ offset' = StartOf(d + 1) /\ interfaces' = InterfacesOf(layout, d)
    BY <1>4 DEF PassedBlock
  <2>2. /\ DamagedBlock' = DamagedBlock /\ layout' = layout /\ HeaderIsAt' = HeaderIsAt
        /\ \A k : StartOf(k)' = StartOf(k) /\ InterfacesOf(layout, k)' = InterfacesOf(layout, k)
        /\ \A k, l : PacketsOf(k, l)' = PacketsOf(k, l)
        /\ \A some : SomePacket(some)' = SomePacket(some)
    BY <2>1, ProgressSame, InsideSame
  <2>3. PacketsOf(1, d - 1) \in Seq(PacketRecords)
    <3>1. packets \in Seq(PacketRecords)
      BY DEF FileInv, CountersOK
    <3> QED BY <1>2, <3>1
  <2>4. PacketsOf(d + 1, (d + 1) - 1) = <<>>
    <3>1. d + 1 \in Nat /\ (d + 1) - 1 \in Nat /\ (d + 1) - 1 < d + 1
      <4> HIDE DEF d
      <4> QED BY <1>1
    <3> QED BY <3>1, PacketsOfNone
  <2>5. PICK some : SomePacket(some) /\ packets' = PacketsOf(1, d - 1) \o some \o PacketsOf(d + 1, (d + 1) - 1)
    <3> DEFINE s == PacketsOf(1, d - 1)
    <3>1. s \in Seq(PacketRecords) /\ packets = s
      BY <1>2, <2>3
    <3> HIDE DEF s
    <3>2. CASE packets' = packets
      <4>1. s = s \o <<>> \o <<>>
        BY <3>1
      <4>2. SomePacket(<<>>)
        BY DEF SomePacket
      <4> QED BY <2>4, <3>1, <3>2, <4>1, <4>2 DEF s
    <3>3. CASE \E p : IsInBlock(p, d) /\ packets' = Append(packets, p)
      <4>1. PICK p : IsInBlock(p, d) /\ packets' = Append(packets, p)
        BY <3>3
      <4>2. p \in PacketRecords /\ SomePacket(<<p>>)
        BY <4>1 DEF IsInBlock, SomePacket
      <4>3. Append(s, p) = s \o <<p>> \o <<>>
        BY <3>1, <4>2
      <4> QED BY <2>4, <3>1, <4>1, <4>2, <4>3 DEF s
    <3> QED BY <1>4, <3>2, <3>3 DEF PassedBlock
  <2>6. Opened(j)'
    <3>1. j >= 2
      <4>1. j = d + 1
        OBVIOUS
      <4> HIDE DEF d
      <4> QED BY <1>1, <4>1
    <3> QED BY <1>2, <2>1, <2>2, <3>1 DEF Opened
  <2>7. j - 1 = d
    <3>1. j = d + 1
      OBVIOUS
    <3> HIDE DEF d
    <3> QED BY <1>1, <3>1
  <2>8. /\ offset' = StartOf(j)' /\ interfaces' = InterfacesOf(layout, d)'
        /\ packets' = PacketsOf(1, d - 1)' \o some \o PacketsOf(d + 1, j - 1)'
        /\ d' = d /\ Opened(j)'
    BY <2>1, <2>2, <2>5, <2>6
  <2>9. ReadBeyond(j, some)'
    BY <2>2, <2>7, <2>8 DEF ReadBeyond
  <2>10. SomePacket(some)'
    BY <2>2, <2>5
  <2> QED BY <2>9, <2>10 DEF IsBeyond
<1> QED BY <1>3, <1>4

\* A step beyond it.
LEMMA ReadOnBeyond ==
    ASSUME FileInv, FileWritten, DamageInside, NEW j \in DamagedBlock + 1..Len(layout) + 1, IsBeyond(j),
           [FileNext]_readerVars
    PROVE  \E k \in DamagedBlock + 1..Len(layout) + 1 : IsBeyond(k)'
<1> DEFINE d == DamagedBlock
           l == Len(layout)
<1>1. d \in 2..l /\ l \in Nat /\ d \in Nat /\ damage.kind = "word" /\ d \in 1..l
  BY DamagedInside
<1>2. PICK some : SomePacket(some) /\ ReadBeyond(j, some)
  BY DEF IsBeyond
<1>3. UNCHANGED fileVars
  BY DEF FileNext, readerVars, Open, NextBlock, PcapHeader, NextRecord, EndOfFile, Report
<1>4. /\ DamagedBlock' = DamagedBlock /\ layout' = layout /\ HeaderIsAt' = HeaderIsAt
      /\ \A k : StartOf(k)' = StartOf(k) /\ InterfacesOf(layout, k)' = InterfacesOf(layout, k)
      /\ \A k, m : PacketsOf(k, m)' = PacketsOf(k, m)
      /\ SomePacket(some)'
  BY <1>2, <1>3, ProgressSame, InsideSame
<1>5. /\ j \in d + 1..l + 1 /\ j \in Nat /\ j # d /\ j >= 2
      /\ (j + 1) - 1 = j /\ (j - 1) + 1 = j
  <2>1. j \in d + 1..l + 1
    OBVIOUS
  <2> HIDE DEF d, l
  <2> QED BY <1>1, <2>1
<1>6. /\ offset = StartOf(j) /\ interfaces = InterfacesOf(layout, j - 1)
      /\ packets = PacketsOf(1, d - 1) \o some \o PacketsOf(d + 1, j - 1)
      /\ Opened(j) \/ (j = l + 1 /\ status \in {"parsed", "reported"})
  BY <1>2 DEF ReadBeyond
<1>7. CASE UNCHANGED readerVars
  <2>1. offset' = offset /\ interfaces' = interfaces /\ packets' = packets /\ status' = status
    BY <1>7 DEF readerVars, counters
  <2>2. Opened(j)' = Opened(j)
    BY <1>4, <2>1 DEF Opened
  <2>3. ReadBeyond(j, some)'
    BY <1>4, <1>6, <2>1, <2>2 DEF ReadBeyond
  <2> QED BY <1>4, <2>3 DEF IsBeyond
<1>8. CASE ~UNCHANGED readerVars /\ j = l + 1
  <2>1. UNCHANGED <<fileVars, offset, interfaces, counters>> /\ status' \in {"parsed", "reported"}
    <3>1. CASE Opened(j)
      <4>1. IsReader(j)
        BY <1>6, <3>1 DEF IsReader
      <4>2. EndOfFile
        BY <1>1, <1>8, <4>1, ReadToEnd
      <4> QED BY <4>2 DEF EndOfFile
    <3>2. CASE status \in {"parsed", "reported"}
      <4>1. Report
        BY <1>8, <3>2 DEF FileNext, Open, PcapHeader, NextBlock, NextRecord, EndOfFile
      <4> QED BY <4>1 DEF Report
    <3> QED BY <1>6, <3>1, <3>2
  <2>2. offset' = offset /\ interfaces' = interfaces /\ packets' = packets
    BY <2>1 DEF counters
  <2>3. ReadBeyond(j, some)'
    BY <1>4, <1>6, <1>8, <2>1, <2>2 DEF ReadBeyond
  <2> QED BY <1>4, <2>3 DEF IsBeyond
<1>9. CASE ~UNCHANGED readerVars /\ j # l + 1
  <2>1. /\ j \in 1..l /\ j + 1 \in d + 1..l + 1 /\ d + 1 \in 1..l + 1
        /\ j - 1 \in ((d + 1) - 1)..(l - 1)
    <3> HIDE DEF d, l
    <3> QED BY <1>1, <1>5, <1>9
  <2>2. Opened(j) /\ IsReader(j) /\ Untouched(j)
    BY <1>1, <1>5, <1>6, <1>9 DEF IsReader, Untouched
  <2>3. TakenOver(j)
    BY <1>9, <2>1, <2>2, ReadOn
  <2>4. UNCHANGED status /\ offset' = StartOf(j + 1) /\ interfaces' = InterfacesOf(layout, j)
    BY <2>3 DEF TakenOver
  <2> DEFINE a == PacketsOf(1, d - 1)
             b == PacketsOf(d + 1, j - 1)
             c == PacketsOf(d + 1, j)
             x == PacketsIn(j)
  <2>5. a \in Seq(PacketRecords) /\ some \in Seq(PacketRecords) /\ b \in Seq(PacketRecords)
    BY <1>2, ThreeParts
  <2>6. x \in Seq(PacketRecords)
    BY <2>1, PacketTyped
  <2>7. IsBoth(packets', packets, x)
    BY <2>1, <2>3, HandedGrows DEF TakenOver
  <2>8. c = b \o x
    <3>1. IsNextPacket(d + 1, j - 1)
      BY <2>1, PacketsNext
    <3> QED BY <1>5, <3>1 DEF IsNextPacket
  <2>9. packets = (a \o some) \o b
    BY <1>6
  <2> HIDE DEF a, b, c, x
  <2>10. packets' = (a \o some) \o c
    <3> DEFINE e == a \o some
    <3>1. e \in Seq(PacketRecords)
      BY <2>5, ConcatFirst
    <3>2. packets = e \o b
      BY <2>9
    <3> HIDE DEF e
    <3>3. JoinsEitherWay(e, b, x)
      BY <2>5, <2>6, <3>1, ConcatThree
    <3>4. packets' = e \o c
      BY <2>7, <2>8, <3>2, <3>3 DEF IsBoth, JoinsEitherWay
    <3> QED BY <3>4 DEF e
  <2>11. Opened(j + 1)'
    <3>1. j + 1 >= 2
      BY <1>5
    <3> QED BY <1>4, <2>2, <2>4, <3>1 DEF Opened
  <2> DEFINE k == j + 1
  <2>12. /\ offset' = StartOf(k)' /\ interfaces' = InterfacesOf(layout, j)' /\ k - 1 = j
         /\ packets' = PacketsOf(1, d - 1)' \o some \o PacketsOf(d + 1, j)'
         /\ d' = d /\ Opened(k)' /\ k \in d + 1..l + 1
    BY <1>4, <1>5, <2>1, <2>4, <2>10, <2>11 DEF a, c
  <2> HIDE DEF k
  <2>13. ReadBeyond(k, some)'
    BY <2>12 DEF ReadBeyond
  <2>14. IsBeyond(k)'
    BY <1>4, <2>13 DEF IsBeyond
  <2> QED BY <2>12, <2>14
<1> QED BY <1>7, <1>8, <1>9

LEMMA LocalStarts == FileInit => LocalInv
BY ReportStarts, FileStartsUpTo DEF LocalInv, ReportInv

LEMMA LocalStep == LocalInv /\ [FileNext]_readerVars => LocalInv'
<1> SUFFICES ASSUME LocalInv, [FileNext]_readerVars PROVE LocalInv'
  OBVIOUS
<1>1. FileInv /\ FileWritten /\ FileInv'
  BY FileStep DEF LocalInv
<1>2. UNCHANGED fileVars
  BY DEF FileNext, readerVars, Open, NextBlock, PcapHeader, NextRecord, EndOfFile, Report
<1>3. FileWritten' /\ layout' = layout /\ DamagedBlock' = DamagedBlock /\ DamageInside' = DamageInside
  BY <1>1, <1>2, ProgressSame, InsideSame
<1>4. ASSUME DamageInside
      PROVE  \/ \E i \in 1..Len(layout) + 1 : ReadUpTo(i)'
             \/ \E j \in DamagedBlock + 1..Len(layout) + 1 : IsBeyond(j)'
  <2> DEFINE d == DamagedBlock
             l == Len(layout)
  <2>1. d \in 2..l /\ d \in 1..l /\ l \in Nat /\ d \in Nat
    BY <1>1, <1>4, DamagedInside
  <2>2. CASE \E j \in d + 1..l + 1 : IsBeyond(j)
    BY <1>1, <1>4, <2>2, ReadOnBeyond
  <2>3. ASSUME NEW i \in 1..l + 1, ReadUpTo(i)
        PROVE  \/ \E k \in 1..l + 1 : ReadUpTo(k)'
               \/ \E j \in d + 1..l + 1 : IsBeyond(j)'
    <3>1. i <= d
      BY <2>3 DEF ReadUpTo
    <3>2. i \in 1..l /\ (i = d \/ i < d) /\ i # l + 1 /\ d + 1 \in d + 1..l + 1
      <4> HIDE DEF d, l
      <4> QED BY <2>1, <2>3, <3>1
    <3>3. CASE i = d
      <4>1. PICK j : j = d + 1
        OBVIOUS
      <4>2. UNCHANGED readerVars \/ IsBeyond(j)'
        BY <1>1, <1>4, <2>3, <3>3, <4>1, ReadDamaged
      <4> QED BY <2>3, <3>2, <4>1, <4>2, UpToStays
    <3>4. CASE i < d
      <4>1. ReadUpTo(i)' \/ ReadUpTo(i + 1)' \/ ReadUpTo(1)' \/ ReadUpTo(2)'
        BY <1>1, <2>3, <3>2, <3>4, UpToGoesOn
      <4>2. i + 1 \in 1..l + 1 /\ 1 \in 1..l + 1 /\ 2 \in 1..l + 1
        <5> QED BY <2>1, <3>2
      <4>3. \E k \in 1..l + 1 : ReadUpTo(k)'
        <5> HIDE DEF d, l
        <5>1. CASE ReadUpTo(i)'
          BY <2>3, <5>1
        <5>2. CASE ReadUpTo(i + 1)'
          BY <4>2, <5>2
        <5>3. CASE ReadUpTo(1)' \/ ReadUpTo(2)'
          BY <4>2, <5>3
        <5> QED BY <4>1, <5>1, <5>2, <5>3
      <4> QED BY <4>3
    <3> QED BY <3>2, <3>3, <3>4
  <2> QED BY <1>4, <2>2, <2>3 DEF LocalInv
<1> QED BY <1>1, <1>3, <1>4 DEF LocalInv

\* A word overwritten inside a block costs at most the packet of that block: all
\* others are reported as they were written, before it and after it, and what
\* is taken for its data is inside the block, whatever the word says
\* (the bounds of PcapNGInputFile::parse and PcapInputFile::parse).
THEOREM DamageStaysLocal == FileSpec => []DamageIsLocal
<1>1. LocalInv => DamageIsLocal
  <2> DEFINE i == DamagedBlock
  <2> SUFFICES ASSUME LocalInv, status = "reported", i <= All,
                      layout[i].kind \in {"enhanced", "simple", "other", "record"}, InsideBlock(i)
               PROVE  \E some \in {<<>>} \cup {<<p>> : p \in ToSet(packets)} :
                         /\ packets = PacketsOf(1, i - 1) \o some \o PacketsOf(i + 1, All)
                         /\ \A p \in ToSet(some) : p.at >= StartOf(i) /\ p.at + p.length <= StartOf(i + 1)
    BY DEF DamageIsLocal
  <2>1. DamageInside /\ FileWritten /\ packets \in Seq(PacketRecords)
    BY DEF DamageInside, All, LocalInv, FileInv, CountersOK
  <2>2. Len(layout) \in Nat /\ i \in Nat /\ i \in 2..Len(layout)
    BY <2>1, DamagedInside
  <2>3. ~\E k \in 1..Len(layout) + 1 : ReadUpTo(k)
    <3> SUFFICES ASSUME NEW k \in 1..Len(layout) + 1, ReadUpTo(k) PROVE FALSE
      OBVIOUS
    <3>1. k = Len(layout) + 1 /\ k <= i
      BY DEF ReadUpTo, Opened
    <3> HIDE DEF i
    <3> QED BY <2>2, <3>1
  <2>4. \E j \in i + 1..Len(layout) + 1 : IsBeyond(j)
    BY <2>1, <2>3 DEF LocalInv
  <2>4a. PICK j \in i + 1..Len(layout) + 1 : IsBeyond(j)
    BY <2>4
  <2>4b. PICK some : SomePacket(some) /\ ReadBeyond(j, some)
    BY <2>4a DEF IsBeyond
  <2>5. j = Len(layout) + 1
    BY <2>4b DEF ReadBeyond, Opened
  <2> DEFINE a == PacketsOf(1, i - 1)
             b == PacketsOf(i + 1, All)
  <2>6. packets = a \o some \o b
    <3>1. (Len(layout) + 1) - 1 = All
      BY <2>2 DEF All
    <3> QED BY <2>4b, <2>5, <3>1 DEF ReadBeyond
  <2>7. a \in Seq(PacketRecords) /\ some \in Seq(PacketRecords) /\ b \in Seq(PacketRecords)
    <3>1. j - 1 = All
      BY <2>2, <2>5 DEF All
    <3> QED BY <2>1, <2>4b, <3>1, ThreeParts
  <2> HIDE DEF a, b
  <2>8. CASE some = <<>>
    <3>1. ToSet(some) = {}
      BY <2>8 DEF ToSet
    <3> QED BY <2>6, <2>8, <3>1 DEF a, b
  <2>9. CASE \E p : IsInBlock(p, i) /\ some = <<p>>
    <3>1. PICK p : IsInBlock(p, i) /\ some = <<p>>
      BY <2>9
    <3>2. ToSet(some) = {p}
      BY <3>1 DEF ToSet
    <3>3. p \in ToSet(packets)
      <4> DEFINE e == a \o some
                 n == Len(a) + 1
      <4>1. e \in Seq(PacketRecords) /\ Len(e) = Len(a) + Len(some)
            /\ \A k \in 1..Len(some) : e[Len(a) + k] = some[k]
        BY <2>7, ConcatFirst, ConcatSecond
      <4>2. Len(some) = 1 /\ some[1] = p /\ Len(a) \in Nat
        BY <2>7, <3>1
      <4>3. n \in 1..Len(e) /\ e[n] = p
        BY <4>1, <4>2
      <4> HIDE DEF e, n
      <4>4. packets = e \o b
        BY <2>6 DEF e
      <4>5. Len(e \o b) = Len(e) + Len(b) /\ \A k \in 1..Len(e) : (e \o b)[k] = e[k]
        <5>1. e \in Seq(PacketRecords) /\ b \in Seq(PacketRecords)
          BY <2>7, <4>1
        <5> QED BY <5>1, ConcatFirst
      <4>6. n \in DOMAIN packets /\ packets[n] = p
        <5>1. Len(e) \in Nat /\ Len(b) \in Nat /\ DOMAIN packets = 1..Len(packets)
          BY <2>1, <2>7, <4>1
        <5> QED BY <4>3, <4>4, <4>5, <5>1
      <4> QED BY <4>6 DEF ToSet
    <3>4. \A q \in ToSet(some) : q.at >= StartOf(i) /\ q.at + q.length <= StartOf(i + 1)
      BY <3>1, <3>2 DEF IsInBlock
    <3>5. some \in {<<q>> : q \in ToSet(packets)}
      BY <3>1, <3>3
    <3> QED BY <2>6, <3>4, <3>5 DEF a, b
  <2> QED BY <2>4b, <2>8, <2>9 DEF SomePacket
<1> QED BY <1>1, LocalStarts, LocalStep, PTL DEF FileSpec
=============================================================================
