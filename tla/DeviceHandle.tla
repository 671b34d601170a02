---------------------------- MODULE DeviceHandle ----------------------------
(***************************************************************************)
(* DeviceHandle (src/file/InputFile.h, InputFile.cpp): the part of demuxusb *)
(* that pairs the submission and the completion events of the USB transfers *)
(* on one device address, picks the event that carried the payload, and    *)
(* splits the address's traffic into device sessions.                      *)
(*                                                                         *)
(* Each public method is an operator taking the method's arguments; Spec   *)
(* calls them in any order with any arguments, which is what a damaged     *)
(* capture does to the class.  UsbCapture calls them the way a USB host    *)
(* controller and a capture tool do.                                       *)
(*                                                                         *)
(* Bytes are abstracted to cells.  A device descriptor is two cells: the   *)
(* eight bytes hosts read first (DeviceHeader when bDescriptorType is      *)
(* right), and the rest, which tells one device from another.              *)
(***************************************************************************)
EXTENDS Integers, Sequences, SequencesExt

CONSTANTS
    EndpointNumbers,  \* endpoint addresses without the direction bit
    Ids,              \* URB / IRP identifiers
    Cells,            \* units of payload
    DeviceHeader,     \* first cell of every well formed device descriptor
    Payloads,         \* payloads the captured events carry
    Lengths,          \* wLength values of setup packets
    MaxCalls          \* bound on the number of captured events

\* USB_DT_DEVICE_SIZE, in cells.
DeviceSize == 2

Endpoint == [num : EndpointNumbers, in : BOOLEAN]

\* usb_setup_t, as far as this class looks at it: the direction bit of
\* bmRequestType, whether it is GET_DESCRIPTOR(DEVICE), and wLength.
Setup == {s \in [in : BOOLEAN, deviceRead : BOOLEAN, wLength : Lengths] :
              s.deviceRead => s.in}

ASSUME CellsAssumption ==
    /\ DeviceHeader \in Cells
    /\ Payloads \subseteq Seq(Cells)
    /\ <<>> \in Payloads
ASSUME EndpointsAssumption == 0 \in EndpointNumbers /\ EndpointNumbers \subseteq Nat
ASSUME LengthsAssumption == 0 \in Lengths /\ Lengths \subseteq Nat
ASSUME MaxCallsAssumption == MaxCalls \in Nat

Keys == Endpoint \X Ids

\* The value-initialised usb_setup_t a bulk transfer is stored with.
ZeroSetup == [in |-> FALSE, deviceRead |-> FALSE, wLength |-> 0]

\* DeviceHandle::Pending; "serial" is history: the number of the call that
\* began the transfer, 0 for a key that is not in the map.
Pending == [control : BOOLEAN, setup : Setup, data : Seq(Cells), serial : Nat]
NoPending == [control |-> FALSE, setup |-> ZeroSetup, data |-> <<>>, serial |-> 0]

\* A session (usb/Device) is its device descriptor, or none yet.
NoDescriptor == <<>>
Descriptor == [1 .. DeviceSize -> Cells]

VARIABLES
    inflight,   \* m_inflight, total: NoPending where the map has no entry
    unmatched,  \* m_unmatched
    sessions,   \* m_sessions: m_deviceDescriptor of each Device
    log,        \* history: the processControl/BulkPacketIn/Out calls made
    calls       \* history: number of method calls so far

handleVars == <<inflight, unmatched, sessions, log>>
vars == <<inflight, unmatched, sessions, log, calls>>

Dispatch == [session : Nat, endpoint : Endpoint, control : BOOLEAN,
             setup : Setup, data : Seq(Cells), serial : Nat]

TypeOK ==
    /\ inflight \in [Keys -> Pending]
    /\ unmatched \in Nat
    /\ sessions \in Seq(Descriptor \cup {NoDescriptor}) /\ sessions # <<>>
    /\ log \in Seq(Dispatch)
    /\ calls \in Nat

\* Mutant: the constructor opens no session.
InitNoSession ==
    /\ inflight = [k \in Keys |-> NoPending]
    /\ unmatched = 0
    /\ sessions = <<>> /\ log = <<>>
    /\ calls = 0

Init ==
    /\ inflight = [k \in Keys |-> NoPending]
    /\ unmatched = 0
    /\ sessions = <<NoDescriptor>>
    /\ log = <<>>
    /\ calls = 0

-----------------------------------------------------------------------------
\* USB_ENDPOINT_ID: control transfers are filed without the direction bit.
Undirected(ep) == [ep EXCEPT !.in = FALSE]
ControlKey(ep, id) == <<Undirected(ep), id>>
Found(key) == inflight[key].serial # 0

\* device(): the current session.
Current == sessions[Len(sessions)]

\* Mutant: emplace, which keeps what an earlier use of the identifier left.
BeginControlEmplaces(ep, id, setup, data) ==
    /\ inflight' = IF Found(ControlKey(ep, id)) THEN inflight ELSE
           [inflight EXCEPT ![ControlKey(ep, id)] =
               [control |-> TRUE, setup |-> setup, data |-> data, serial |-> calls + 1]]
    /\ UNCHANGED <<unmatched, sessions, log>>

BeginControl(ep, id, setup, data) ==
    /\ inflight' = [inflight EXCEPT ![ControlKey(ep, id)] =
           [control |-> TRUE, setup |-> setup, data |-> data, serial |-> calls + 1]]
    /\ UNCHANGED <<unmatched, sessions, log>>

\* Any in-flight entry under the key takes the payload, bulk ones too.
AppendControl(ep, id, data) ==
    LET key == ControlKey(ep, id) IN
    /\ inflight' = IF Found(key) THEN [inflight EXCEPT ![key].data = @ \o data]
                                 ELSE inflight
    /\ UNCHANGED <<unmatched, sessions, log>>

\* IN data travels with the completion, OUT data with the submission or a
\* stage of its own; the other event is the fallback.  Never more than was
\* requested.
ControlPayload(pending, data) ==
    LET first  == IF pending.setup.in THEN data ELSE pending.data
        second == IF pending.setup.in THEN pending.data ELSE data
        chosen == IF first # <<>> THEN first ELSE second
        wanted == pending.setup.wLength
    IN  SubSeq(chosen, 1, IF Len(chosen) < wanted THEN Len(chosen) ELSE wanted)

\* A whole device descriptor arrives.
FullDeviceRead(setup, data) == setup.deviceRead /\ Len(data) >= DeviceSize

\* Mutant: no descriptor read opens a session.
ReenumeratesNever(setup, data) == FALSE

\* The address has been enumerated as a different device.
Reenumerates(setup, data) ==
    /\ FullDeviceRead(setup, data)
    /\ Current # NoDescriptor
    /\ Current # SubSeq(data, 1, DeviceSize)

\* Device::processControlPacketIn keeps the descriptor only of the default
\* pipe, and Device::processDescriptor only if its type is right.
Learns(ep, setup, data) ==
    /\ FullDeviceRead(setup, data)
    /\ ep.num = 0
    /\ data[1] = DeviceHeader

\* Mutant: the device is fetched before the new session is pushed.
DispatchControlStale(ep, pending, data) ==
    LET opened == IF Reenumerates(pending.setup, data)
                  THEN Append(sessions, NoDescriptor) ELSE sessions
    IN  /\ sessions' = IF Learns(ep, pending.setup, data)
                       THEN [opened EXCEPT ![Len(opened)] = SubSeq(data, 1, DeviceSize)]
                       ELSE opened
        /\ log' = Append(log, [session |-> Len(sessions), endpoint |-> ep,
                               control |-> TRUE, setup |-> pending.setup,
                               data |-> data, serial |-> pending.serial])

DispatchControl(ep, pending, data) ==
    LET opened == IF Reenumerates(pending.setup, data)
                  THEN Append(sessions, NoDescriptor) ELSE sessions
    IN  /\ sessions' = IF Learns(ep, pending.setup, data)
                       THEN [opened EXCEPT ![Len(opened)] = SubSeq(data, 1, DeviceSize)]
                       ELSE opened
        /\ log' = Append(log, [session |-> Len(opened), endpoint |-> ep,
                               control |-> TRUE, setup |-> pending.setup,
                               data |-> data, serial |-> pending.serial])

EndControl(ep, id, data) ==
    LET key == ControlKey(ep, id)
        pending == inflight[key]
    IN  \/ /\ ~(Found(key) /\ pending.control)
           /\ unmatched' = unmatched + 1
           /\ UNCHANGED <<inflight, sessions, log>>
        \/ /\ Found(key) /\ pending.control
           /\ inflight' = [inflight EXCEPT ![key] = NoPending]
           /\ DispatchControl(Undirected(ep), pending, ControlPayload(pending, data))
           /\ UNCHANGED unmatched

\* Mutants: transfers in the IN direction are not filed; OUT data is handed
\* on when it is submitted.
BeginBulkUnfiled(ep, id, data) ==
    /\ inflight' = IF ep.in THEN inflight ELSE
           [inflight EXCEPT ![<<ep, id>>] =
               [control |-> FALSE, setup |-> ZeroSetup, data |-> data, serial |-> calls + 1]]
    /\ UNCHANGED <<unmatched, sessions, log>>
BeginBulkDispatches(ep, id, data) ==
    /\ inflight' = [inflight EXCEPT ![<<ep, id>>] =
           [control |-> FALSE, setup |-> ZeroSetup, data |-> <<>>, serial |-> calls + 1]]
    /\ log' = Append(log, [session |-> Len(sessions), endpoint |-> ep,
                           control |-> FALSE, setup |-> ZeroSetup,
                           data |-> data, serial |-> calls + 1])
    /\ UNCHANGED <<unmatched, sessions>>

BeginBulk(ep, id, data) ==
    /\ inflight' = [inflight EXCEPT ![<<ep, id>>] =
           [control |-> FALSE, setup |-> ZeroSetup,
            data |-> IF ep.in THEN <<>> ELSE data, serial |-> calls + 1]]
    /\ UNCHANGED <<unmatched, sessions, log>>

\* Mutant: the payload of the submission is never used.
BulkPayloadOfCompletion(ep, pending, data) == data

BulkPayload(ep, pending, data) ==
    IF ~ep.in /\ data = <<>> THEN pending.data ELSE data

\* Mutants: the entry stays in the map; a missing entry is not counted.
EndBulkKeeps(ep, id, data) ==
    LET pending == inflight[<<ep, id>>]
    IN  /\ log' = Append(log, [session |-> Len(sessions), endpoint |-> ep,
                               control |-> FALSE, setup |-> ZeroSetup,
                               data |-> BulkPayload(ep, pending, data),
                               serial |-> pending.serial])
        /\ UNCHANGED <<inflight, unmatched, sessions>>
EndBulkUncounted(ep, id, data) ==
    LET pending == inflight[<<ep, id>>]
    IN  /\ inflight' = [inflight EXCEPT ![<<ep, id>>] = NoPending]
        /\ log' = Append(log, [session |-> Len(sessions), endpoint |-> ep,
                               control |-> FALSE, setup |-> ZeroSetup,
                               data |-> BulkPayload(ep, pending, data),
                               serial |-> pending.serial])
        /\ UNCHANGED <<unmatched, sessions>>

\* A completion without its submission is counted, and dispatched all the same.
EndBulk(ep, id, data) ==
    LET key == <<ep, id>>
        pending == inflight[key]
    IN  /\ inflight' = [inflight EXCEPT ![key] = NoPending]
        /\ unmatched' = unmatched + (IF Found(key) THEN 0 ELSE 1)
        /\ log' = Append(log, [session |-> Len(sessions), endpoint |-> ep,
                               control |-> FALSE, setup |-> ZeroSetup,
                               data |-> BulkPayload(ep, pending, data),
                               serial |-> pending.serial])
        /\ UNCHANGED sessions

Abort(ep, id) ==
    /\ inflight' = [inflight EXCEPT ![<<ep, id>>] = NoPending,
                                    ![ControlKey(ep, id)] = NoPending]
    /\ UNCHANGED <<unmatched, sessions, log>>

-----------------------------------------------------------------------------
\* Any event on one transfer of the address.
Event(ep, id) ==
    \/ \E data \in Payloads :
          \/ \E setup \in Setup : BeginControl(ep, id, setup, data)
          \/ AppendControl(ep, id, data)
          \/ EndControl(ep, id, data)
          \/ BeginBulk(ep, id, data)
          \/ EndBulk(ep, id, data)
    \/ Abort(ep, id)

Next ==
    /\ calls < MaxCalls
    /\ calls' = calls + 1
    /\ \E ep \in Endpoint, id \in Ids : Event(ep, id)

Spec == Init /\ [][Next]_vars

-----------------------------------------------------------------------------
\* A submission is used for at most one dispatch, however often its
\* identifier completes: an erased entry never comes back (endControl,
\* endBulk and abort against the overwriting begins).
NoReplay ==
    \A i, j \in DOMAIN log :
        log[i].serial = log[j].serial /\ log[i].serial # 0 => i = j

\* NoReplay strengthened to an inductive invariant: the submissions waiting
\* and the submissions used are all different, and no newer than the last.
SubmissionsDistinct ==
    /\ \A k \in Keys : inflight[k].serial <= calls
    /\ \A i \in DOMAIN log : log[i].serial <= calls
    /\ \A k, m \in Keys : k # m /\ inflight[k].serial = inflight[m].serial =>
           inflight[k].serial = 0
    /\ \A i \in DOMAIN log, k \in Keys : log[i].serial = inflight[k].serial =>
           log[i].serial = 0
    /\ NoReplay

\* The device a session stands for never changes, and no session is lost:
\* what was dispatched to an earlier device stays with it (dispatchControl
\* against Device::processDescriptor, which overwrites the descriptor).
SessionIdentityStable ==
    [][/\ Len(sessions') \in {Len(sessions), Len(sessions) + 1}
       /\ \A i \in DOMAIN sessions :
              sessions[i] # NoDescriptor => sessions'[i] = sessions[i]]_vars

\* A session is left behind only once its device is known.
LeftSessionsIdentified ==
    \A i \in DOMAIN sessions : i < Len(sessions) => sessions[i] # NoDescriptor

\* Traffic never goes back to an earlier session, and a session that has a
\* descriptor has seen its read dispatched to it.
SessionsInCaptureOrder ==
    /\ \A i, j \in DOMAIN log : i <= j => log[i].session <= log[j].session
    /\ \A n \in DOMAIN sessions : sessions[n] # NoDescriptor =>
           \E i \in DOMAIN log :
               /\ log[i].session = n
               /\ FullDeviceRead(log[i].setup, log[i].data)
               /\ SubSeq(log[i].data, 1, DeviceSize) = sessions[n]
=============================================================================
