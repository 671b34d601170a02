----------------------------- MODULE UsbCapture -----------------------------
(***************************************************************************)
(* A DeviceHandle fed by a real capture: a host controller with several    *)
(* transfers outstanding on one address, devices that come and go on it,   *)
(* and a capture tool that starts late, misses events, and puts a          *)
(* transfer's payload in the event its format chooses.                     *)
(*                                                                         *)
(* The three reader functions of InputFile.cpp (process_darwin_packet,     *)
(* process_usbpcap_packet, process_usbmon_packet) turn one captured event  *)
(* into one call of DeviceHandle; that dispatch is the action below each   *)
(* event.  The bus itself is the environment.                              *)
(***************************************************************************)
EXTENDS DeviceHandle

CONSTANTS
    Devices,        \* devices that may sit on the address: their second cell
    Requests,       \* setup packets the host sends besides descriptor reads
    Answers,        \* payloads of transfers other than descriptor reads
    Stages,         \* where formats put payload: "submit", "data", "complete"
    LostEvents,     \* kinds of events the capture may miss
    LateStart,      \* whether the capture may start after the bus does
    ErrorStatus     \* whether failures are completions with an error status

ASSUME CaptureAssumption ==
    /\ Devices \subseteq Cells
    /\ {1, DeviceSize} \subseteq Lengths
    /\ Requests \subseteq {s \in Setup : ~s.deviceRead} /\ Answers \subseteq Payloads
    /\ Stages \subseteq {"submit", "data", "complete"}
    /\ LostEvents \subseteq {"submit", "complete"}
    /\ {LateStart, ErrorStatus} \subseteq BOOLEAN

VARIABLES
    bus,         \* the transfer outstanding under each id
    attached,    \* the device on the address
    enumerated,  \* whether the host has read its whole descriptor
    capturing,   \* whether the capture has started
    delivered,   \* history: captured successful transfers, as the bus saw them
    orphans,     \* history: captured completions of unseen submissions
    owners       \* history: the device attached at each dispatch in the log

busVars == <<bus, attached, enumerated, capturing>>
captureVars == <<vars, busVars, delivered, orphans, owners>>

DescriptorOf(d) == <<DeviceHeader, d>>

\* moved: the data stage has passed.  seen: the submission was captured.
Transfer == [busy : BOOLEAN, ep : Endpoint, control : BOOLEAN, setup : Setup,
             data : Seq(Cells), stage : {"submit", "data", "complete"},
             moved : BOOLEAN, seen : BOOLEAN]
Idle == [busy |-> FALSE, ep |-> [num |-> 0, in |-> FALSE], control |-> FALSE,
         setup |-> ZeroSetup, data |-> <<>>, stage |-> "complete",
         moved |-> FALSE, seen |-> FALSE]

CaptureInit ==
    /\ Init
    /\ bus = [id \in Ids |-> Idle]
    /\ attached \in Devices
    /\ capturing \in {TRUE, ~LateStart}
    \* a bus that is not captured yet may have been in use for long
    /\ enumerated \in {FALSE, ~capturing}
    /\ delivered = <<>> /\ orphans = 0 /\ owners = <<>>

-----------------------------------------------------------------------------
\* The two ways a host reads a device descriptor: its first eight bytes, and
\* all of it.
DescriptorReads ==
    {[in |-> TRUE, deviceRead |-> TRUE, wLength |-> n] : n \in {1, DeviceSize}}

\* Control transfers the host may submit: nothing but descriptor reads until
\* it has enumerated the device.  The endpoint carries the direction bit in
\* the events, as usbmon and USBPcap report it.  A submission carries the
\* payload of what the host sends; an empty one is in no event.
ControlTransfers ==
    {t \in [busy : {TRUE}, ep : {ep \in Endpoint : ep.num = 0}, control : {TRUE},
            setup : DescriptorReads \cup Requests,
            data : Answers \cup {SubSeq(DescriptorOf(attached), 1, n) : n \in 1 .. 2},
            stage : Stages, moved : {FALSE}, seen : BOOLEAN] :
        /\ t.ep.in = t.setup.in
        /\ t.setup.in \/ t.data = <<>> => t.stage # "submit"
        /\ IF t.setup.deviceRead
           THEN t.data = SubSeq(DescriptorOf(attached), 1, t.setup.wLength)
           ELSE enumerated /\ t.data \in Answers /\ Len(t.data) <= t.setup.wLength}

BulkTransfers ==
    {t \in [busy : {TRUE}, ep : {ep \in Endpoint : ep.num # 0}, control : {FALSE},
            setup : {ZeroSetup}, data : Answers, stage : Stages \ {"data"},
            moved : {FALSE}, seen : BOOLEAN] :
        enumerated /\ (t.ep.in \/ t.data = <<>> => t.stage # "submit")}

\* What an event of the given stage carries.
Carried(t, stage) == IF t.stage = stage THEN t.data ELSE <<>>

\* An event the capture may miss, and one it may keep.
MayMiss(kind) == ~capturing \/ kind \in LostEvents

Missed == UNCHANGED <<handleVars, delivered, orphans, owners>>

\* The dispatch of a completion happens while "attached" is on the address.
Owned == owners' = IF log' = log THEN owners ELSE Append(owners, attached)

\* USBMON_EVENT_SUBMIT, DARWIN_IO_SUBMIT, USBPCAP_CONTROL_STAGE_SETUP.
Submit(id) ==
    /\ ~bus[id].busy
    /\ \E t \in ControlTransfers \cup BulkTransfers :
        /\ bus' = [bus EXCEPT ![id] = t]
        /\ \/ /\ t.seen /\ capturing
              /\ IF t.control THEN BeginControl(t.ep, id, t.setup, Carried(t, "submit"))
                              ELSE BeginBulk(t.ep, id, Carried(t, "submit"))
              /\ UNCHANGED <<delivered, orphans, owners>>
           \/ ~t.seen /\ MayMiss("submit") /\ Missed
    /\ UNCHANGED <<attached, enumerated, capturing>>

\* USBPCAP_CONTROL_STAGE_DATA.
DataStage(id) ==
    LET t == bus[id] IN
    /\ t.busy /\ t.stage = "data" /\ ~t.moved
    /\ bus' = [bus EXCEPT ![id].moved = TRUE]
    /\ IF capturing THEN AppendControl(t.ep, id, t.data) ELSE UNCHANGED handleVars
    /\ UNCHANGED <<attached, enumerated, capturing, delivered, orphans, owners>>

\* A transfer as the expert of its device should get it.
Packet(t) == [endpoint |-> IF t.control THEN Undirected(t.ep) ELSE t.ep,
              control |-> t.control, setup |-> t.setup, data |-> t.data]

EndTransfer(id, t, data) ==
    /\ IF t.control THEN EndControl(t.ep, id, data) ELSE EndBulk(t.ep, id, data)
    /\ orphans' = orphans + (IF t.seen THEN 0 ELSE 1)
    /\ Owned

\* USBMON_EVENT_COMPLETE, DARWIN_IO_COMPLETE, USBPCAP_CONTROL_STAGE_COMPLETE.
Complete(id) ==
    LET t == bus[id] IN
    /\ t.busy /\ (t.stage = "data" => t.moved)
    /\ bus' = [bus EXCEPT ![id] = Idle]
    /\ enumerated' = (enumerated \/ FullDeviceRead(t.setup, t.data))
    /\ \/ /\ capturing
          /\ EndTransfer(id, t, Carried(t, "complete"))
          /\ delivered' = IF t.seen THEN Append(delivered, Packet(t)) ELSE delivered
       \/ MayMiss("complete") /\ Missed
    /\ UNCHANGED <<attached, capturing>>

\* The transfer fails: USBMON_EVENT_ERROR, or a completion whose status field
\* (which no reader looks at) is an error.
Fail(id) ==
    LET t == bus[id] IN
    /\ t.busy
    /\ bus' = [bus EXCEPT ![id] = Idle]
    /\ \/ /\ capturing
          /\ \/ Abort(t.ep, id) /\ UNCHANGED <<orphans, owners>>
             \/ ErrorStatus /\ EndTransfer(id, t, <<>>)
          /\ UNCHANGED delivered
       \/ MayMiss("complete") /\ Missed
    /\ UNCHANGED <<attached, enumerated, capturing>>

\* The device leaves, once the host controller has given its transfers back,
\* and one takes the same address.
Reattach ==
    /\ \A id \in Ids : ~bus[id].busy
    /\ attached' \in Devices
    /\ enumerated' = FALSE
    /\ UNCHANGED <<handleVars, bus, capturing, delivered, orphans, owners>>

StartCapture ==
    /\ ~capturing
    /\ capturing' = TRUE
    /\ UNCHANGED <<handleVars, bus, attached, enumerated, delivered, orphans, owners>>

CaptureNext ==
    /\ calls < MaxCalls
    /\ calls' = calls + 1
    /\ \/ \E id \in Ids : Submit(id) \/ DataStage(id) \/ Complete(id) \/ Fail(id)
       \/ Reattach
       \/ StartCapture

CaptureSpec == CaptureInit /\ [][CaptureNext]_captureVars

-----------------------------------------------------------------------------
AsPacket(d) == [endpoint |-> d.endpoint, control |-> d.control,
                setup |-> d.setup, data |-> d.data]

\* The experts get exactly the successful transfers whose submission and
\* completion were captured, each in the step that completes it, once, with
\* its own setup packet and its own whole payload, whichever events carried
\* it and however many transfers were interleaved, identifiers reused or
\* aborted.
Delivery ==
    \/ log' = log /\ delivered' = delivered
    \/ LET d == log'[Len(log) + 1] IN
       /\ log' = Append(log, d)
       /\ delivered' = IF d.serial = 0 THEN delivered
                       ELSE Append(delivered, AsPacket(d))

DeliveryStep == [][Delivery]_captureVars

\* The key a transfer is filed under, and the payload its events have shown.
KeyOf(t, id) == IF t.control THEN ControlKey(t.ep, id) ELSE <<t.ep, id>>
Shown(t) == IF t.stage = "submit" \/ (t.stage = "data" /\ t.moved) THEN t.data ELSE <<>>

Holds(t, id) ==
    LET p == inflight[KeyOf(t, id)] IN
    /\ p.serial # 0
    /\ p.control = t.control /\ p.setup = t.setup /\ p.data = Shown(t)

\* DeviceHandle holds every transfer it saw begin, as the bus has it, and
\* nothing under the identifier of one it did not; where completions are not
\* lost it holds no other, so nothing leaks and nothing stale waits for the
\* next use of an identifier.
InflightTracksBus ==
    /\ \A id \in Ids : bus[id].busy /\ bus[id].seen => Holds(bus[id], id)
    /\ \A id \in Ids : bus[id].busy /\ ~bus[id].seen =>
           \A ep \in Endpoint : ~Found(<<ep, id>>)
    /\ "complete" \notin LostEvents =>
           \A id \in Ids, ep \in Endpoint : Found(<<ep, id>>) =>
               bus[id].busy /\ bus[id].seen /\ KeyOf(bus[id], id) = <<ep, id>>
    /\ ~capturing => /\ \A key \in Keys : ~Found(key)
                     /\ \A id \in Ids : ~bus[id].seen

\* getUnmatchedCount() is the number of completions whose submission the
\* capture does not hold.
UnmatchedIsOrphans == unmatched = orphans

\* Ordinary traffic: all but the descriptor reads of enumeration.
Ordinary(i) == ~log[i].setup.deviceRead

\* In a capture that starts with the bus and misses nothing, the traffic of a
\* device is reported under that device's descriptor, across re-enumerations.
SessionNamesItsDevice ==
    \A i \in DOMAIN log : Ordinary(i) =>
        sessions[log[i].session] = DescriptorOf(owners[i])
=============================================================================
