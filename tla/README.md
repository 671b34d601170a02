# demuxusb in TLA+

demuxusb reads a USB packet capture and reports what it says: the devices on
the bus, the protocols they spoke (DFU, iBoot recovery, usbmux) and the files
that went over them. The program is single threaded and keeps nothing between
runs. What makes it hard is its input: a capture interleaves transfers, begins
in the middle of things, misses events and may be damaged, and what the program
reports is right only if every component puts the pieces together again.

The specifications here model those components against the environments that
produce the captures (a host controller and a capture tool, a USB host, a DFU
host and device, libirecovery, usbmuxd). TLC checks them on small instances;
TLAPS proves the main invariants for all values of the constants.

## The system

| Component | State | Operations | What makes it correct |
| --- | --- | --- | --- |
| `PcapInputFile`, `PcapNGInputFile` | offset, interface table of the section | `parse` | every packet before a damage is handed on once, in file order, with its link type and its data, and damage inside a block costs that block |
| `InputFile` (`src/file/InputFile.cpp`) | a `DeviceHandle` per address, their order, warnings | `processPacket`, one reader per format | one event becomes one call of the right handle |
| `DeviceHandle` | `m_inflight`, `m_unmatched`, `m_sessions` | `beginControl`, `appendControl`, `endControl`, `beginBulk`, `endBulk`, `abort` | each transfer is dispatched once, with its own setup packet and payload, to the session of its device |
| `Device` (`src/usb/Device.cpp`) | device descriptor, configurations with experts, current configuration, alternate settings, strings, BOS | `processControlPacketIn/Out`, `processBulkPacketIn/Out` | a transfer reaches the expert of its interface |
| `usb_configuration`, `utf16leToUtf8` | - | `parse`; decoding of strings | interfaces, endpoints and strings as the device has them, also when read in part, again, or malformed |
| `RecoveryInterfaceExpert` | payload list, open flag, console | control and bulk handlers | uploads are the files, in capture order |
| `DFUInterfaceExpert` | images, current image, state, anomalies | control handlers | images are the downloads, anomalies are real |
| `USBMUXInterfaceExpert`, framing | buffer of each direction, resyncs | `feed` | packets come out whole, once, in order |
| `USBMUXInterfaceExpert`, streams | streams, index per port pair, service names | `processTCP`, `learnServices` | each connection is a stream of its own, named by the service it is for |
| `MuxStream` | encoding and buffer of each direction, messages | `receiveBytes`, `sendBytes` | property lists come out whole, nothing else does |
| `main` | - | arguments, report, extraction | artifacts do not overwrite each other |

Components interact by direct calls, top to bottom: reader, `InputFile`,
`DeviceHandle`, `Device`, expert, stream. No call comes back up, and a packet is
processed to the end before the next is read. So a step of a model is one
captured event with everything the code does about it, and the interleaving is
that of the events, not of the code.

The hard behaviours are therefore: transfers of one address in flight together;
identifiers and addresses used again; events the capture does not have, at its
beginning or inside; failures reported in more than one way; devices that
re-enumerate; traffic before the descriptors that explain it; messages cut
anywhere. `PROJECT.json` lists them with their lines under `hazards`.

## Modules

Each module's comments say which code a definition stands for, and `map` in
`PROJECT.json` gives the lines.

**DeviceHandle** models the class of that name. `inflight` is `m_inflight`,
`unmatched` `m_unmatched`, and `sessions` the device descriptors of `m_sessions`.
There is an operator for each method, and `Spec` calls them in any order with
any arguments, as a damaged capture does. The history `log` holds the calls made
to `Device`; `serial` numbers submissions. Payloads are sequences of cells, and
a device descriptor is two cells: the eight bytes that hosts read first, and
the rest.

**UsbCapture** extends it with the bus and the capture tool. `bus` holds the
transfer outstanding under each identifier; `Submit`, `DataStage`, `Complete` and
`Fail` are what happens to it, each followed by the call the readers make for the
event, unless the capture misses it. The three formats differ in where the
payload travels, which is `stage`: with the submission, in a stage of its own
(USBPcap), or with the completion. `Reattach` puts another device on the address
and `StartCapture` starts a capture late. The histories `delivered` and `orphans`
are what the experts should get and the completions nobody can pair.

**UsbDevice** models the descriptors, configurations and routing of `Device`.
The environment is a device with its true configurations and settings, and a
host that reads descriptors, sets configurations and interfaces, resets the
port and transfers data, in any order USB allows; before a late capture it has
done some of that unseen. `handed` is the last transfer: which expert got it,
and which the interface needs. An expert is identified by its kind,
configuration and interface.

**RecoveryExpert** models `RecoveryInterfaceExpert` with a client that sends
files and talks between them, may skip announcements, and may be inside a file
when the capture begins. **DfuExpert** models `DFUInterfaceExpert` with a host and
a device that follow the state diagram of DFU 1.1 except for the faults a run
allows.

**UsbDescriptors** models how `Device` takes descriptors apart: the cases of
`processDescriptor`, `usb_configuration::parse` and `utf16leToUtf8`. The
environment is a device with strings of any UTF-16 units and configuration sets
of any shape, one descriptor of which may have an impossible length, and a host that
reads any of them whole, in part and again, or gets an answer of the wrong type.
The two algorithms are checked against definitions that do not share their
loops: which units are halves of a pair and which code points the bytes are the
UTF-8 of, and which interface each endpoint of the set belongs to.

**CaptureFile** models the way of a file through the program: `InputFile::open`,
the loops of `PcapNGInputFile::parse` and `PcapInputFile::parse`, `processPacket`
with `handleFor` and `warn`, and what `main` does after an error. A file is what a
writer wrote, damaged in at most one place: cut off after any byte, or with any
one word overwritten. An iteration of a loop is a step. `packets` holds the
calls of `processPacket`, by the bytes they were given.

**MuxFraming** models `USBMUXInterfaceExpert::feed` and **MuxStream** the class of
that name, each in one direction: the two directions of either class share only
counters and the list their messages go to. Both implement **FifoChannel**, the
abstract specification: what is sent is delivered in order, once, and all of it
in the end. Their loops are the recursive functions `Parsed` and `Drained`.

**UsbmuxStreams** models the rest of `USBMUXInterfaceExpert`: `processPacket`,
`processTCP`, `beginStream`, `getStreamId`, `streamFor` and `learnServices`, with as
much of `MuxStream` as a segment shows (whole, half and encrypted property
lists). The environment is usbmuxd and the device: connections are opened,
refused, closed by either side and opened again on the same ports, while
segments are under way in both directions; lockdownd gives its ports to one
service and later to another; and a late capture finds a connection open, maybe
in the middle of a property list or already encrypted.

`MC*` modules give the constants their values. Operators marked "Mutant" are
wrong variants of the operator after them; no specification uses them, and each
property of a passing run is violated when one of them takes its place.

### Abstractions

- Streams of bytes are sequences of 32 bit words, so a cut inside a word is not
  modelled. All sizes the two loops compare with (4, 8 and 16 bytes) are words,
  but for the 5 byte XML signature, of which the stream model keeps two words.
- Payload contents are cells without meaning, except device descriptors.
- Counters that are only printed (packets and bytes of devices and interfaces),
  anomaly texts and warnings are left out; anomalies of DFU are kept by kind.
- `upload.data` and the images keep the chunks they were made of where no
  property can tell the difference.
- `CaptureFile` checks the bounds of `readStruct` for blocks and records. The
  three packet headers are one word there, the device's address, and their
  checks one: too short, or known to be bad. `UsbCapture` has the events behind
  them.
- In `UsbDescriptors` a cell stands for a field, except in strings, which are
  bytes; in `CaptureFile` for a word, and the structures keep the words the code
  reads.

## Runs

| Run | Instance | Question |
| --- | --- | --- |
| `handle_any_events` | one endpoint number, one identifier, four payloads, 5 calls | Does any sequence of calls replay a submission, change a session's device or disorder sessions? |
| `capture_pairing` | control and one bulk endpoint in both directions, two identifiers, every payload placement, start before or after enumeration, lost completions, 7 events | Do the experts get exactly the transfers whose events the capture has? |
| `capture_sessions` | two devices on an address, one identifier, transfers that fail, 11 events | Is traffic reported under its own device when the capture has everything? |
| `device_routing` | five devices: DFU, recovery, a phone with usbmux in alternate setting one, a phone with two configurations on the same endpoints, another make with DFU | Does every transfer reach the expert of its interface? |
| `device_configurations` | the phone with two configurations | (violation) Is the only known configuration the active one? |
| `recovery_uploads` | two cells, announcements may be missing, 7 events | Are uploads the files, and is every byte kept? |
| `dfu_all_faults` | two cells, all faults, transfer size one, 7 requests | Are images the downloads, aborted ones included, is every byte kept, are the anomalies those there are? |
| `framing` | v1 and v2 packets, empty, one of a header's size, four packets, every cut; or a late start inside a packet | Does the direction implement the channel, and recover? |
| `stream` | XML and binary lists, TLS, raw data, three messages, every cut | Does the stream implement the channel, decide on the framing in time, recognise TLS, and leave nothing undecoded? |
| `usbmux_streams` | three connections on two host ports, lockdownd's and one device port, two services, three segments with data or an end, one under way in each direction | Is each connection one stream, with its own messages, end and name? |
| `capture_file` | pcapng files of five blocks and pcap files of two records, with two devices, supported and unsupported link types and a snap length; a cut at any byte or any word overwritten with one of the words a parser would take for a length, a type, an interface or a packet | Is everything before the damage reported as written, and is the rest damaged no further than it is? |
| `descriptors` | strings of three units at the boundaries of UTF-16 and UTF-8, sets of three descriptors in any combination, every wrong length, two reads | Is what is known what the device has, and does it stay known? |

Why the bounds are enough. A pairing error needs two transfers whose events
interleave and one identifier used twice: two transfers with a data stage are
six events, and the seventh starts a capture late, on a device that may have
been enumerated before. Two identifiers are all a step looks at, and nothing
tells them apart, so they are symmetric.
In `handle_any_events` every kind of entry can be overwritten by and completed as
every other within 5 calls, and a session opened, identified and left.
Two devices can be read, used, left and used again in 11 events. `device_routing` has
no bound: its state space is finite. Three files of two chunks, or two with
talk between them, fit in 7 events of `recovery_uploads`. A download of two
blocks takes 4 requests without the status reads, so 7 requests hold one
faulty download and the next. A framing error shows at the first packet after
it, so four packets leave two after a late start's losses; three messages
are one before, at and after an upgrade to TLS. A stream error needs two
connections on the same ports, or a third that lockdownd answers for; the
device gives its one port away twice in three connections, and since each step
looks at one connection's ports, more add none of a new kind. Of a file's
blocks a step looks at one, the first section and the interfaces of the present
section: five blocks hold two sections with an interface each and a packet
after them. Two reads are one that learns and one that must not unlearn, and of
a string's units a step looks at two.
`CHECK_DEADLOCK FALSE` stands where these bounds, or the end of what the peer
sends, end the behaviour; a capture ends too.

### What the violation shows

In a late capture the only configuration read so far is taken for the active
one although the device has another (`Device.cpp:240`): `device_configurations`
has the behaviour.

Met while modelling, and kept as conditions of properties instead of runs:

- A capture that starts after enumeration reports two devices as one
  (`InputFile.cpp:64`): the first session has no descriptor to differ from, so the
  next device's is stored in it. `README.md:37` of the repository says each mode is
  reported separately. `SessionNamesItsDevice` is about captures from the start.
- A completion with an error status counts as a success (`InputFile.cpp:347`): the
  status field is not read by any of the readers, against the comment on `abort`
  (`InputFile.h:36`). `ErrorStatus` models it; `DeliveryStep` is checked without.
- After a DFU download that failed, the next one is appended to what the failed
  one left (`DFUInterfaceExpert.cpp:69`). `ImagesAreDownloads` is about captures in
  which no download fails, and in which the data of downloads is whole.
- A recovery file without an announcement goes to the previous upload, before
  commands sent in between (`RecoveryInterfaceExpert.cpp:48`).
- `DFU_ABORT` moves a partial image among the completed ones
  (`DFUInterfaceExpert.cpp:76`, against the comment at `DFUInterfaceExpert.h:39`).
  `ImagesAreDownloads` takes the code's side: an aborted download is an image as far
  as it came, and gets into no other.
- A damaged device descriptor opens a session that no device belongs to
  (`InputFile.cpp:64`).
- Unmatched completions are counted but no warning is given, which the comment
  at `InputFile.h:80` lists among the warnings; and `main.cpp:136` prints the number
  of warnings as a number of packets, of which link types warn once and
  damaged blocks are none.
- A damaged interface description block is skipped and the ids of the
  interfaces after it shift (`PcapNGInputFile.cpp:73`). `DamageIsLocal` excludes
  interface blocks.
- A file that begins like a capture and is cut inside its header is an error of
  `parse`, after which the report is empty and the exit status 0 (`main.cpp:83`).
- A name that lockdownd gives to a port in an encrypted answer, or before the
  capture, is not learnt, and an older name of the port stays
  (`USBMUXInterfaceExpert.cpp:81`). `NamesAreServices` excludes connections to such
  a port.

### Fairness and liveness

Only `MuxFraming` and `MuxStream` state liveness, under weak fairness of `Transfer`
and `Segment`: as long as the peer's words are on the wire, another transfer
or segment takes some of them. The code justifies it because the loops of
`parse`, `feed` and `drain` go on to the end of what there is: a step of the
environment that the capture holds is always processed. Nothing is assumed of
the peer, which may stop sending at any point. The properties are the liveness
half of `IsFifoChannel` (every message sent is delivered), `UpgradeIsSeen` and
`LateStartRecovers`. The other modules are safety specifications: a capture may
end anywhere.

## Proofs

The theorems hold for every value of the constants that satisfies the named
assumptions beside their declarations; those say what USB or a protocol
guarantees and are checked by TLC in every run. Every proof of an invariant has
the same shape: an inductive invariant, whose parts TLC checked first where it
can evaluate them, with a lemma or a step for each action that can disturb it.

- `UsbCaptureProofs` has the theorems of `DeviceHandle` and `UsbCapture`.
  - For any sequence of calls: `TypeCorrect` is the type invariant.
    `EachSubmissionOnce` (`NoReplay`) needs a strengthening,
    `SubmissionsDistinct`: the serial numbers of entries in flight and of
    dispatches made are all different, and none is newer than the last call.
    `NoReplay` alone is not inductive, since a step dispatches what waits in the
    map. `SessionsKeepTheirDevice` and `OnlyLastSessionUnidentified` rest on one
    fact about `dispatchControl`: a descriptor is stored in the last session only
    when that had none or the same. `SessionsOrdered` (`SessionsInCaptureOrder`)
    adds that no dispatch is to a session that does not exist yet.
  - For captures of the bus: the invariant `CaptureInv` joins types,
    well-formedness of the transfers on the bus (an IN payload is not in the
    submission, a payload is not longer than `wLength`), and `InflightTracksBus`:
    the map is what the bus has outstanding. From it each `EndControl` or
    `EndBulk` finds its own entry, and two lemmas show that it picks the payload of
    the bus, whichever events carried it. That gives `InflightIsTheBus`,
    `UnmatchedCountIsRight` (`UnmatchedIsOrphans`) and, where no failure is a
    completion with an error status, `TransfersAreDeliveredFaithfully`
    (`DeliveryStep`). Assumed: submissions and completions are not both lost
    (`OneSidedLoss`; a stale entry and a new completion cannot be told from a
    transfer).
  - `TrafficIsReportedUnderItsDevice` (`SessionNamesItsDevice`) needs `NamesInv`:
    the last session has the descriptor of the device on the address as soon as
    ordinary traffic of it can be under way, and what was dispatched before is in
    sessions that no later step changes. Assumed: the capture misses nothing
    (`NothingLost`).
  - For capture files, which are where these events come from (`CaptureFile`):
    `FileTypes` and `DevicesAreInOrder` hold for any damage. `FileInv` adds to the
    types that the devices listed are those of the packets handed on, in the order
    of their first packets. The other two need the file as it was written.
    `BlocksInOrder` places the words of each block, `UntouchedHasWords` says that a
    block the damage does not touch has them, and `BlockTakenOver` and
    `RecordTakenOver` that a reader at the start of such a block hands on its
    packet and goes on to the next with the interfaces its section has declared.
    So `ReportInv`: what has been read is as written up to the block the reader is
    at, or the reader is past the damage and all packets before it are handed on.
    It gives `AllIsReported` (`ReportedAsWritten`). `LocalInv` adds the blocks after the
    damaged one: a word overwritten inside a block spares its framing
    (`FrameIsSpared`, `RecordIsSpared`), so the reader comes to the next block
    whatever it makes of this one, which is at most one packet, inside the block
    (`BlockPassed`, `RecordPassed`). It gives `DamageStaysLocal` (`DamageIsLocal`).
    Assumed (`LayoutAssumption`): the file is one that a writer writes
    (`PcapngFile`, `PcapFile`): a section comes first, packets are of interfaces of
    their section and as long as what is there of them, and link types and record
    lengths are words that have another byte order. A file that was wrong when it
    was written has nothing it can be compared with; what the readers make of one
    is covered by the theorems for any damage as far as it differs in one word.
- `UsbDeviceProofs`. `DeviceTypes` is the type invariant. `ConfigurationIsDevices`
  follows the configuration and the settings. `TransfersAreRouted`
  (`EveryTransferRouted`) needs `Learned`: in a capture from the start, experts are
  attached after the mode is known, they are those the interfaces need
  (`AttachedIsDue`), and the configuration the device is in has been read. Each
  kind of transfer then has a lemma of its own. `LateCapturesHarmless`
  (`LateTransfersHarmless`) is the same for late captures of a device with one
  configuration, where experts may be missing and are never wrong. The proof
  found a condition the property had lacked and TLC had not met, as no device of
  the run had it: `attachExperts` gives a DFU class interface of a device in
  recovery mode a DFU expert if the device descriptor has not been read. Assumed
  of devices (`DevicesAssumption`): no endpoint is in two interfaces, no interface
  has both DFU and usbmux alternate settings, and configuration values are bytes
  other than zero.
- `RecoveryExpertProofs`. Types; an open upload is always in the list, so that the
  line marked "Unreachable" in `currentUpload` is. `ExtractInv` joins what the three
  properties of extraction need of each other: the list is in the order of its
  transfers (`InOrder`), the last file is what the last upload ends with
  (`FileIsLast`), and all data is that of the files. It gives `PayloadsOrdered`,
  `UploadsCorrect` and `UploadsKept`.
- `DfuExpertProofs`. Types, which include that no image is empty. `DfuInv` relates
  the device's state to the download under way: a partial download is there in
  exactly two states, and without one nothing is left in the current image. It
  gives `ImagesAreTheDevices`, through aborts, blocks above `wTransferSize` and
  requests that are unknown or misplaced, and `AnomaliesRecorded`, kind by kind: the
  kinds recorded are exactly `Added` by a request, which are the kinds of what the
  host did (`AllRecorded`), save an abort of a download the capture lacks. `DownloadsKept`
  (`EveryByteKept`) needs no more than types, since every way an image ends only
  moves bytes from one place of the list to the next.
- `UsbDeviceProofs` also has the theorems of `UsbDescriptors`, the other half of the
  class. `WhatIsKnownStays` (`KnownStaysKnown`) needs `DescriptorIsDevices`: a whole
  device descriptor replaces the known one, so it
  stays only because a device has one (`DescriptorIsTheDevices`). Configurations
  stay by the way they are kept (`ConfigurationsAreKept`), and stores are only
  appended; `Grows` says what a read does to each part, with a lemma for each
  kind of descriptor. `StringsAreTheDevices` (`StringsAreDevices`) follows a string
  through both encodings. A code point is one whole character of UTF-8
  (`CharacterOf`: its first byte says how many follow, and they give it back), and
  a character behind whole ones adds one code point (`CharacterAdded`). The bytes
  of a string are taken unit by unit: before the decoding of each, what has been
  written is the UTF-8 of the units before it, and the position is that of the
  unit, or behind it if it is the second half of a pair (`DecodedInPieces`).
  `ConfigurationsAreTheDevices` (`ConfigurationsAreAnnounced`) compares `parse` with
  what a set announces, by induction over its descriptors. `Split` finds them one
  after another, all or those before the wrong one (`SplitConfiguration`). One
  descriptor more changes what is announced as `Added` changes what is parsed
  (`AnnouncedMore`): an endpoint belongs to the last interface before it and to no
  other, and a functional descriptor counts when that interface is of the DFU
  class. So the result is what is announced (`ParsedConfiguration`). Its
  invariant `AnnouncedInv` adds `DescriptorIsDevices` only. Assumed of devices
  (`ConfigurationsAssumption`): a set begins with its configuration descriptor and
  has no other, `wTotalLength` is its length, and descriptors are at least as long
  as their types, possibly longer, save for one whose length is wrong in a way that
  can be seen: less than two or than its type, or past the end of the set. A
  length that is wrong and possible moves the borders of what follows, and no
  parser could tell. A functional descriptor has exactly its length, since it is
  kept whole and compared.
- `UsbmuxStreamsProofs`. The invariant `StreamsInv` is about what is under way as
  much as about the streams. The segments of each direction belong to
  connections that exist, none of a connection overtakes its SYN
  (`SegmentsBelong`, `SynsAreFirst`), and a host port is used again only when the
  connection before it is over (`PortsInTurn`); so a SYN that arrives begins the
  stream of the newest connection on its ports, whatever the older ones still
  have under way, and the index of the port pair is the number of connections seen
  (`IndexCounts`). The pieces under way lead from what a stream's direction holds
  to where its sender stands (`StreamsFollow`, with `Leads` and `Reflects`), which
  makes the messages right. `GrantsAreExclusive` and `GrantsAreKnown` follow a port
  from lockdownd's answer to the name learnt. It gives `StreamTypes`,
  `OneStreamPerConnection`, `MessagesKept` and `NamesCorrect`. Assumed: at least one
  connection is allowed (`StreamsAssumption`).
- `ReassemblyProofs` is about `MuxFraming`. `ParsedIteration` shows that the
  recursive function `Parsed` is one iteration of the loop followed by the rest of
  it: the function is built on buffers of each length in turn, since what is left
  of a buffer is shorter (`CutShortens`). `PacketsComeOut` is the heart of it, by
  induction over the number of packets: where a buffer followed by what is still
  on the wire is the bytes of some packets, the buffer parses into the first of
  them, and what remains, followed by the wire, is the bytes of the others. With
  it `FramingInv` (the buffer and the wire are the bytes of exactly the packets
  sent and not delivered, and the buffer holds no whole packet) is inductive, and
  gives `FramingTypes` and `FramingIsSafeChannel`: initial states are the channel's,
  and every step is a `Send`, a `Deliver` or a stutter. For late captures `LateInv`
  has three places: nothing but the tail, a stray word of it in the buffer, or in
  step again with at most one packet lost; this gives `LateStartCostsOnePacket`.
  Assumed: a body does not begin like the rest of a v2 header
  (`FramingAssumption`), and what is left of the packet a late capture begins
  inside is no header (`TailsAssumption`); a tail that looks like one costs as many
  packets as its length promises words of, which only the bound on a packet's
  length limits.
- `MuxStreamProofs` is about `MuxStream`, and unfolds `Drained` as `ParsedIteration`
  does `Parsed`. What a stream is depends on what its peer has sent, so the
  invariant `StreamInv` has a case for each: nothing yet but the length and the
  beginning of a message, in which the encoding cannot be known; property lists,
  where the buffer followed by the wire is the bytes of those not delivered; a TLS
  record, from which on nothing is decoded; or a service without property lists.
  Beside it, `Undecided` bounds how long the framing stays open: three words, a
  length and a signature, are enough, and nothing is left open when all that was
  written by a peer that has upgraded has arrived. `NothingMore`: the loop only
  waits while part of a message has yet to arrive. It gives `StreamTypes`, `StreamEncoding`
  (`EncodingIsServices`: the decision is neither wrong nor late),
  `StreamIsSafeChannel`, the step refinement of `FifoChannel`, and
  `NoneIsLeftBehind`: when all that was written has arrived, all of it is decoded.
  The run `stream` has that as part of the liveness of `IsFifoChannel`, since a peer
  may stop at any time. Assumed
  (`RawAssumption`): what a service without property lists sends does not begin
  like one. The stream has nothing else to tell them apart by.
- `SequenceLemmas` has what these proofs share: `FlattenSeq` of a sequence that is
  extended, cut or changed in one place, functions defined from the end of a
  sequence to its start, concatenations, prefixes. `FlattenSeq` is a recursive function of the community modules; the lemmas come from its
  unfolding.

Only model-checked: liveness (the fairness half of `FifoChannel`, `UpgradeIsSeen`,
`LateStartRecovers`), which is out of the prover's reach. Every invariant and
every safety property of a step that a passing run checks is also a theorem.

## Not modelled

- The three packet headers field by field, and the several addresses of a bus
  in one run with pairing: an address is a key of `m_devices`, and handles share
  nothing.
- Statistics, anomaly and warning texts, and everything printed.
- Property list decoding (libplist), of which the code uses two results.
- Arguments of the command line, and the names of extracted files, which are
  formatted from the expert's kind, an index and sizes.
- Cuts inside a 32 bit word in the usbmux streams, and packet data above the
  level of devices in `CaptureFile`.

## Plan

1. *Core, done*: DeviceHandle, UsbCapture, UsbDevice, RecoveryExpert, DfuExpert,
   MuxFraming, MuxStream, with FifoChannel as the abstract specification; proofs
   of the pairing, session and routing invariants.
2. *Usbmux connections, done*: `UsbmuxStreams`.
3. *Readers, done*: `CaptureFile`.
4. *Descriptors, done*: `UsbDescriptors`.
5. *Proofs, done*: the invariants of the capture, the device, the experts, the
   usbmux streams and the capture files, and both framings as channels.
