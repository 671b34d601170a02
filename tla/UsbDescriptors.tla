--------------------------- MODULE UsbDescriptors ---------------------------
(***************************************************************************)
(* What Device learns from the descriptors its host reads                  *)
(* (Device::processDescriptor): the device descriptor, the configurations  *)
(* as usb_configuration::parse takes them apart, the strings in UTF-8 and  *)
(* the binary object stores.                                               *)
(*                                                                         *)
(* A descriptor is a sequence of cells, of which the first is its length   *)
(* and the second its type.  A string has its bytes; the others have one   *)
(* cell for each field that matters here, and lengths count cells.         *)
(* UsbDevice has what becomes of the configurations.                       *)
(***************************************************************************)
EXTENDS Integers, Sequences, SequencesExt, FiniteSetsExt

CONSTANTS
    DevicesRead,      \* the devices a host may read
    MaxReads          \* bound on the number of descriptors read

Device == 1           \* USB_DT_DEVICE
Config == 2           \* USB_DT_CONFIG
String == 3           \* USB_DT_STRING
Interface == 4        \* USB_DT_INTERFACE
Endpoint == 5         \* USB_DT_ENDPOINT
Functional == 33      \* USB_DT_DFU_FUNCTIONAL, which HID uses as well
Other == 11           \* an interface association, or any other
BOS == 15             \* USB_DT_BOS

\* The cells of each structure (USB_DT_DEVICE_SIZE and so on), and what they
\* hold after length and type.
SizeOf == [t \in {Device, Config, Interface, Endpoint, Functional, BOS, Other} |->
              CASE t = Device -> 3        \* which device it is
                [] t = Config -> 4        \* wTotalLength, bConfigurationValue
                [] t = Interface -> 5     \* number, alternate setting, class
                [] t = Endpoint -> 3      \* bEndpointAddress
                [] t = Functional -> 3    \* the attributes
                [] t = BOS -> 4           \* wTotalLength, bNumDeviceCaps
                [] t = Other -> 2]
DfuClass == 254       \* USB_CLASS_DFU and USB_SUBCLASS_DFU

\* A device has a number of its own, and the capabilities of its binary object
\* store; a careless one leaves a stray byte behind its strings.
ASSUME DescriptorsAssumption ==
    /\ MaxReads \in Nat
    /\ \A d \in DevicesRead :
        d.id \in Nat /\ d.capabilities \in Seq(Nat) /\ d.stray \in {<<>>, <<220>>}

\* A configuration is a sequence of descriptors, one for the configuration with
\* the length of them all and then those of its interfaces, which may be longer
\* than what is read of them.  One of them may have a wrong length (bad, 0 if
\* none): one that is impossible.
IsImpossible(nodes, i, length) ==
    \/ length < 2 \/ length > Len(FlattenSeq(SubSeq(nodes, i, Len(nodes))))
    \/ nodes[i][2] \in {Config, Interface, Endpoint} /\ length < SizeOf[nodes[i][2]]

IsConfiguration(c) ==
    /\ c.nodes \in Seq(Seq(Nat)) /\ c.nodes # <<>> /\ c.nodes[1][2] = Config
    /\ c.nodes[1][3] = Len(FlattenSeq(c.nodes))
    /\ \A i \in DOMAIN c.nodes :
        /\ i > 1 => c.nodes[i][2] \in {Interface, Endpoint, Functional, Other}
        /\ c.nodes[i][1] = Len(c.nodes[i]) /\ Len(c.nodes[i]) >= SizeOf[c.nodes[i][2]]
        /\ c.nodes[i][2] = Functional => Len(c.nodes[i]) = SizeOf[Functional]
    /\ c.bad \in 0..Len(c.nodes) /\ c.length \in Nat
    /\ c.bad # 0 => IsImpossible(c.nodes, c.bad, c.length)

ASSUME ConfigurationsAssumption ==
    \A d \in DevicesRead :
        \A i \in DOMAIN d.configurations : IsConfiguration(d.configurations[i])

\* Strings are UTF-16 units, by language and index.
Units == {unit \in Nat : unit < 65536}

ASSUME StringsAssumption ==
    \A d \in DevicesRead : \A language \in DOMAIN d.strings :
        ToSet(d.strings[language]) \subseteq Seq(Units)

VARIABLES
    deviceRead,           \* the device that is read
    m_deviceDescriptor,   \* m_deviceDescriptor, <<>> while there is none
    m_configurations,     \* m_configurations, by configuration value
    m_strings,            \* m_strings, by index
    m_bosDescriptors,     \* m_bosDescriptors
    m_anomalies,          \* the length of m_anomalies
    reads                 \* history: the number of descriptors read

learnt == <<m_deviceDescriptor, m_configurations, m_strings, m_bosDescriptors>>
readVars == <<deviceRead, learnt, m_anomalies, reads>>

ReadInit ==
    /\ deviceRead \in DevicesRead
    /\ m_deviceDescriptor = <<>> /\ m_configurations = <<>>
    /\ m_strings = <<>> /\ m_bosDescriptors = <<>>
    /\ m_anomalies = 0 /\ reads = 0

-----------------------------------------------------------------------------
\* utf16leToUtf8.  The unit at an even position of a sequence of bytes.
Unit(bytes, i) == bytes[i] + 256 * bytes[i + 1]
IsHigh(u) == u \in 55296..56319
IsLow(u) == u \in 56320..57343
Replacement == 65533

\* The bytes of a code point.
Utf8(codepoint) ==
    IF codepoint < 128 THEN <<codepoint>>
    ELSE IF codepoint < 2048 THEN <<192 + codepoint \div 64, 128 + (codepoint % 64)>>
    ELSE IF codepoint < 65536
    THEN <<224 + codepoint \div 4096, 128 + ((codepoint \div 64) % 64), 128 + (codepoint % 64)>>
    ELSE <<240 + codepoint \div 262144, 128 + ((codepoint \div 4096) % 64),
           128 + ((codepoint \div 64) % 64), 128 + (codepoint % 64)>>

\* Mutant: the unit after a high surrogate is taken with it, whatever it is.
PairedWithAnything(bytes, i) == IsHigh(Unit(bytes, i)) /\ i + 3 <= Len(bytes)

\* A high surrogate that a low one follows.
Paired(bytes, i) ==
    IsHigh(Unit(bytes, i)) /\ i + 3 <= Len(bytes) /\ IsLow(Unit(bytes, i + 2))

Codepoint(bytes, i) ==
    LET unit == Unit(bytes, i) IN
    IF Paired(bytes, i) THEN 65536 + (unit - 55296) * 1024 + (Unit(bytes, i + 2) - 56320)
    ELSE IF IsHigh(unit) \/ IsLow(unit) THEN Replacement
    ELSE unit

Utf16leToUtf8(bytes) ==
    LET from[i \in 1..(Len(bytes) + 4)] ==
            IF i + 1 > Len(bytes) THEN <<>>
            ELSE Utf8(Codepoint(bytes, i)) \o from[i + (IF Paired(bytes, i) THEN 4 ELSE 2)]
    IN  from[1]

-----------------------------------------------------------------------------
\* usb_configuration::parse.  "complete" is what it returns.
NoConfiguration == [value |-> 0, interfaces |-> <<>>, functional |-> <<>>, complete |-> TRUE]

\* The descriptors of a set, by the length each declares; <<>> for one whose
\* length is impossible.
Split(data) ==
    LET from[at \in 1..(Len(data) + 1)] ==
            LET end == at + data[at] - 1 IN
            IF at > Len(data) THEN <<>>
            ELSE IF at = Len(data) \/ data[at] < 2 \/ end > Len(data) THEN <<<<>>>>
            ELSE <<SubSeq(data, at, end)>> \o from[end + 1]
    IN  from[1]

TooShort(d) == d[2] \in {Config, Interface, Endpoint} /\ Len(d) < SizeOf[d[2]]

\* Mutant: 0x21 is a DFU functional descriptor wherever it is.
IsDFUAnywhere(config) == TRUE

\* Inside a DFU interface: the one that was declared last.
IsDFU(config) ==
    config.interfaces # <<>> /\ Last(config.interfaces).class = DfuClass

\* One iteration of the loop; once it has returned false it takes no more.
Added(config, d) ==
    IF ~config.complete THEN config
    ELSE IF d = <<>> \/ TooShort(d) THEN [config EXCEPT !.complete = FALSE]
    ELSE CASE d[2] = Config -> [config EXCEPT !.value = d[4]]
           [] d[2] = Interface ->
                [config EXCEPT !.interfaces = Append(@,
                    [number |-> d[3], alternate |-> d[4], class |-> d[5], endpoints |-> <<>>])]
           [] d[2] = Endpoint /\ config.interfaces # <<>> ->
                [config EXCEPT !.interfaces[Len(config.interfaces)].endpoints = Append(@, d[3])]
           [] d[2] = Functional /\ IsDFU(config) -> [config EXCEPT !.functional = d]
           [] OTHER -> config

Parse(data) ==
    LET parts == Split(data)
        after[k \in 0..Len(parts)] ==
            IF k = 0 THEN NoConfiguration ELSE Added(after[k - 1], parts[k])
    IN  after[Len(parts)]

-----------------------------------------------------------------------------
\* Assignment to a key of a map.
With(map, key, value) ==
    [k \in DOMAIN map \cup {key} |-> IF k = key THEN value ELSE map[k]]

\* The cases of processDescriptor.
ReadDevice(data) ==
    /\ m_deviceDescriptor' = IF Len(data) < SizeOf[Device] THEN m_deviceDescriptor ELSE data
    /\ UNCHANGED <<m_configurations, m_strings, m_bosDescriptors, m_anomalies>>

\* The whole set, and not the read of its first descriptor for wTotalLength.
IsWholeSet(data) ==
    Len(data) >= SizeOf[Config] /\ Len(data) >= data[3] /\ data[3] > SizeOf[Config]

\* Mutant: what was read last is kept.
KeptNew(config) == With(m_configurations, config.value, config)

\* A configuration that is known keeps its experts, and so is not replaced.
Kept(config) ==
    IF config.value \in DOMAIN m_configurations THEN m_configurations
    ELSE With(m_configurations, config.value, config)

ReadConfig(data) ==
    /\ IF IsWholeSet(data)
       THEN LET config == Parse(SubSeq(data, 1, data[3])) IN
            /\ m_anomalies' = m_anomalies + (IF config.complete THEN 0 ELSE 1)
            /\ m_configurations' = Kept(config)
       ELSE UNCHANGED <<m_anomalies, m_configurations>>
    /\ UNCHANGED <<m_deviceDescriptor, m_strings, m_bosDescriptors>>

\* String zero is the list of languages.
ReadString(index, data) ==
    /\ m_strings' = IF index = 0 \/ data[1] < 2 \/ Len(data) < data[1] THEN m_strings
                    ELSE With(m_strings, index, Utf16leToUtf8(SubSeq(data, 3, data[1])))
    /\ UNCHANGED <<m_deviceDescriptor, m_configurations, m_bosDescriptors, m_anomalies>>

ReadBOS(data) ==
    /\ m_bosDescriptors' =
           IF \/ Len(data) < SizeOf[BOS] \/ data[3] < SizeOf[BOS] \/ Len(data) < data[3]
              \/ data[3] = SizeOf[BOS] /\ data[4] # 0
           THEN m_bosDescriptors ELSE Append(m_bosDescriptors, SubSeq(data, 1, data[3]))
    /\ UNCHANGED <<m_deviceDescriptor, m_configurations, m_strings, m_anomalies>>

ProcessDescriptor(type, index, data) ==
    IF Len(data) < 2 THEN UNCHANGED <<learnt, m_anomalies>>
    ELSE IF data[2] # type THEN m_anomalies' = m_anomalies + 1 /\ UNCHANGED learnt
    ELSE CASE type = Device -> ReadDevice(data)
           [] type = Config -> ReadConfig(data)
           [] type = String -> ReadString(index, data)
           [] type = BOS -> ReadBOS(data)

-----------------------------------------------------------------------------
\* The answers of the device, in full.
DeviceAnswer == <<SizeOf[Device], Device, deviceRead.id>>

\* The descriptor that is wrong says another length than it has.
Encoded(configuration, i) ==
    IF i = configuration.bad THEN [configuration.nodes[i] EXCEPT ![1] = configuration.length]
    ELSE configuration.nodes[i]

ConfigAnswer(configuration) ==
    FlattenSeq([i \in DOMAIN configuration.nodes |-> Encoded(configuration, i)])

StringAnswer(units) ==
    LET bytes == FlattenSeq([i \in DOMAIN units |-> <<units[i] % 256, units[i] \div 256>>])
                     \o deviceRead.stray
    IN  <<2 + Len(bytes), String>> \o bytes

BOSAnswer ==
    <<SizeOf[BOS], BOS, SizeOf[BOS] + Len(deviceRead.capabilities), Len(deviceRead.capabilities)>>
        \o deviceRead.capabilities

\* The answers to a request, by type and index; a device may be wrong and
\* answer one of another type.
Answers(type, index) ==
    CASE type = Device -> {DeviceAnswer}
      [] type = Config -> {ConfigAnswer(deviceRead.configurations[i]) :
                              i \in DOMAIN deviceRead.configurations \cap {index + 1}}
                          \cup {DeviceAnswer}
      [] type = String -> IF index = 0 THEN {<<4, String, 9, 4>>}
                          ELSE {StringAnswer(deviceRead.strings[language][index]) :
                                  language \in {l \in DOMAIN deviceRead.strings :
                                                    index \in DOMAIN deviceRead.strings[l]}}
      [] type = BOS -> {BOSAnswer}

\* The host reads what it likes of a descriptor, or the capture keeps no more.
Read ==
    /\ reads < MaxReads /\ reads' = reads + 1
    /\ \E type \in {Device, Config, String, BOS}, index \in 0..2 :
        \E answer \in Answers(type, index) :
            \E n \in 0..Len(answer) :
                ProcessDescriptor(type, index, SubSeq(answer, 1, n))
    /\ UNCHANGED deviceRead

ReadSpec == ReadInit /\ [][Read]_readVars

-----------------------------------------------------------------------------
\* What the strings of the device are: no decoding loop, but which units are
\* halves of a pair and which stand alone; and the code points a sequence of
\* bytes is the UTF-8 of.
IsSecondHalf(units, i) == i > 1 /\ IsLow(units[i]) /\ IsHigh(units[i - 1])
IsFirstHalf(units, i) == i < Len(units) /\ IsSecondHalf(units, i + 1)

ScalarAt(units, i) ==
    IF IsFirstHalf(units, i) THEN 65536 + 1024 * (units[i] % 1024) + (units[i + 1] % 1024)
    ELSE IF units[i] \in 55296..57343 THEN Replacement ELSE units[i]

Scalars(units) ==
    FlattenSeq([i \in DOMAIN units |->
        IF IsSecondHalf(units, i) THEN <<>> ELSE <<ScalarAt(units, i)>>])

IsTrailing(byte) == 128 <= byte /\ byte < 192

\* The code point whose first byte is at a position.
DecodedAt(bytes, i) ==
    LET bits(k) == bytes[i + k] % 64 IN
    IF bytes[i] < 128 THEN bytes[i]
    ELSE IF bytes[i] < 224 THEN 64 * (bytes[i] % 32) + bits(1)
    ELSE IF bytes[i] < 240 THEN 4096 * (bytes[i] % 16) + 64 * bits(1) + bits(2)
    ELSE 262144 * (bytes[i] % 8) + 4096 * bits(1) + 64 * bits(2) + bits(3)

ScalarsOf(bytes) ==
    FlattenSeq([i \in DOMAIN bytes |->
        IF IsTrailing(bytes[i]) THEN <<>> ELSE <<DecodedAt(bytes, i)>>])

\* Every string known is one the device has at that index, in some language,
\* whatever its UTF-16 is: pairs are one character, half a pair is U+FFFD, and
\* what was read only in part is no string.
StringsAreDevices ==
    \A index \in DOMAIN m_strings : \E language \in DOMAIN deviceRead.strings :
        /\ index \in DOMAIN deviceRead.strings[language]
        /\ ScalarsOf(m_strings[index]) = Scalars(deviceRead.strings[language][index])

\* The tree a sequence of descriptors announces.
LastInterface(nodes, i) == Max({0} \cup {j \in 1..i : nodes[j][2] = Interface})

EndpointsOf(nodes, j) ==
    FlattenSeq([i \in DOMAIN nodes |->
        IF nodes[i][2] = Endpoint /\ LastInterface(nodes, i) = j THEN <<nodes[i][3]>> ELSE <<>>])

InterfacesOf(nodes) ==
    FlattenSeq([j \in DOMAIN nodes |->
        IF nodes[j][2] # Interface THEN <<>>
        ELSE <<[number |-> nodes[j][3], alternate |-> nodes[j][4], class |-> nodes[j][5],
                endpoints |-> EndpointsOf(nodes, j)]>>])

Functionals(nodes) ==
    {i \in DOMAIN nodes : /\ nodes[i][2] = Functional
                          /\ LastInterface(nodes, i) # 0
                          /\ nodes[LastInterface(nodes, i)][5] = DfuClass}

Announced(nodes, complete) ==
    [value |-> IF nodes = <<>> THEN 0 ELSE nodes[1][4],
     interfaces |-> InterfacesOf(nodes),
     functional |-> IF Functionals(nodes) = {} THEN <<>> ELSE nodes[Max(Functionals(nodes))],
     complete |-> complete]

\* Every configuration known is one the device announces, with every alternate
\* setting, its own endpoints and no HID descriptor taken for DFU; of a malformed
\* one, all that is before the mistake.  Binary object stores are whole.
ConfigurationsAreAnnounced ==
    /\ \A value \in DOMAIN m_configurations : \E i \in DOMAIN deviceRead.configurations :
        LET c == deviceRead.configurations[i]
            good == IF c.bad = 0 THEN c.nodes ELSE SubSeq(c.nodes, 1, c.bad - 1) IN
        /\ m_configurations[value] = Announced(good, c.bad = 0)
        /\ m_configurations[value].value = value
    /\ ToSet(m_bosDescriptors) \subseteq {BOSAnswer}

\* No later read changes what is known of a configuration, and none, also one
\* that brings only a part or the wrong descriptor, takes away what is known.
Learns ==
    /\ \A value \in DOMAIN m_configurations :
           value \in DOMAIN m_configurations' /\ m_configurations'[value] = m_configurations[value]
    /\ DOMAIN m_strings \subseteq DOMAIN m_strings'
    /\ m_deviceDescriptor # <<>> => m_deviceDescriptor' = m_deviceDescriptor
    /\ IsPrefix(m_bosDescriptors, m_bosDescriptors')

KnownStaysKnown == [][Learns]_readVars
=============================================================================
