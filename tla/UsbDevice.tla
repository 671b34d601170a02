------------------------------ MODULE UsbDevice ------------------------------
(***************************************************************************)
(* Device (src/usb/Device.h, Device.cpp): what a session has learned of a  *)
(* USB device from the control transfers in the capture, and the expert    *)
(* that each transfer is handed to because of it.                          *)
(*                                                                         *)
(* The device really has the configurations of its descriptors, and is in  *)
(* one of them with one alternate setting of each interface.  The capture  *)
(* has its traffic from the start, or begins late: then the host has read  *)
(* descriptors and set the device up unseen, and may do so again or not.   *)
(*                                                                         *)
(* A descriptor is what routing looks at.  Of the device descriptor it is  *)
(* the mode of getMode ("normal" is an Apple device with none of the known *)
(* product ids, "other" is not Apple).  Of a configuration it is the       *)
(* interfaces, every alternate setting in descriptor order.                *)
(***************************************************************************)
EXTENDS Integers, Sequences, FiniteSets, SequencesExt

CONSTANTS
    Devices       \* [mode, configurations: bConfigurationValue -> interfaces]

Modes == {"dfu", "recovery", "normal", "other"}
Classes == {"usbmux", "dfu", "else"}
InterfaceSetting == [number : Nat, alternate : Nat, class : Classes, endpoints : SUBSET (0..255)]

\* USB 2.0: configuration values are bytes and not zero, and no endpoint is in two
\* interfaces.  A configuration without interfaces is never read (the test of
\* wTotalLength in processDescriptor).  The alternate settings of an interface
\* are of one class or of none that is known.
ASSUME DevicesAssumption ==
    \A d \in Devices :
        /\ d.mode \in Modes
        /\ DOMAIN d.configurations # {}
        /\ \A v \in DOMAIN d.configurations :
            /\ v \in 1 .. 255
            /\ d.configurations[v] \in Seq(InterfaceSetting) \ {<<>>}
            /\ \A i, j \in DOMAIN d.configurations[v] :
                LET a == d.configurations[v][i]
                    b == d.configurations[v][j]
                IN  /\ a.endpoints \cap b.endpoints # {} => a.number = b.number
                    /\ a.number = b.number /\ a.class = "dfu" => b.class # "usbmux"

VARIABLES
    device,       \* the device on the address
    late,         \* whether the capture begins after the host set it up
    configured,   \* the configuration the device is in, 0 for none
    settings,     \* its alternate settings: interface number -> alternate
    known,        \* m_deviceDescriptor: its mode, or "none"
    configurations, \* m_configurations: value -> the expert of each interface
    currentConfiguration, \* m_currentConfiguration
    alternates,   \* m_alternates: interface number -> alternate
    handed        \* the last transfer: who got it, and who should have

deviceVars == <<known, configurations, currentConfiguration, alternates>>
busVars == <<device, late, configured, settings>>
vars == <<busVars, deviceVars, handed>>

\* Experts are told apart by what they were made for.
NoExpert == [kind |-> "none", configuration |-> 0, interface |-> 0]

Interfaces(v) == device.configurations[v]
Numbers(v) == {Interfaces(v)[i].number : i \in DOMAIN Interfaces(v)}
AllNumbers == UNION {Numbers(v) : v \in DOMAIN device.configurations}
Settings(v, n) ==
    {Interfaces(v)[i].alternate : i \in {j \in DOMAIN Interfaces(v) : Interfaces(v)[j].number = n}}

AllSettings ==
    {0} \cup UNION {Settings(v, n) : v \in DOMAIN device.configurations, n \in AllNumbers}

Expert == [kind : {"none", "dfu", "recovery", "usbmux"}, configuration : Nat, interface : Nat]

TypeOK ==
    /\ device \in Devices /\ late \in BOOLEAN
    /\ configured \in DOMAIN device.configurations \cup {0}
    /\ settings \in [AllNumbers -> AllSettings]
    /\ known \in {"none", device.mode}
    /\ DOMAIN configurations \subseteq DOMAIN device.configurations
    /\ \A v \in DOMAIN configurations :
        /\ configurations[v] \in Seq(Expert)
        /\ Len(configurations[v]) = Len(Interfaces(v))
    /\ currentConfiguration \in DOMAIN device.configurations \cup {0}
    /\ DOMAIN alternates \subseteq AllNumbers
    /\ \A n \in DOMAIN alternates : alternates[n] \in AllSettings
    /\ handed \in [to : Expert, due : SUBSET Expert]

\* map[key] = value, whether the key is in the map or not.
Assigned(map, key, value) ==
    [k \in DOMAIN map \cup {key} |-> IF k = key THEN value ELSE map[k]]

\* Every interface has its alternate setting zero in a configuration just set.
DefaultSettings == [n \in AllNumbers |-> 0]

Init ==
    /\ device \in Devices
    /\ late \in BOOLEAN
    /\ \/ configured = 0 /\ settings = DefaultSettings
       \/ /\ late /\ configured \in DOMAIN device.configurations
          /\ settings \in [AllNumbers -> AllSettings]
          /\ \A n \in AllNumbers :
                 settings[n] = 0 \/ settings[n] \in Settings(configured, n)
    /\ known = "none"
    /\ configurations = <<>> /\ currentConfiguration = 0 /\ alternates = <<>>
    /\ handed = [to |-> NoExpert, due |-> {NoExpert}]

-----------------------------------------------------------------------------
(* The experts of a configuration. *)

\* isApple, isAppleDFU and isAppleRecovery, as far as the session knows.
IsApple == known \in {"dfu", "recovery", "normal"}

Decoded(class) ==
    CASE class = "usbmux" /\ IsApple -> "usbmux"
      [] class = "dfu" -> "dfu"
      [] OTHER -> "none"

\* Mutant: an expert is not shared with the earlier alternate settings.
AttachExpertsForward(v) ==
    [i \in DOMAIN Interfaces(v) |->
        IF known \in {"dfu", "recovery"}
        THEN [kind |-> known, configuration |-> v, interface |-> 0]
        ELSE LET n == Interfaces(v)[i].number
                 first == SelectInSeq(SubSeq(Interfaces(v), 1, i),
                             LAMBDA a : a.number = n /\ Decoded(a.class) # "none")
             IN  IF first = 0 THEN NoExpert
                 ELSE [kind |-> Decoded(Interfaces(v)[first].class),
                       configuration |-> v, interface |-> n]]

\* A DFU or recovery device has one expert.  Otherwise all alternate settings
\* of an interface share the one of the first that has a known class.
AttachExperts(v) ==
    [i \in DOMAIN Interfaces(v) |->
        IF known \in {"dfu", "recovery"}
        THEN [kind |-> known, configuration |-> v, interface |-> 0]
        ELSE LET n == Interfaces(v)[i].number
                 first == SelectInSeq(Interfaces(v),
                             LAMBDA a : a.number = n /\ Decoded(a.class) # "none")
             IN  IF first = 0 THEN NoExpert
                 ELSE [kind |-> Decoded(Interfaces(v)[first].class),
                       configuration |-> v, interface |-> n]]

-----------------------------------------------------------------------------
(* The expert of a transfer.  "None" stands for a null configuration. *)

None == 0

GetAlternateSetting(n) == IF n \in DOMAIN alternates THEN alternates[n] ELSE 0

\* The configuration with the least value: begin() of the map.
FirstConfiguration == Min(DOMAIN configurations)

ActiveConfiguration ==
    CASE currentConfiguration \in DOMAIN configurations -> currentConfiguration
      [] currentConfiguration = 0 /\ Cardinality(DOMAIN configurations) = 1 ->
            FirstConfiguration
      [] OTHER -> None

\* Mutant: the endpoint is looked for as the capture reports it.
AddressAsReported(endpoint, in) == endpoint

\* processBulkPacketIn and processBulkPacketOut set or clear the direction bit.
Address(endpoint, in) == (endpoint % 128) + (IF in THEN 128 ELSE 0)

\* The interface whose current alternate setting declares the endpoint, or the
\* first one that declares it in another.
GetExpertForEndpoint(endpoint) ==
    IF ActiveConfiguration = None THEN NoExpert ELSE
    LET v == ActiveConfiguration
        declaring == {i \in DOMAIN Interfaces(v) : endpoint \in Interfaces(v)[i].endpoints}
        current == {i \in declaring : Interfaces(v)[i].alternate =
                                      GetAlternateSetting(Interfaces(v)[i].number)}
        fallback == {i \in declaring : configurations[v][i] # NoExpert}
    IN  CASE current # {}  -> configurations[v][Min(current)]
          [] current = {} /\ fallback # {} -> configurations[v][Min(fallback)]
          [] OTHER -> NoExpert

\* The recipient is the number of an interface, in a sequence, or <<>> for
\* the device.
GetExpertForControl(recipient) ==
    IF DOMAIN configurations = {} THEN NoExpert ELSE
    LET v == IF ActiveConfiguration = None THEN FirstConfiguration ELSE ActiveConfiguration
        meant == {i \in DOMAIN Interfaces(v) :
                     IF recipient = <<>> THEN configurations[v][i] # NoExpert
                     ELSE <<Interfaces(v)[i].number>> = recipient}
    IN  IF meant = {} THEN NoExpert ELSE configurations[v][Min(meant)]

-----------------------------------------------------------------------------
(* The host. *)

\* GET_DESCRIPTOR(DEVICE), of all of it or of the first eight bytes.
ReadDeviceDescriptor ==
    /\ \E whole \in BOOLEAN : known' = IF whole THEN device.mode ELSE known
    /\ UNCHANGED <<busVars, configurations, currentConfiguration, alternates, handed>>

\* Mutant: the nine bytes a host reads first are a configuration.
ReadConfigurationHeader(v) ==
    /\ late \/ known # "none"
    /\ \E whole \in BOOLEAN :
           configurations' =
               IF v \in DOMAIN configurations THEN configurations
               ELSE Assigned(configurations, v, IF whole THEN AttachExperts(v) ELSE <<>>)
    /\ UNCHANGED <<busVars, known, currentConfiguration, alternates, handed>>

\* GET_DESCRIPTOR(CONFIGURATION), of all of it or of the header.  Reading one
\* again changes nothing.
ReadConfiguration(v) ==
    /\ late \/ known # "none"
    /\ \E whole \in BOOLEAN :
           configurations' =
               IF ~whole \/ v \in DOMAIN configurations THEN configurations
               ELSE Assigned(configurations, v, AttachExperts(v))
    /\ UNCHANGED <<busVars, known, currentConfiguration, alternates, handed>>

\* Mutant: alternate settings outlive the configuration.
SetConfigurationKeeps(v) ==
    /\ late \/ v = 0 \/ v \in DOMAIN configurations
    /\ configured' = v /\ settings' = DefaultSettings
    /\ currentConfiguration' = v
    /\ UNCHANGED <<device, late, known, configurations, alternates, handed>>

SetConfiguration(v) ==
    /\ late \/ v = 0 \/ v \in DOMAIN configurations
    /\ configured' = v /\ settings' = DefaultSettings
    /\ currentConfiguration' = v /\ alternates' = <<>>
    /\ UNCHANGED <<device, late, known, configurations, handed>>

SetInterface(n, a) ==
    /\ configured # 0 /\ a \in Settings(configured, n)
    /\ settings' = [settings EXCEPT ![n] = a]
    /\ alternates' = Assigned(alternates, n, a)
    /\ UNCHANGED <<device, late, configured, known, configurations,
                   currentConfiguration, handed>>

\* A port reset, which is no transfer.  The device is then not configured.
Reset ==
    /\ configured' = 0 /\ settings' = DefaultSettings
    /\ UNCHANGED <<device, late, deviceVars, handed>>

\* The expert a device's interface needs, from what the device is.
Due(v, n) ==
    LET numbered == {i \in DOMAIN Interfaces(v) : Interfaces(v)[i].number = n}
        Has(class) == \E i \in numbered : Interfaces(v)[i].class = class
    IN  CASE device.mode \in {"dfu", "recovery"} ->
                [kind |-> device.mode, configuration |-> v, interface |-> 0]
          [] device.mode = "normal" /\ Has("usbmux") ->
                [kind |-> "usbmux", configuration |-> v, interface |-> n]
          [] device.mode \in {"normal", "other"} /\ Has("dfu") ->
                [kind |-> "dfu", configuration |-> v, interface |-> n]
          [] OTHER -> NoExpert

\* A bulk transfer on an endpoint of the settings the device is in.  Capture
\* formats report the endpoint with the direction bit or without.
Bulk ==
    /\ configured # 0
    /\ \E i \in DOMAIN Interfaces(configured) :
        LET interface == Interfaces(configured)[i] IN
        /\ settings[interface.number] = interface.alternate
        /\ \E endpoint \in interface.endpoints :
           \E reported \in {endpoint, endpoint % 128} :
               handed' = [to |-> GetExpertForEndpoint(Address(reported, endpoint >= 128)),
                          due |-> {Due(configured, interface.number)}]
    /\ UNCHANGED <<busVars, deviceVars>>

\* A class or vendor request to an interface.
ControlOfInterface ==
    /\ configured # 0
    /\ \E n \in Numbers(configured) :
           handed' = [to |-> GetExpertForControl(<<n>>), due |-> {Due(configured, n)}]
    /\ UNCHANGED <<busVars, deviceVars>>

\* One to the device, for any interface that has an expert.  It may be sent
\* before the device is configured.
ControlOfDevice ==
    /\ late \/ DOMAIN configurations # {}
    /\ LET values == IF configured # 0 THEN {configured} ELSE DOMAIN device.configurations
           all == UNION {{Due(v, n) : n \in Numbers(v)} : v \in values}
       IN  handed' = [to |-> GetExpertForControl(<<>>),
                      due |-> IF configured # 0 /\ all # {NoExpert}
                              THEN all \ {NoExpert} ELSE all]
    /\ UNCHANGED <<busVars, deviceVars>>

Next ==
    \/ ReadDeviceDescriptor
    \/ \E v \in DOMAIN device.configurations : ReadConfiguration(v)
    \/ \E v \in DOMAIN device.configurations \cup {0} : SetConfiguration(v)
    \/ \E n \in AllNumbers, a \in AllSettings : SetInterface(n, a)
    \/ Reset \/ Bulk \/ ControlOfInterface \/ ControlOfDevice

Spec == Init /\ [][Next]_vars

-----------------------------------------------------------------------------
\* The configuration and the alternate settings are the device's, from the
\* first SET_CONFIGURATION in the capture on (README, Device State
\* Reconstruction: "following SET_CONFIGURATION and SET_INTERFACE").
ConfigurationTracked ==
    configured # 0 /\ (late => currentConfiguration # 0) =>
        /\ currentConfiguration = configured
        /\ \A n \in AllNumbers : GetAlternateSetting(n) = settings[n]

\* In a capture that begins with the device every transfer goes to the expert
\* of the interface it belongs to, and to none where there is none, whatever
\* configurations and settings the host went through.
EveryTransferRouted == ~late => handed.to \in handed.due

\* What is handed on may be lost to no expert, never to the wrong one.
Harmless ==
    handed.to = NoExpert \/ \E e \in handed.due :
        e.kind = handed.to.kind /\ e.configuration = handed.to.configuration

\* In a capture that begins late a device with one configuration has no
\* transfer decoded by the wrong expert, whatever of its descriptors is read
\* again and in whatever order (README: "the single configuration and the
\* first alternate declaring the endpoint are used").  The exception is an
\* interface of the DFU class in recovery mode, which attachExperts takes for
\* one of a DFU device as long as the device descriptor has not been read.
LateTransfersHarmless ==
    /\ Cardinality(DOMAIN device.configurations) = 1
    /\ device.mode = "recovery" =>
           \A v \in DOMAIN device.configurations : \A i \in DOMAIN Interfaces(v) :
               Interfaces(v)[i].class # "dfu"
    => Harmless

\* The same of a device with several: "With a single configuration there is
\* no ambiguity" (activeConfiguration), where single means known so far.
KnownConfigurationIsActive == Harmless
=============================================================================
