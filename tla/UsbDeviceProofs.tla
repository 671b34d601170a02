--------------------------- MODULE UsbDeviceProofs --------------------------
(***************************************************************************)
(* For every set of devices: a session follows its device's configuration *)
(* and alternate settings, and in a capture from the start hands each      *)
(* transfer to the expert of the interface it is for; what is learnt of a  *)
(* device is not lost, and its strings are its own.                        *)
(***************************************************************************)
EXTENDS UsbDevice, UsbDescriptors, SequenceLemmas

\* The part of the state that ConfigurationTracked is about.
BusTyped ==
    /\ device \in Devices
    /\ DOMAIN settings = AllNumbers
    /\ DOMAIN alternates \subseteq AllNumbers

TrackedInv == BusTyped /\ ConfigurationTracked

LEMMA TrackedInit == Init => TrackedInv
<1> SUFFICES ASSUME Init PROVE TrackedInv
  OBVIOUS
<1>1. DOMAIN settings = AllNumbers
  BY DEF Init, DefaultSettings
<1>2. DOMAIN alternates = {}
  BY EmptySeq DEF Init
<1>3. configured # 0 /\ (late => currentConfiguration # 0) => FALSE
  BY DEF Init
<1> QED BY <1>1, <1>2, <1>3 DEF TrackedInv, BusTyped, ConfigurationTracked, Init

LEMMA TrackedNext == TrackedInv /\ [Next]_vars => TrackedInv'
<1> SUFFICES ASSUME TrackedInv, [Next]_vars PROVE TrackedInv'
  OBVIOUS
<1> USE DEF TrackedInv
\* The device stays, and with it the interface numbers.
<1>1. ASSUME device' = device PROVE AllNumbers' = AllNumbers
  BY <1>1 DEF AllNumbers, Numbers, Interfaces
<1>2. ASSUME UNCHANGED <<device, late, configured, settings, currentConfiguration, alternates>>
      PROVE  TrackedInv'
  BY <1>1, <1>2 DEF BusTyped, ConfigurationTracked, GetAlternateSetting
<1>3. ASSUME NEW v \in DOMAIN device.configurations \cup {0}, SetConfiguration(v)
      PROVE  TrackedInv'
  <2>1. settings' = [n \in AllNumbers |-> 0] /\ DOMAIN alternates' = {}
    BY <1>3, EmptySeq DEF SetConfiguration, DefaultSettings
  <2>2. AllNumbers' = AllNumbers /\ device' = device
    BY <1>1, <1>3 DEF SetConfiguration
  <2>3. currentConfiguration' = v /\ configured' = v
    BY <1>3 DEF SetConfiguration
  <2> QED BY <2>1, <2>2, <2>3 DEF BusTyped, ConfigurationTracked, GetAlternateSetting
<1>4. ASSUME NEW n \in AllNumbers, NEW a \in AllSettings, SetInterface(n, a)
      PROVE  TrackedInv'
  <2>1. AllNumbers' = AllNumbers /\ device' = device
    BY <1>1, <1>4 DEF SetInterface
  <2>2. /\ settings' = [settings EXCEPT ![n] = a]
        /\ alternates' = [k \in DOMAIN alternates \cup {n} |->
                             IF k = n THEN a ELSE alternates[k]]
        /\ UNCHANGED <<late, configured, currentConfiguration>>
    BY <1>4 DEF SetInterface, Assigned
  <2>3. BusTyped'
    BY <2>1, <2>2 DEF BusTyped
  <2>4. ASSUME NEW m \in AllNumbers, GetAlternateSetting(m) = settings[m]
        PROVE  GetAlternateSetting(m)' = settings'[m]
    BY <2>2, <2>4 DEF GetAlternateSetting, BusTyped
  <2> QED BY <2>1, <2>2, <2>3, <2>4 DEF ConfigurationTracked
<1>5. ASSUME Reset PROVE TrackedInv'
  <2>1. /\ AllNumbers' = AllNumbers
        /\ settings' = [n \in AllNumbers |-> 0]
        /\ configured' = 0
    BY <1>1, <1>5 DEF Reset, DefaultSettings
  <2> QED BY <1>5, <2>1 DEF Reset, deviceVars, BusTyped, ConfigurationTracked
<1>6. CASE UNCHANGED vars
  BY <1>2, <1>6 DEF vars, busVars, deviceVars
<1>7. CASE \E v \in DOMAIN device.configurations : ReadConfiguration(v)
  BY <1>2, <1>7 DEF ReadConfiguration, busVars
<1>8. CASE ReadDeviceDescriptor \/ Bulk \/ ControlOfInterface \/ ControlOfDevice
  BY <1>2, <1>8 DEF ReadDeviceDescriptor, Bulk, ControlOfInterface, ControlOfDevice,
                    busVars, deviceVars
<1> QED BY <1>3, <1>4, <1>5, <1>6, <1>7, <1>8 DEF Next

\* From the first SET_CONFIGURATION in the capture on, and from its start
\* when it begins with the device, a session has the configuration and the
\* alternate settings the device is in (processControlPacketOut).
THEOREM ConfigurationIsDevices == Spec => []ConfigurationTracked
<1>1. TrackedInv => ConfigurationTracked
  BY DEF TrackedInv
<1> QED BY TrackedInit, TrackedNext, <1>1, PTL DEF Spec

-----------------------------------------------------------------------------
\* Routing.  The experts a session attaches, as Due has them:
DueOf(v) == [i \in DOMAIN Interfaces(v) |-> Due(v, Interfaces(v)[i].number)]

\* What is inductive about a session that is captured from its start.
Learned ==
    /\ device \in Devices
    /\ known \in {"none", device.mode}
    /\ configured \in DOMAIN device.configurations \cup {0}
    /\ DOMAIN configurations \subseteq DOMAIN device.configurations
    /\ ~late =>
        /\ DOMAIN configurations # {} => known = device.mode
        /\ \A v \in DOMAIN configurations : configurations[v] = DueOf(v)
        /\ configured # 0 => configured \in DOMAIN configurations

RoutedInv == TrackedInv /\ Learned /\ EveryTransferRouted

LEMMA InterfacesTyped ==
    ASSUME device \in Devices, NEW v \in DOMAIN device.configurations
    PROVE  /\ v \in 1 .. 255 /\ v \in Nat \ {0}
           /\ Interfaces(v) \in Seq(InterfaceSetting) /\ Interfaces(v) # <<>>
           /\ DOMAIN Interfaces(v) \in SUBSET Nat /\ DOMAIN Interfaces(v) # {}
           /\ \A i, j \in DOMAIN Interfaces(v) :
                LET a == Interfaces(v)[i]
                    b == Interfaces(v)[j]
                IN  /\ a.endpoints \cap b.endpoints # {} => a.number = b.number
                    /\ a.number = b.number /\ a.class = "dfu" => b.class # "usbmux"
<1>0. v \in 1 .. 255
  BY DevicesAssumption
<1>1. /\ v \in 1 .. 255 /\ v \in Nat \ {0}
      /\ Interfaces(v) \in Seq(InterfaceSetting) /\ Interfaces(v) # <<>>
  <2>1. v \in Nat \ {0}
    BY <1>0
  <2>2. Interfaces(v) \in Seq(InterfaceSetting) /\ Interfaces(v) # <<>>
    BY DevicesAssumption DEF Interfaces
  <2> QED BY <1>0, <2>1, <2>2
<1>2. DOMAIN Interfaces(v) \in SUBSET Nat /\ DOMAIN Interfaces(v) # {}
  <2> DEFINE s == Interfaces(v)
  <2>1. s \in Seq(InterfaceSetting) /\ s # <<>>
    BY <1>1
  <2> HIDE DEF s
  <2>2. DOMAIN s = 1..Len(s) /\ Len(s) \in Nat /\ Len(s) # 0
    BY <2>1, EmptySeq
  <2>3. DOMAIN s \in SUBSET Nat /\ 1 \in DOMAIN s
    BY <2>2
  <2> QED BY <2>3 DEF s
<1>3. \A i, j \in DOMAIN Interfaces(v) :
         LET a == Interfaces(v)[i]
             b == Interfaces(v)[j]
         IN  /\ a.endpoints \cap b.endpoints # {} => a.number = b.number
             /\ a.number = b.number /\ a.class = "dfu" => b.class # "usbmux"
  BY DevicesAssumption DEF Interfaces
<1> QED BY <1>1, <1>2, <1>3

\* attachExperts gives each interface the expert it needs, once the device
\* descriptor is known: the shared one, or that of the first alternate setting
\* with a class that is decoded, of which there is only one.
LEMMA AttachedIsDue ==
    ASSUME device \in Devices, NEW v \in DOMAIN device.configurations, known = device.mode
    PROVE  AttachExperts(v) = DueOf(v)
<1>1. device.mode \in Modes
  BY DevicesAssumption
<1>2. CASE device.mode \in {"dfu", "recovery"}
  BY <1>2 DEF AttachExperts, DueOf, Due
<1>3. CASE device.mode \in {"normal", "other"}
  <2> SUFFICES ASSUME NEW i \in DOMAIN Interfaces(v)
               PROVE  AttachExperts(v)[i] = Due(v, Interfaces(v)[i].number)
    BY DEF AttachExperts, DueOf
  <2> DEFINE n == Interfaces(v)[i].number
             I == {j \in 1..Len(Interfaces(v)) :
                      Interfaces(v)[j].number = n /\ Decoded(Interfaces(v)[j].class) # "none"}
             first == SelectInSeq(Interfaces(v),
                         LAMBDA a : a.number = n /\ Decoded(a.class) # "none")
             numbered == {j \in DOMAIN Interfaces(v) : Interfaces(v)[j].number = n}
  <2>1. first = IF I # {} THEN Min(I) ELSE 0
    BY DEF SelectInSeq
  <2>2. 1..Len(Interfaces(v)) = DOMAIN Interfaces(v) /\ I \in SUBSET Nat
    BY InterfacesTyped
  <2>3. AttachExperts(v)[i] =
            IF first = 0 THEN NoExpert
            ELSE [kind |-> Decoded(Interfaces(v)[first].class), configuration |-> v,
                  interface |-> n]
    BY <1>3 DEF AttachExperts
  <2>4. CASE I = {}
    <3>1. AttachExperts(v)[i] = NoExpert
      BY <2>1, <2>3, <2>4
    <3>2. \A j \in numbered : Decoded(Interfaces(v)[j].class) = "none"
      BY <2>2, <2>4
    <3>3. /\ \A j \in numbered : Interfaces(v)[j].class # "dfu"
          /\ device.mode = "normal" => \A j \in numbered : Interfaces(v)[j].class # "usbmux"
      BY <1>3, <3>2 DEF Decoded, IsApple
    <3> QED BY <1>3, <3>1, <3>3 DEF Due
  <2>5. CASE I # {}
    <3>1. first \in I
      <4> HIDE DEF I
      <4> QED BY <2>1, <2>2, <2>5, MinOfNaturals
    <3>2. /\ first # 0 /\ first \in numbered
          /\ Decoded(Interfaces(v)[first].class) # "none"
      BY <2>2, <3>1
    <3> DEFINE class == Interfaces(v)[first].class
    <3>3. class = "dfu" \/ (class = "usbmux" /\ device.mode = "normal")
      BY <1>3, <3>2 DEF Decoded, IsApple
    <3>4. class = "dfu" => \A j \in numbered : Interfaces(v)[j].class # "usbmux"
      BY <3>2, InterfacesTyped
    <3>5. AttachExperts(v)[i] = [kind |-> class, configuration |-> v, interface |-> n]
      BY <1>3, <2>3, <3>2, <3>3 DEF Decoded, IsApple
    <3>6. CASE class = "dfu"
      <4>1. ~\E j \in numbered : Interfaces(v)[j].class = "usbmux"
        BY <3>4, <3>6
      <4>2. \E j \in numbered : Interfaces(v)[j].class = "dfu"
        BY <3>2, <3>6
      <4>3. Due(v, n) = [kind |-> "dfu", configuration |-> v, interface |-> n]
        BY <1>3, <4>1, <4>2 DEF Due
      <4> QED BY <3>5, <3>6, <4>3
    <3>7. CASE class = "usbmux" /\ device.mode = "normal"
      <4>1. \E j \in numbered : Interfaces(v)[j].class = "usbmux"
        BY <3>2, <3>7
      <4>2. Due(v, n) = [kind |-> "usbmux", configuration |-> v, interface |-> n]
        <5>1. ~\E j \in numbered : Interfaces(v)[j].class = "dfu"
          BY <3>2, <3>7, InterfacesTyped
        <5> QED BY <3>7, <4>1, <5>1 DEF Due
      <4> QED BY <3>5, <3>7, <4>2
    <3> QED BY <3>3, <3>6, <3>7
  <2> QED BY <2>4, <2>5
<1> QED BY <1>1, <1>2, <1>3 DEF Modes

\* The configuration a session takes for the device's, once it knows one: the
\* current one when its descriptor was read.
LEMMA ActiveIsCurrent ==
    ASSUME currentConfiguration \in DOMAIN configurations, 0 \notin DOMAIN configurations
    PROVE  ActiveConfiguration = currentConfiguration
BY DEF ActiveConfiguration

\* Whether the capture reports an endpoint with its direction bit or without,
\* the bulk handlers find its address.
LEMMA AddressIsEndpoint ==
    ASSUME NEW endpoint \in 0..255, NEW reported \in {endpoint, endpoint % 128}
    PROVE  Address(reported, endpoint >= 128) = endpoint
<1>1. CASE endpoint >= 128
  <2>1. endpoint % 128 = endpoint - 128 /\ (endpoint - 128) % 128 = endpoint - 128
    BY <1>1
  <2> QED BY <1>1, <2>1 DEF Address
<1>2. CASE ~(endpoint >= 128)
  <2>1. endpoint % 128 = endpoint
    BY <1>2
  <2> QED BY <1>2, <2>1 DEF Address
<1> QED BY <1>1, <1>2

\* A bulk transfer: an interface in its current setting declares the endpoint,
\* and whichever declares it has the same number, hence the same expert.
LEMMA BulkRouted ==
    ASSUME TrackedInv, Learned, ~late, Bulk
    PROVE  handed'.to \in handed'.due
<1> DEFINE v == configured
           s == Interfaces(v)
<1>1. /\ v \in DOMAIN device.configurations /\ v \in DOMAIN configurations
      /\ configurations[v] = DueOf(v)
      /\ device \in Devices /\ v # 0
  BY DEF Bulk, Learned
<1>2. /\ currentConfiguration = v
      /\ \A n \in AllNumbers : GetAlternateSetting(n) = settings[n]
  BY <1>1 DEF Bulk, TrackedInv, ConfigurationTracked
<1>3. ActiveConfiguration = v /\ v # None
  <2>1. 0 \notin DOMAIN configurations
    BY <1>1, InterfacesTyped DEF Learned
  <2> QED BY <1>1, <1>2, <2>1, ActiveIsCurrent DEF None
<1>4. PICK i \in DOMAIN s :
          /\ settings[s[i].number] = s[i].alternate
          /\ \E endpoint \in s[i].endpoints :
             \E reported \in {endpoint, endpoint % 128} :
                handed' = [to |-> GetExpertForEndpoint(Address(reported, endpoint >= 128)),
                           due |-> {Due(v, s[i].number)}]
  BY DEF Bulk
<1>5. PICK endpoint \in s[i].endpoints :
          \E reported \in {endpoint, endpoint % 128} :
             handed' = [to |-> GetExpertForEndpoint(Address(reported, endpoint >= 128)),
                        due |-> {Due(v, s[i].number)}]
  BY <1>4
<1>5a. PICK reported \in {endpoint, endpoint % 128} :
             handed' = [to |-> GetExpertForEndpoint(Address(reported, endpoint >= 128)),
                        due |-> {Due(v, s[i].number)}]
  BY <1>5
<1> DEFINE address == Address(reported, endpoint >= 128)
           declaring == {k \in DOMAIN s : address \in s[k].endpoints}
           current == {k \in declaring : s[k].alternate = GetAlternateSetting(s[k].number)}
<1>6. address = endpoint
  <2>1. s[i] \in InterfaceSetting
    BY <1>1, InterfacesTyped
  <2>2. endpoint \in 0..255
    BY <2>1 DEF InterfaceSetting
  <2> QED BY <2>2, AddressIsEndpoint
<1>7. i \in current
  <2>1. s[i].number \in AllNumbers
    BY <1>1 DEF AllNumbers, Numbers
  <2> QED BY <1>2, <1>4, <1>6, <2>1
<1>8. GetExpertForEndpoint(address) = configurations[v][Min(current)]
  BY <1>3, <1>7 DEF GetExpertForEndpoint
<1>9. Min(current) \in current
  <2>1. current \in SUBSET Nat
    BY <1>1, InterfacesTyped
  <2> HIDE DEF current
  <2> QED BY <1>7, <2>1, MinOfNaturals
<1>10. s[Min(current)].number = s[i].number
  BY <1>1, <1>6, <1>9, InterfacesTyped
<1>11. configurations[v][Min(current)] = Due(v, s[i].number)
  BY <1>1, <1>9, <1>10 DEF DueOf
<1> QED BY <1>5a, <1>8, <1>11

\* A request to an interface of the configuration the device is in.
LEMMA InterfaceRouted ==
    ASSUME TrackedInv, Learned, ~late, ControlOfInterface
    PROVE  handed'.to \in handed'.due
<1> DEFINE v == configured
           s == Interfaces(v)
<1>1. /\ v \in DOMAIN device.configurations /\ v \in DOMAIN configurations
      /\ configurations[v] = DueOf(v)
      /\ device \in Devices /\ v # 0
  BY DEF ControlOfInterface, Learned
<1>2. currentConfiguration = v
  BY <1>1 DEF TrackedInv, ConfigurationTracked
<1>3. ActiveConfiguration = v /\ v # None /\ DOMAIN configurations # {}
  <2>1. 0 \notin DOMAIN configurations
    BY <1>1, InterfacesTyped DEF Learned
  <2> QED BY <1>1, <1>2, <2>1, ActiveIsCurrent DEF None
<1>4. PICK n \in Numbers(v) :
          handed' = [to |-> GetExpertForControl(<<n>>), due |-> {Due(v, n)}]
  BY DEF ControlOfInterface
<1> DEFINE meant == {i \in DOMAIN s : <<s[i].number>> = <<n>>}
<1>5. GetExpertForControl(<<n>>) =
          IF meant = {} THEN NoExpert ELSE configurations[v][Min(meant)]
  BY <1>3 DEF GetExpertForControl
<1>6. meant # {}
  BY DEF Numbers
<1>7. Min(meant) \in meant
  <2>1. meant \in SUBSET Nat
    BY <1>1, InterfacesTyped
  <2> HIDE DEF meant
  <2> QED BY <1>6, <2>1, MinOfNaturals
<1>8. configurations[v][Min(meant)] = Due(v, n)
  BY <1>1, <1>7 DEF DueOf
<1> QED BY <1>4, <1>5, <1>6, <1>8

\* A request to the device: the first interface with an expert, of the
\* configuration the device is in or, before it is in one, of any.
LEMMA DeviceRouted ==
    ASSUME TrackedInv, Learned, ~late, ControlOfDevice
    PROVE  handed'.to \in handed'.due
<1> DEFINE v == IF ActiveConfiguration = None THEN FirstConfiguration ELSE ActiveConfiguration
           s == Interfaces(v)
           meant == {i \in DOMAIN s : configurations[v][i] # NoExpert}
           values == IF configured # 0 THEN {configured} ELSE DOMAIN device.configurations
           all == UNION {{Due(w, n) : n \in Numbers(w)} : w \in values}
<1>1. /\ device \in Devices
      /\ DOMAIN configurations # {}
      /\ DOMAIN configurations \subseteq DOMAIN device.configurations
      /\ \A w \in DOMAIN configurations : configurations[w] = DueOf(w)
  BY DEF ControlOfDevice, Learned
<1>2. DOMAIN configurations \in SUBSET (Nat \ {0})
  BY <1>1, InterfacesTyped
<1>3. FirstConfiguration \in DOMAIN configurations
  BY <1>1, <1>2, MinOfNaturals DEF FirstConfiguration
<1>4. ActiveConfiguration \in DOMAIN configurations \cup {None}
  BY <1>3 DEF ActiveConfiguration
<1>5. v \in DOMAIN configurations /\ v \in values
  <2>1. CASE configured # 0
    <3>1. configured \in DOMAIN configurations /\ currentConfiguration = configured
      BY <2>1 DEF Learned, TrackedInv, ConfigurationTracked
    <3>2. ActiveConfiguration = configured
      BY <1>2, <3>1, ActiveIsCurrent
    <3> QED BY <2>1, <3>1, <3>2 DEF None
  <2>2. CASE configured = 0
    BY <1>1, <1>3, <1>4, <2>2
  <2> QED BY <2>1, <2>2
<1>6. configurations[v] = DueOf(v)
  BY <1>1, <1>5
<1>7. handed' = [to |-> GetExpertForControl(<<>>),
                 due |-> IF configured # 0 /\ all # {NoExpert} THEN all \ {NoExpert} ELSE all]
  BY DEF ControlOfDevice
<1>8. GetExpertForControl(<<>>) = IF meant = {} THEN NoExpert ELSE configurations[v][Min(meant)]
  BY <1>1 DEF GetExpertForControl
<1> HIDE DEF v, values
<1>9. \A i \in DOMAIN s : configurations[v][i] \in all
  BY <1>5, <1>6 DEF DueOf, Numbers
<1>10. CASE meant = {}
  <2>1. \A i \in DOMAIN s : configurations[v][i] = NoExpert
    BY <1>10
  <2>2. NoExpert \in all
    <3>1. DOMAIN s # {}
      BY <1>1, <1>5, InterfacesTyped
    <3> QED BY <1>9, <2>1, <3>1
  <2>3. configured # 0 => all = {NoExpert}
    <3> SUFFICES ASSUME configured # 0, NEW e \in all PROVE e = NoExpert
      BY <2>2
    <3>1. v = configured /\ values = {configured}
      BY <1>5 DEF values
    <3>2. PICK n \in Numbers(v) : e = Due(v, n)
      BY <3>1
    <3>3. PICK i \in DOMAIN s : n = s[i].number
      BY DEF Numbers
    <3> QED BY <1>6, <2>1, <3>2, <3>3 DEF DueOf
  <2> QED BY <1>7, <1>8, <1>10, <2>2, <2>3
<1>11. CASE meant # {}
  <2>1. Min(meant) \in meant
    <3>1. meant \in SUBSET Nat
      BY <1>1, <1>5, InterfacesTyped
    <3> HIDE DEF meant
    <3> QED BY <1>11, <3>1, MinOfNaturals
  <2>2. configurations[v][Min(meant)] \in all \ {NoExpert}
    BY <1>9, <2>1
  <2> QED BY <1>7, <1>8, <1>11, <2>2
<1> QED BY <1>10, <1>11

LEMMA RoutedInit == Init => RoutedInv
<1> SUFFICES ASSUME Init PROVE RoutedInv
  OBVIOUS
<1>1. DOMAIN configurations = {}
  BY EmptySeq DEF Init
<1>2. Learned
  BY <1>1 DEF Init, Learned
<1>3. EveryTransferRouted
  BY DEF Init, EveryTransferRouted
<1> QED BY <1>2, <1>3, TrackedInit DEF RoutedInv

LEMMA RoutedNext == RoutedInv /\ [Next]_vars => RoutedInv'
<1> SUFFICES ASSUME RoutedInv, [Next]_vars PROVE RoutedInv'
  OBVIOUS
<1>1. TrackedInv'
  BY TrackedNext DEF RoutedInv
\* What an interface needs depends on the device, which stays.
<1>2. device' = device => \A v : DueOf(v)' = DueOf(v)
  BY DEF DueOf, Due, Interfaces
<1>3. ASSUME UNCHANGED <<device, late, known, configurations>>,
             configured' \in DOMAIN device.configurations \cup {0},
             ~late => configured' \in DOMAIN configurations \cup {0}
      PROVE  Learned'
  BY <1>2, <1>3 DEF RoutedInv, Learned
<1>4. ASSUME UNCHANGED handed, late' = late PROVE EveryTransferRouted'
  BY <1>4 DEF RoutedInv, EveryTransferRouted
<1>5. ASSUME UNCHANGED <<busVars, deviceVars>> PROVE Learned' /\ late' = late
  BY <1>3, <1>5 DEF busVars, deviceVars, RoutedInv, Learned
<1>6. CASE ReadDeviceDescriptor
  <2>1. Learned'
    BY <1>2, <1>6 DEF ReadDeviceDescriptor, busVars, RoutedInv, Learned
  <2> QED BY <1>1, <1>4, <1>6, <2>1 DEF ReadDeviceDescriptor, busVars, RoutedInv
<1>7. ASSUME NEW v \in DOMAIN device.configurations, ReadConfiguration(v)
      PROVE  RoutedInv'
  <2>1. /\ UNCHANGED <<device, late, configured, known, handed>>
        /\ late \/ known # "none"
        /\ \/ configurations' = configurations
           \/ configurations' = Assigned(configurations, v, AttachExperts(v))
    BY <1>7 DEF ReadConfiguration, busVars
  <2>2. Learned'
    <3>1. CASE configurations' = configurations
      BY <1>3, <2>1, <3>1 DEF RoutedInv, Learned
    <3>2. CASE configurations' = Assigned(configurations, v, AttachExperts(v))
      <4>1. /\ DOMAIN configurations' = DOMAIN configurations \cup {v}
            /\ \A w \in DOMAIN configurations' :
                   configurations'[w] = IF w = v THEN AttachExperts(v) ELSE configurations[w]
        BY <3>2 DEF Assigned
      <4>2. ~late => known = device.mode /\ AttachExperts(v) = DueOf(v)
        BY <2>1, AttachedIsDue DEF RoutedInv, Learned
      <4> QED BY <1>2, <2>1, <4>1, <4>2 DEF RoutedInv, Learned
    <3> QED BY <2>1, <3>1, <3>2
  <2> QED BY <1>1, <1>4, <2>1, <2>2 DEF RoutedInv
<1>8. ASSUME NEW v \in DOMAIN device.configurations \cup {0}, SetConfiguration(v)
      PROVE  RoutedInv'
  <2>1. /\ UNCHANGED <<device, late, known, configurations, handed>>
        /\ configured' = v
        /\ late \/ v = 0 \/ v \in DOMAIN configurations
    BY <1>8 DEF SetConfiguration
  <2>2. Learned'
    BY <1>3, <2>1
  <2> QED BY <1>1, <1>4, <2>1, <2>2 DEF RoutedInv
<1>9. ASSUME NEW n \in AllNumbers, NEW a \in AllSettings, SetInterface(n, a)
      PROVE  RoutedInv'
  <2>1. UNCHANGED <<device, late, configured, known, configurations, handed>>
    BY <1>9 DEF SetInterface
  <2>2. Learned'
    BY <1>3, <2>1 DEF RoutedInv, Learned
  <2> QED BY <1>1, <1>4, <2>1, <2>2 DEF RoutedInv
<1>10. CASE Reset
  <2>1. UNCHANGED <<device, late, known, configurations, handed>> /\ configured' = 0
    BY <1>10 DEF Reset, deviceVars
  <2>2. Learned'
    BY <1>3, <2>1
  <2> QED BY <1>1, <1>4, <2>1, <2>2 DEF RoutedInv
<1>11. ASSUME UNCHANGED <<busVars, deviceVars>>, ~late => handed'.to \in handed'.due
       PROVE  RoutedInv'
  BY <1>1, <1>5, <1>11 DEF RoutedInv, EveryTransferRouted
<1>12. CASE Bulk
  BY <1>11, <1>12, BulkRouted DEF RoutedInv, Bulk
<1>13. CASE ControlOfInterface
  BY <1>11, <1>13, InterfaceRouted DEF RoutedInv, ControlOfInterface
<1>14. CASE ControlOfDevice
  BY <1>11, <1>14, DeviceRouted DEF RoutedInv, ControlOfDevice
<1>15. CASE UNCHANGED vars
  BY <1>1, <1>4, <1>5, <1>15 DEF vars, busVars, RoutedInv
<1> QED BY <1>6, <1>7, <1>8, <1>9, <1>10, <1>12, <1>13, <1>14, <1>15 DEF Next

\* In a capture that has the device's traffic from the start, every transfer
\* is handed to the expert of the interface it is for
\* (processBulkPacketIn, processBulkPacketOut, processControlPacketIn and
\* processControlPacketOut).
THEOREM TransfersAreRouted == Spec => []EveryTransferRouted
<1>1. RoutedInv => EveryTransferRouted
  BY DEF RoutedInv
<1> QED BY RoutedInit, RoutedNext, <1>1, PTL DEF Spec
-----------------------------------------------------------------------------
\* Types.
LEMMA InterfaceTyped ==
    ASSUME device \in Devices, NEW v \in DOMAIN device.configurations,
           NEW i \in DOMAIN Interfaces(v)
    PROVE  /\ Interfaces(v)[i] \in InterfaceSetting
           /\ Interfaces(v)[i].number \in Nat /\ Interfaces(v)[i].class \in Classes
           /\ Interfaces(v)[i].number \in Numbers(v) /\ Numbers(v) \subseteq AllNumbers
<1>1. Interfaces(v) \in Seq(InterfaceSetting)
  BY InterfacesTyped
<1>2. Interfaces(v)[i] \in InterfaceSetting
  BY <1>1
<1>3. Interfaces(v)[i].number \in Nat /\ Interfaces(v)[i].class \in Classes
  BY <1>2 DEF InterfaceSetting
<1>4. Interfaces(v)[i].number \in Numbers(v) /\ Numbers(v) \subseteq AllNumbers
  BY DEF Numbers, AllNumbers
<1> QED BY <1>2, <1>3, <1>4

LEMMA NumbersTyped ==
    ASSUME device \in Devices
    PROVE  /\ \A v \in DOMAIN device.configurations : Numbers(v) \subseteq Nat
           /\ AllNumbers \subseteq Nat
<1>1. ASSUME NEW v \in DOMAIN device.configurations PROVE Numbers(v) \subseteq Nat
  BY <1>1, InterfaceTyped DEF Numbers
<1> QED BY <1>1 DEF AllNumbers

LEMMA NoExpertTyped == NoExpert \in Expert
BY DEF NoExpert, Expert

\* The expert an interface needs is one, if only the null one.
LEMMA DueTyped ==
    ASSUME device \in Devices, NEW v \in DOMAIN device.configurations, NEW n \in Nat
    PROVE  Due(v, n) \in Expert
<1>1. v \in Nat
  BY InterfacesTyped
<1> DEFINE numbered == {i \in DOMAIN Interfaces(v) : Interfaces(v)[i].number = n}
<1>2. \/ /\ device.mode \in {"dfu", "recovery"}
         /\ Due(v, n) = [kind |-> device.mode, configuration |-> v, interface |-> 0]
      \/ Due(v, n) = [kind |-> "usbmux", configuration |-> v, interface |-> n]
      \/ Due(v, n) = [kind |-> "dfu", configuration |-> v, interface |-> n]
      \/ Due(v, n) = NoExpert
  <2> DEFINE Has(class) == \E i \in numbered : Interfaces(v)[i].class = class
             D == device.mode \in {"dfu", "recovery"}
             U == device.mode = "normal" /\ Has("usbmux")
             F == device.mode \in {"normal", "other"} /\ Has("dfu")
  <2>1. Due(v, n) = CASE D -> [kind |-> device.mode, configuration |-> v, interface |-> 0]
                      [] U -> [kind |-> "usbmux", configuration |-> v, interface |-> n]
                      [] F -> [kind |-> "dfu", configuration |-> v, interface |-> n]
                      [] OTHER -> NoExpert
    BY DEF Due
  <2> HIDE DEF D, U, F
  <2>2. D \/ U \/ F \/ (~D /\ ~U /\ ~F)
    OBVIOUS
  <2>3. \/ D /\ Due(v, n) = [kind |-> device.mode, configuration |-> v, interface |-> 0]
        \/ Due(v, n) = [kind |-> "usbmux", configuration |-> v, interface |-> n]
        \/ Due(v, n) = [kind |-> "dfu", configuration |-> v, interface |-> n]
        \/ Due(v, n) = NoExpert
    BY <2>1, <2>2
  <2> QED BY <2>3 DEF D
<1> QED BY <1>1, <1>2, NoExpertTyped DEF Expert

\* What attachExperts attaches, whatever is known of the device: no expert,
\* or one of a kind that is known, for the configuration.
LEMMA AttachedTyped ==
    ASSUME device \in Devices, known \in {"none", device.mode},
           NEW v \in DOMAIN device.configurations, NEW i \in DOMAIN Interfaces(v)
    PROVE  /\ AttachExperts(v)[i] \in Expert
           /\ AttachExperts(v)[i] = NoExpert \/
                  /\ AttachExperts(v)[i].configuration = v
                  /\ \/ /\ known \in {"dfu", "recovery"}
                        /\ AttachExperts(v)[i].kind = known
                     \/ /\ known \notin {"dfu", "recovery"}
                        /\ \E j \in DOMAIN Interfaces(v) :
                              /\ Interfaces(v)[j].number = Interfaces(v)[i].number
                              /\ Interfaces(v)[j].class = AttachExperts(v)[i].kind
                              /\ \/ AttachExperts(v)[i].kind = "dfu"
                                 \/ AttachExperts(v)[i].kind = "usbmux" /\ known = "normal"
<1> DEFINE s == Interfaces(v)
           n == s[i].number
           e == AttachExperts(v)[i]
           P(a) == a.number = n /\ Decoded(a.class) # "none"
           first == SelectInSeq(s, LAMBDA a : a.number = n /\ Decoded(a.class) # "none")
           I == {j \in 1..Len(s) : s[j].number = n /\ Decoded(s[j].class) # "none"}
<1>1. /\ v \in Nat /\ n \in Nat /\ device.mode \in Modes
      /\ 1..Len(s) = DOMAIN s /\ I \in SUBSET Nat
  BY InterfacesTyped, InterfaceTyped, DevicesAssumption
<1>2. e = IF known \in {"dfu", "recovery"}
          THEN [kind |-> known, configuration |-> v, interface |-> 0]
          ELSE IF first = 0 THEN NoExpert
          ELSE [kind |-> Decoded(s[first].class), configuration |-> v, interface |-> n]
  BY DEF AttachExperts
<1>3. CASE known \in {"dfu", "recovery"}
  <2>1. e = [kind |-> known, configuration |-> v, interface |-> 0]
    BY <1>2, <1>3
  <2> HIDE DEF e
  <2>2. e \in Expert /\ e.configuration = v /\ e.kind = known
    BY <1>1, <1>3, <2>1 DEF Expert
  <2> QED BY <1>3, <2>2 DEF e
<1>4. CASE known \notin {"dfu", "recovery"} /\ first = 0
  BY <1>2, <1>4, NoExpertTyped
<1>5. CASE known \notin {"dfu", "recovery"} /\ first # 0
  <2>1. first = IF I # {} THEN Min(I) ELSE 0
    BY DEF SelectInSeq
  <2>2. first \in I
    <3>1. I # {} /\ first = Min(I)
      BY <1>5, <2>1
    <3> HIDE DEF I
    <3> QED BY <1>1, <3>1, MinOfNaturals
  <2>3. first \in DOMAIN s /\ s[first].number = n /\ Decoded(s[first].class) # "none"
    BY <1>1, <2>2
  <2>4. s[first].class \in Classes
    BY <2>3, InterfaceTyped
  <2>5. \/ s[first].class = "dfu" /\ Decoded(s[first].class) = "dfu"
        \/ /\ s[first].class = "usbmux" /\ Decoded(s[first].class) = "usbmux"
           /\ known = "normal"
    BY <1>5, <2>3, <2>4 DEF Classes, Decoded, IsApple
  <2>6. e = [kind |-> Decoded(s[first].class), configuration |-> v, interface |-> n]
    BY <1>2, <1>5
  <2> HIDE DEF e, s, first
  <2>7. e \in Expert /\ e.configuration = v /\ e.kind = s[first].class
    BY <1>1, <2>5, <2>6 DEF Expert
  <2>8. e.kind = "dfu" \/ (e.kind = "usbmux" /\ known = "normal")
    BY <2>5, <2>7
  <2> QED BY <1>5, <2>3, <2>7, <2>8 DEF e, s
<1> QED BY <1>3, <1>4, <1>5

LEMMA AttachedSequence ==
    ASSUME device \in Devices, known \in {"none", device.mode},
           NEW v \in DOMAIN device.configurations
    PROVE  /\ AttachExperts(v) \in Seq(Expert)
           /\ Len(AttachExperts(v)) = Len(Interfaces(v))
<1>1. /\ Len(Interfaces(v)) \in Nat /\ DOMAIN Interfaces(v) = 1..Len(Interfaces(v))
  BY InterfacesTyped
<1>2. /\ DOMAIN AttachExperts(v) = 1..Len(Interfaces(v))
      /\ AttachExperts(v) = [i \in 1..Len(Interfaces(v)) |-> AttachExperts(v)[i]]
  BY <1>1 DEF AttachExperts
<1>3. \A i \in 1..Len(Interfaces(v)) : AttachExperts(v)[i] \in Expert
  BY <1>1, AttachedTyped
<1>4. AttachExperts(v) \in [1..Len(Interfaces(v)) -> Expert]
  BY <1>2, <1>3
<1> QED BY <1>1, <1>2, <1>4

\* The expert a transfer is handed to is one of an interface, or none.
LEMMA GivenExpert ==
    ASSUME TypeOK
    PROVE  /\ ActiveConfiguration \in DOMAIN configurations \cup {None}
           /\ DOMAIN configurations # {} => FirstConfiguration \in DOMAIN configurations
           /\ \A endpoint :
                \/ GetExpertForEndpoint(endpoint) = NoExpert
                \/ \E v \in DOMAIN configurations : \E i \in DOMAIN Interfaces(v) :
                      /\ v = ActiveConfiguration
                      /\ endpoint \in Interfaces(v)[i].endpoints
                      /\ GetExpertForEndpoint(endpoint) = configurations[v][i]
           /\ \A recipient :
                \/ GetExpertForControl(recipient) = NoExpert
                \/ \E v \in DOMAIN configurations : \E i \in DOMAIN Interfaces(v) :
                      /\ recipient = <<>> \/ <<Interfaces(v)[i].number>> = recipient
                      /\ GetExpertForControl(recipient) = configurations[v][i]
<1>1. /\ device \in Devices /\ DOMAIN configurations \subseteq DOMAIN device.configurations
      /\ DOMAIN configurations \in SUBSET Nat
  BY InterfacesTyped DEF TypeOK
<1>2. DOMAIN configurations # {} => FirstConfiguration \in DOMAIN configurations
  BY <1>1, MinOfNaturals DEF FirstConfiguration
<1>3. ActiveConfiguration \in DOMAIN configurations \cup {None}
  <2>1. Cardinality(DOMAIN configurations) = 1 => DOMAIN configurations # {}
    BY FS_EmptySet
  <2> QED BY <1>2, <2>1 DEF ActiveConfiguration
<1>4. ASSUME NEW endpoint, GetExpertForEndpoint(endpoint) # NoExpert
      PROVE  \E v \in DOMAIN configurations : \E i \in DOMAIN Interfaces(v) :
                      /\ v = ActiveConfiguration
                      /\ endpoint \in Interfaces(v)[i].endpoints
                      /\ GetExpertForEndpoint(endpoint) = configurations[v][i]
  <2> DEFINE v == ActiveConfiguration
             declaring == {i \in DOMAIN Interfaces(v) : endpoint \in Interfaces(v)[i].endpoints}
             current == {i \in declaring : Interfaces(v)[i].alternate =
                                      GetAlternateSetting(Interfaces(v)[i].number)}
             fallback == {i \in declaring : configurations[v][i] # NoExpert}
  <2>1. v # None /\ v \in DOMAIN configurations
    BY <1>3, <1>4 DEF GetExpertForEndpoint
  <2>2. GetExpertForEndpoint(endpoint) =
            CASE current # {}  -> configurations[v][Min(current)]
              [] current = {} /\ fallback # {} -> configurations[v][Min(fallback)]
              [] OTHER -> NoExpert
    BY <2>1 DEF GetExpertForEndpoint
  <2>3. /\ declaring \in SUBSET Nat /\ current \subseteq declaring
        /\ fallback \subseteq declaring
    BY <1>1, <2>1, InterfacesTyped
  <2>4. \E i \in declaring : GetExpertForEndpoint(endpoint) = configurations[v][i]
    <3> HIDE DEF v, declaring, current, fallback
    <3>1. current # {} => Min(current) \in declaring
      BY <2>3, MinOfNaturals
    <3>2. fallback # {} => Min(fallback) \in declaring
      BY <2>3, MinOfNaturals
    <3> QED BY <1>4, <2>2, <3>1, <3>2
  <2> QED BY <2>1, <2>4
<1>5. ASSUME NEW recipient, GetExpertForControl(recipient) # NoExpert
      PROVE  \E v \in DOMAIN configurations : \E i \in DOMAIN Interfaces(v) :
                      /\ recipient = <<>> \/ <<Interfaces(v)[i].number>> = recipient
                      /\ GetExpertForControl(recipient) = configurations[v][i]
  <2> DEFINE v == IF ActiveConfiguration = None THEN FirstConfiguration ELSE ActiveConfiguration
             meant == {i \in DOMAIN Interfaces(v) :
                         IF recipient = <<>> THEN configurations[v][i] # NoExpert
                         ELSE <<Interfaces(v)[i].number>> = recipient}
  <2>1. DOMAIN configurations # {}
    BY <1>5 DEF GetExpertForControl
  <2>2. v \in DOMAIN configurations
    BY <1>2, <1>3, <2>1
  <2>3. GetExpertForControl(recipient) =
            IF meant = {} THEN NoExpert ELSE configurations[v][Min(meant)]
    BY <2>1 DEF GetExpertForControl
  <2>4. Min(meant) \in meant
    <3>1. meant \in SUBSET Nat
      BY <1>1, <2>2, InterfacesTyped
    <3>2. meant # {}
      BY <1>5, <2>3
    <3> HIDE DEF meant
    <3> QED BY <3>1, <3>2, MinOfNaturals
  <2>5. /\ Min(meant) \in DOMAIN Interfaces(v)
        /\ recipient = <<>> \/ <<Interfaces(v)[Min(meant)].number>> = recipient
    BY <2>4
  <2>6. GetExpertForControl(recipient) = configurations[v][Min(meant)]
    BY <2>3, <2>4
  <2> HIDE DEF v, meant
  <2> QED BY <2>2, <2>5, <2>6
<1> QED BY <1>2, <1>3, <1>4, <1>5
\* A transfer is handed to an expert, and due to some.
LEMMA HandedTyped ==
    ASSUME TypeOK, Bulk \/ ControlOfInterface \/ ControlOfDevice
    PROVE  handed' \in [to : Expert, due : SUBSET Expert]
<1>1. /\ device \in Devices /\ configured \in DOMAIN device.configurations \cup {0}
      /\ DOMAIN configurations \subseteq DOMAIN device.configurations
  BY DEF TypeOK
<1>2. \A v \in DOMAIN configurations : \A i \in DOMAIN Interfaces(v) :
          configurations[v][i] \in Expert
  <2> SUFFICES ASSUME NEW v \in DOMAIN configurations, NEW i \in DOMAIN Interfaces(v)
               PROVE  configurations[v][i] \in Expert
    OBVIOUS
  <2>1. /\ configurations[v] \in Seq(Expert)
        /\ Len(configurations[v]) = Len(Interfaces(v))
    BY DEF TypeOK
  <2>2. DOMAIN Interfaces(v) = 1..Len(Interfaces(v))
    BY <1>1, InterfacesTyped
  <2> QED BY <2>1, <2>2, ElementOfSeq
<1>3. \A endpoint : GetExpertForEndpoint(endpoint) \in Expert
  BY <1>2, GivenExpert, NoExpertTyped
<1>4. \A recipient : GetExpertForControl(recipient) \in Expert
  BY <1>2, GivenExpert, NoExpertTyped
<1>5. \A v \in DOMAIN device.configurations : \A n \in Numbers(v) : Due(v, n) \in Expert
  BY <1>1, NumbersTyped, DueTyped
<1>6. CASE Bulk
  <2>0. configured \in DOMAIN device.configurations
    BY <1>1, <1>6 DEF Bulk
  <2>1. PICK i \in DOMAIN Interfaces(configured) :
            \E endpoint \in Interfaces(configured)[i].endpoints :
            \E reported \in {endpoint, endpoint % 128} :
                handed' = [to |-> GetExpertForEndpoint(Address(reported, endpoint >= 128)),
                           due |-> {Due(configured, Interfaces(configured)[i].number)}]
    BY <1>6 DEF Bulk
  <2>2. Due(configured, Interfaces(configured)[i].number) \in Expert
    BY <1>1, <1>5, <2>0, InterfaceTyped
  <2>3. PICK address :
            handed' = [to |-> GetExpertForEndpoint(address),
                       due |-> {Due(configured, Interfaces(configured)[i].number)}]
    BY <2>1
  <2> QED BY <1>3, <2>2, <2>3
<1>7. CASE ControlOfInterface
  <2>0. configured \in DOMAIN device.configurations
    BY <1>1, <1>7 DEF ControlOfInterface
  <2>1. PICK n \in Numbers(configured) :
          handed' = [to |-> GetExpertForControl(<<n>>), due |-> {Due(configured, n)}]
    BY <1>7 DEF ControlOfInterface
  <2> QED BY <1>4, <1>5, <2>0, <2>1
<1>8. CASE ControlOfDevice
  <2> DEFINE values == IF configured # 0 THEN {configured} ELSE DOMAIN device.configurations
             all == UNION {{Due(w, n) : n \in Numbers(w)} : w \in values}
  <2>1. handed' = [to |-> GetExpertForControl(<<>>),
                   due |-> IF configured # 0 /\ all # {NoExpert}
                           THEN all \ {NoExpert} ELSE all]
    BY <1>8 DEF ControlOfDevice
  <2>2. all \in SUBSET Expert
    <3>1. values \subseteq DOMAIN device.configurations
      BY <1>1
    <3> QED BY <1>5, <3>1
  <2> HIDE DEF all
  <2> QED BY <1>4, <2>1, <2>2
<1> QED BY <1>6, <1>7, <1>8

LEMMA TypesInit == Init => TypeOK
<1> SUFFICES ASSUME Init PROVE TypeOK
  OBVIOUS
<1>1. DOMAIN configurations = {} /\ DOMAIN alternates = {}
  BY EmptySeq DEF Init
<1>2. settings \in [AllNumbers -> AllSettings]
  BY DEF Init, DefaultSettings, AllSettings
<1>3. handed \in [to : Expert, due : SUBSET Expert]
  BY NoExpertTyped DEF Init
<1> QED BY <1>1, <1>2, <1>3 DEF Init, TypeOK

LEMMA TypesNext == TypeOK /\ [Next]_vars => TypeOK'
<1> SUFFICES ASSUME TypeOK, [Next]_vars PROVE TypeOK'
  OBVIOUS
<1>0. device' = device
  BY DEF Next, vars, busVars, ReadDeviceDescriptor, ReadConfiguration, SetConfiguration,
         SetInterface, Reset, Bulk, ControlOfInterface, ControlOfDevice
<1>1. AllNumbers' = AllNumbers /\ AllSettings' = AllSettings
  BY <1>0 DEF AllNumbers, AllSettings, Numbers, Settings, Interfaces
<1>2. 0 \in AllSettings /\ DefaultSettings \in [AllNumbers -> AllSettings]
  BY DEF AllSettings, DefaultSettings
<1>3. CASE UNCHANGED <<busVars, deviceVars>> /\ handed' \in [to : Expert, due : SUBSET Expert]
  BY <1>0, <1>1, <1>3 DEF TypeOK, busVars, deviceVars, Interfaces
<1>4. CASE ReadDeviceDescriptor
  BY <1>0, <1>1, <1>4 DEF ReadDeviceDescriptor, TypeOK, busVars, Interfaces
<1>5. ASSUME NEW v \in DOMAIN device.configurations, ReadConfiguration(v)
      PROVE  TypeOK'
  <2>1. /\ UNCHANGED <<busVars, known, currentConfiguration, alternates, handed>>
        /\ \/ configurations' = configurations
           \/ configurations' = Assigned(configurations, v, AttachExperts(v))
    BY <1>5 DEF ReadConfiguration
  <2>2. /\ DOMAIN configurations' \subseteq DOMAIN device.configurations
        /\ \A w \in DOMAIN configurations' :
              /\ configurations'[w] \in Seq(Expert)
              /\ Len(configurations'[w]) = Len(Interfaces(w))
    <3>1. CASE configurations' = configurations
      BY <3>1 DEF TypeOK
    <3>2. CASE configurations' = Assigned(configurations, v, AttachExperts(v))
      <4>1. /\ DOMAIN configurations' = DOMAIN configurations \cup {v}
            /\ \A w \in DOMAIN configurations' :
                   configurations'[w] = IF w = v THEN AttachExperts(v) ELSE configurations[w]
        BY <3>2 DEF Assigned
      <4>2. /\ AttachExperts(v) \in Seq(Expert)
            /\ Len(AttachExperts(v)) = Len(Interfaces(v))
        BY AttachedSequence DEF TypeOK
      <4> QED BY <4>1, <4>2 DEF TypeOK
    <3> QED BY <2>1, <3>1, <3>2
  <2> QED BY <1>0, <1>1, <2>1, <2>2 DEF TypeOK, busVars, Interfaces
<1>6. ASSUME NEW v \in DOMAIN device.configurations \cup {0}, SetConfiguration(v)
      PROVE  TypeOK'
  <2>1. DOMAIN alternates' = {}
    BY <1>6, EmptySeq DEF SetConfiguration
  <2> QED BY <1>0, <1>1, <1>2, <1>6, <2>1 DEF SetConfiguration, TypeOK, Interfaces
<1>7. ASSUME NEW n \in AllNumbers, NEW a \in AllSettings, SetInterface(n, a)
      PROVE  TypeOK'
  <2>1. /\ settings' = [settings EXCEPT ![n] = a]
        /\ alternates' = [k \in DOMAIN alternates \cup {n} |->
                             IF k = n THEN a ELSE alternates[k]]
        /\ UNCHANGED <<device, late, configured, known, configurations,
                       currentConfiguration, handed>>
    BY <1>7 DEF SetInterface, Assigned
  <2>2. settings' \in [AllNumbers -> AllSettings]
    BY <2>1 DEF TypeOK
  <2>3. /\ DOMAIN alternates' \subseteq AllNumbers
        /\ \A m \in DOMAIN alternates' : alternates'[m] \in AllSettings
    BY <2>1 DEF TypeOK
  <2> QED BY <1>0, <1>1, <2>1, <2>2, <2>3 DEF TypeOK, Interfaces
<1>8. CASE Reset
  BY <1>0, <1>1, <1>2, <1>8 DEF Reset, deviceVars, TypeOK, Interfaces
<1>9. CASE Bulk \/ ControlOfInterface \/ ControlOfDevice
  BY <1>3, <1>9, HandedTyped DEF Bulk, ControlOfInterface, ControlOfDevice
<1>10. CASE UNCHANGED vars
  BY <1>3, <1>10 DEF vars, TypeOK
<1> QED BY <1>4, <1>5, <1>6, <1>7, <1>8, <1>9, <1>10 DEF Next

\* The types hold whatever the capture holds, from its start or late.
THEOREM DeviceTypes == Spec => []TypeOK
<1> QED BY TypesInit, TypesNext, PTL DEF Spec

-----------------------------------------------------------------------------
\* A capture that begins late.
Plain ==
    /\ Cardinality(DOMAIN device.configurations) = 1
    /\ device.mode = "recovery" =>
           \A v \in DOMAIN device.configurations : \A i \in DOMAIN Interfaces(v) :
               Interfaces(v)[i].class # "dfu"

\* An expert that may stand in for another.
Alike(e, f) == e.kind = f.kind /\ e.configuration = f.configuration /\ f # NoExpert

\* Inductive: whatever was known of the device when a configuration was read,
\* an interface has the expert it needs or none.
AttachedAlike ==
    \A v \in DOMAIN configurations : \A i \in DOMAIN Interfaces(v) :
        \/ configurations[v][i] = NoExpert
        \/ Alike(configurations[v][i], Due(v, Interfaces(v)[i].number))

LateInv == TypeOK /\ (Plain => AttachedAlike /\ Harmless)

LEMMA OneConfiguration ==
    ASSUME device \in Devices, Cardinality(DOMAIN device.configurations) = 1,
           NEW v \in DOMAIN device.configurations, NEW w \in DOMAIN device.configurations
    PROVE  v = w
<1> DEFINE D == DOMAIN device.configurations
<1>1. D \in SUBSET (1 .. 255)
  BY InterfacesTyped
<1>2. IsFiniteSet(D)
  <2> HIDE DEF D
  <2>1. D \in SUBSET Nat /\ \A x \in D : x <= 255
    BY <1>1
  <2> QED BY <2>1, FS_BoundedSetOfNaturals
<1>3. Cardinality(D) = 1 <=> \E x : D = {x}
  <2> HIDE DEF D
  <2> QED BY <1>2, FS_Singleton
<1> QED BY <1>3

LEMMA AttachedIsAlike ==
    ASSUME device \in Devices, known \in {"none", device.mode}, Plain,
           NEW v \in DOMAIN device.configurations, NEW i \in DOMAIN Interfaces(v),
           AttachExperts(v)[i] # NoExpert
    PROVE  Alike(AttachExperts(v)[i], Due(v, Interfaces(v)[i].number))
<1> DEFINE s == Interfaces(v)
           n == s[i].number
           e == AttachExperts(v)[i]
           Has(class) == \E j \in DOMAIN s : s[j].number = n /\ s[j].class = class
<1>1. device.mode \in Modes /\ v \in Nat \ {0}
  BY DevicesAssumption, InterfacesTyped
<1>2. e.configuration = v
  BY AttachedTyped
<1>3. /\ device.mode \in {"dfu", "recovery"} =>
            Due(v, n) = [kind |-> device.mode, configuration |-> v, interface |-> 0]
      /\ device.mode = "normal" /\ Has("usbmux") /\ ~Has("dfu") =>
            Due(v, n) = [kind |-> "usbmux", configuration |-> v, interface |-> n]
      /\ device.mode \in {"normal", "other"} /\ Has("dfu")
                /\ ~(device.mode = "normal" /\ Has("usbmux")) =>
            Due(v, n) = [kind |-> "dfu", configuration |-> v, interface |-> n]
  <2> DEFINE D == device.mode \in {"dfu", "recovery"}
             U == device.mode = "normal" /\ Has("usbmux")
             F == device.mode \in {"normal", "other"} /\ Has("dfu")
  <2>1. Due(v, n) = CASE D -> [kind |-> device.mode, configuration |-> v, interface |-> 0]
                      [] U -> [kind |-> "usbmux", configuration |-> v, interface |-> n]
                      [] F -> [kind |-> "dfu", configuration |-> v, interface |-> n]
                      [] OTHER -> NoExpert
    BY DEF Due
  <2>2. (D => ~U /\ ~F) /\ (U => ~D)
    OBVIOUS
  <2> HIDE DEF D, U, F
  <2>3. /\ D => Due(v, n) = [kind |-> device.mode, configuration |-> v, interface |-> 0]
        /\ U /\ ~F => Due(v, n) = [kind |-> "usbmux", configuration |-> v, interface |-> n]
        /\ F /\ ~U => Due(v, n) = [kind |-> "dfu", configuration |-> v, interface |-> n]
    <3> QED BY <2>1, <2>2
  <2> QED BY <2>3 DEF D, U, F
<1>4. CASE known \in {"dfu", "recovery"}
  <2>1. e.kind = known /\ known = device.mode
    BY <1>4, AttachedTyped
  <2>2. Due(v, n) = [kind |-> known, configuration |-> v, interface |-> 0]
    BY <1>3, <1>4, <2>1
  <2> HIDE DEF e, n
  <2> QED BY <1>1, <1>2, <1>4, <2>1, <2>2 DEF Alike, NoExpert, e, n
<1>5. CASE known \notin {"dfu", "recovery"}
  <2>1. PICK j \in DOMAIN s :
            /\ s[j].number = n /\ s[j].class = e.kind
            /\ \/ e.kind = "dfu"
               \/ e.kind = "usbmux" /\ known = "normal"
    BY <1>5, AttachedTyped
  <2>2. CASE e.kind = "usbmux" /\ known = "normal"
    <3>1. device.mode = "normal" /\ Has("usbmux") /\ ~Has("dfu")
      BY <2>1, <2>2, InterfacesTyped
    <3>2. Due(v, n) = [kind |-> "usbmux", configuration |-> v, interface |-> n]
      BY <1>3, <3>1
    <3> HIDE DEF e, n
    <3> QED BY <1>1, <1>2, <2>2, <3>2 DEF Alike, NoExpert, e, n
  <2>3. CASE e.kind = "dfu"
    <3>1. Has("dfu") /\ ~Has("usbmux")
      <4>1. s[j].class = "dfu" /\ s[j].number = n
        BY <2>1, <2>3
      <4>2. \A k \in DOMAIN s : s[k].number = n => s[k].class # "usbmux"
        BY <4>1, InterfacesTyped
      <4> QED BY <4>1, <4>2
    <3>2. device.mode # "recovery"
      BY <2>1, <2>3 DEF Plain
    <3>3. Due(v, n) = [kind |-> "dfu", configuration |-> v,
                       interface |-> IF device.mode = "dfu" THEN 0 ELSE n]
      <4>1. CASE device.mode = "dfu"
        BY <1>3, <4>1
      <4>2. CASE device.mode \in {"normal", "other"}
        BY <1>3, <3>1, <4>2
      <4> QED BY <1>1, <3>2, <4>1, <4>2 DEF Modes
    <3> HIDE DEF e, n
    <3> QED BY <1>1, <1>2, <2>3, <3>3 DEF Alike, NoExpert, e, n
  <2> QED BY <2>1, <2>2, <2>3
<1> QED BY <1>4, <1>5

\* A transfer goes to the expert of an interface of the one configuration,
\* with the number the transfer is for, or to none.
LEMMA LateRouted ==
    ASSUME TypeOK, Plain, AttachedAlike, Bulk \/ ControlOfInterface \/ ControlOfDevice
    PROVE  Harmless'
<1>1. /\ device \in Devices /\ configured \in DOMAIN device.configurations \cup {0}
      /\ DOMAIN configurations \subseteq DOMAIN device.configurations
  BY DEF TypeOK
<1>2. \A v, w \in DOMAIN device.configurations : v = w
  BY <1>1, OneConfiguration DEF Plain
<1>3. SUFFICES ASSUME handed'.to # NoExpert
               PROVE  \E e \in handed'.due : /\ e.kind = handed'.to.kind
                                             /\ e.configuration = handed'.to.configuration
  BY DEF Harmless
<1>4. CASE Bulk
  <2> DEFINE s == Interfaces(configured)
  <2>0. configured \in DOMAIN device.configurations
    BY <1>1, <1>4 DEF Bulk
  <2>1. PICK i \in DOMAIN s : \E endpoint \in s[i].endpoints :
            \E reported \in {endpoint, endpoint % 128} :
                handed' = [to |-> GetExpertForEndpoint(Address(reported, endpoint >= 128)),
                           due |-> {Due(configured, s[i].number)}]
    BY <1>4 DEF Bulk
  <2>2. PICK endpoint \in s[i].endpoints :
            \E reported \in {endpoint, endpoint % 128} :
                handed' = [to |-> GetExpertForEndpoint(Address(reported, endpoint >= 128)),
                           due |-> {Due(configured, s[i].number)}]
    BY <2>1
  <2>3. PICK reported \in {endpoint, endpoint % 128} :
                handed' = [to |-> GetExpertForEndpoint(Address(reported, endpoint >= 128)),
                           due |-> {Due(configured, s[i].number)}]
    BY <2>2
  <2> DEFINE address == Address(reported, endpoint >= 128)
  <2>4. address = endpoint
    <3>1. endpoint \in 0..255
      BY <1>1, <2>0, InterfaceTyped DEF InterfaceSetting
    <3> QED BY <3>1, AddressIsEndpoint
  <2> HIDE DEF address
  <2>5. GetExpertForEndpoint(address) # NoExpert
    BY <1>3, <2>3 DEF address
  <2>6. PICK v \in DOMAIN configurations : \E k \in DOMAIN Interfaces(v) :
            /\ address \in Interfaces(v)[k].endpoints
            /\ GetExpertForEndpoint(address) = configurations[v][k]
    BY <2>5, GivenExpert
  <2>7. v = configured
    BY <1>1, <1>2, <2>0
  <2>8. PICK k \in DOMAIN s :
            /\ address \in s[k].endpoints
            /\ GetExpertForEndpoint(address) = configurations[v][k]
    BY <2>6, <2>7
  <2>9. s[k].number = s[i].number
    BY <1>1, <2>0, <2>4, <2>8, InterfacesTyped
  <2>10. Alike(configurations[v][k], Due(v, s[k].number))
    BY <2>5, <2>7, <2>8 DEF AttachedAlike
  <2>11. handed'.to = configurations[v][k] /\ Due(v, s[k].number) \in handed'.due
    BY <2>3, <2>7, <2>8, <2>9 DEF address
  <2> QED BY <2>10, <2>11 DEF Alike
<1>5. CASE ControlOfInterface
  <2>0. configured \in DOMAIN device.configurations
    BY <1>1, <1>5 DEF ControlOfInterface
  <2>1. PICK n \in Numbers(configured) :
          handed' = [to |-> GetExpertForControl(<<n>>), due |-> {Due(configured, n)}]
    BY <1>5 DEF ControlOfInterface
  <2>2. GetExpertForControl(<<n>>) # NoExpert
    BY <1>3, <2>1
  <2>3. PICK v \in DOMAIN configurations : \E k \in DOMAIN Interfaces(v) :
            /\ <<n>> = <<>> \/ <<Interfaces(v)[k].number>> = <<n>>
            /\ GetExpertForControl(<<n>>) = configurations[v][k]
    BY <2>2, GivenExpert
  <2>4. PICK k \in DOMAIN Interfaces(v) :
            /\ Interfaces(v)[k].number = n
            /\ GetExpertForControl(<<n>>) = configurations[v][k]
    BY <2>3
  <2>5. Alike(configurations[v][k], Due(v, n))
    BY <2>2, <2>4 DEF AttachedAlike
  <2>6. v = configured
    BY <1>1, <1>2, <2>0
  <2> QED BY <2>1, <2>4, <2>5, <2>6 DEF Alike
<1>6. CASE ControlOfDevice
  <2> DEFINE values == IF configured # 0 THEN {configured} ELSE DOMAIN device.configurations
             all == UNION {{Due(w, n) : n \in Numbers(w)} : w \in values}
  <2>1. handed' = [to |-> GetExpertForControl(<<>>),
                   due |-> IF configured # 0 /\ all # {NoExpert}
                           THEN all \ {NoExpert} ELSE all]
    BY <1>6 DEF ControlOfDevice
  <2>2. GetExpertForControl(<<>>) # NoExpert
    BY <1>3, <2>1
  <2>3. PICK v \in DOMAIN configurations : \E k \in DOMAIN Interfaces(v) :
            GetExpertForControl(<<>>) = configurations[v][k]
    BY <2>2, GivenExpert
  <2>4. PICK k \in DOMAIN Interfaces(v) : GetExpertForControl(<<>>) = configurations[v][k]
    BY <2>3
  <2> DEFINE due == Due(v, Interfaces(v)[k].number)
  <2>5. Alike(configurations[v][k], due)
    BY <2>2, <2>4 DEF AttachedAlike
  <2>6. v \in values
    BY <1>1, <1>2
  <2>7. Interfaces(v)[k].number \in Numbers(v)
    BY DEF Numbers
  <2>8. due \in all /\ due # NoExpert
    BY <2>5, <2>6, <2>7 DEF Alike
  <2> HIDE DEF all, due
  <2>9. due \in handed'.due /\ handed'.to = configurations[v][k]
    BY <2>1, <2>4, <2>8
  <2> QED BY <2>5, <2>9 DEF Alike
<1> QED BY <1>4, <1>5, <1>6

LEMMA LateNext == LateInv /\ [Next]_vars => LateInv'
<1> SUFFICES ASSUME LateInv, [Next]_vars PROVE LateInv'
  OBVIOUS
<1>1. TypeOK /\ TypeOK'
  BY TypesNext DEF LateInv
<1>2. device' = device
  BY DEF Next, vars, busVars, ReadDeviceDescriptor, ReadConfiguration, SetConfiguration,
         SetInterface, Reset, Bulk, ControlOfInterface, ControlOfDevice
<1>3. SUFFICES ASSUME Plain, AttachedAlike, Harmless
               PROVE  AttachedAlike' /\ Harmless'
  BY <1>1, <1>2 DEF LateInv, Plain, Interfaces
<1>4. ASSUME configurations' = configurations PROVE AttachedAlike'
  <2>1. \A v : Interfaces(v)' = Interfaces(v)
    BY <1>2 DEF Interfaces
  <2>2. \A v, n : Due(v, n)' = Due(v, n)
    BY <1>2 DEF Due, Interfaces
  <2> QED BY <1>3, <1>4, <2>1, <2>2 DEF AttachedAlike
<1>5. ASSUME handed' = handed PROVE Harmless'
  BY <1>3, <1>5 DEF Harmless
<1>6. ASSUME NEW v \in DOMAIN device.configurations, ReadConfiguration(v)
      PROVE  AttachedAlike' /\ Harmless'
  <2>1. /\ handed' = handed
        /\ \/ configurations' = configurations
           \/ configurations' = Assigned(configurations, v, AttachExperts(v))
    BY <1>6 DEF ReadConfiguration
  <2>2. CASE configurations' = Assigned(configurations, v, AttachExperts(v))
    <3>1. /\ DOMAIN configurations' = DOMAIN configurations \cup {v}
          /\ \A w \in DOMAIN configurations' :
                 configurations'[w] = IF w = v THEN AttachExperts(v) ELSE configurations[w]
      BY <2>2 DEF Assigned
    <3>2. \A i \in DOMAIN Interfaces(v) :
              \/ AttachExperts(v)[i] = NoExpert
              \/ Alike(AttachExperts(v)[i], Due(v, Interfaces(v)[i].number))
      BY <1>1, <1>3, AttachedIsAlike DEF TypeOK
    <3>3. \A w \in DOMAIN configurations' : \A i \in DOMAIN Interfaces(w) :
              \/ configurations'[w][i] = NoExpert
              \/ Alike(configurations'[w][i], Due(w, Interfaces(w)[i].number))
      BY <1>3, <3>1, <3>2 DEF AttachedAlike
    <3>4. AttachedAlike'
      <4>1. \A w : Interfaces(w)' = Interfaces(w)
        BY <1>2 DEF Interfaces
      <4>2. \A w, n : Due(w, n)' = Due(w, n)
        BY <1>2 DEF Due, Interfaces
      <4> QED BY <3>3, <4>1, <4>2 DEF AttachedAlike
    <3> QED BY <1>5, <2>1, <3>4
  <2> QED BY <1>4, <1>5, <2>1, <2>2
<1>7. CASE ReadDeviceDescriptor \/ Reset \/ UNCHANGED vars
  BY <1>4, <1>5, <1>7 DEF ReadDeviceDescriptor, Reset, vars, deviceVars
<1>8. ASSUME NEW v \in DOMAIN device.configurations \cup {0}, SetConfiguration(v)
      PROVE  AttachedAlike' /\ Harmless'
  BY <1>4, <1>5, <1>8 DEF SetConfiguration
<1>9. ASSUME NEW n \in AllNumbers, NEW a \in AllSettings, SetInterface(n, a)
      PROVE  AttachedAlike' /\ Harmless'
  BY <1>4, <1>5, <1>9 DEF SetInterface
<1>10. CASE Bulk \/ ControlOfInterface \/ ControlOfDevice
  <2>1. configurations' = configurations
    BY <1>10 DEF Bulk, ControlOfInterface, ControlOfDevice, deviceVars
  <2> QED BY <1>1, <1>3, <1>4, <1>10, <2>1, LateRouted
<1> QED BY <1>6, <1>7, <1>8, <1>9, <1>10 DEF Next

\* However late a capture begins and whatever is read again of the device's
\* descriptors, no transfer of a device with one configuration is given to
\* an expert of a protocol that is not its own (getExpertForEndpoint's and
\* getExpertForControl's fallbacks, attachExperts before the device
\* descriptor).
THEOREM LateCapturesHarmless == Spec => []LateTransfersHarmless
<1>1. Init => LateInv
  <2> SUFFICES ASSUME Init PROVE LateInv
    OBVIOUS
  <2>1. DOMAIN configurations = {} /\ handed.to = NoExpert
    BY EmptySeq DEF Init
  <2> QED BY <2>1, TypesInit DEF LateInv, AttachedAlike, Harmless
<1>2. LateInv => LateTransfersHarmless
  BY DEF LateInv, LateTransfersHarmless, Plain
<1> QED BY <1>1, <1>2, LateNext, PTL DEF Spec

-----------------------------------------------------------------------------
(* What Device has learnt of the descriptors stays as it is: the proofs      *)
(* about UsbDescriptors.  A device descriptor is replaced by every later     *)
(* one that is whole, so that it stays needs what it is: the one descriptor  *)
(* the device has (DescriptorIsDevices).  Configurations stay by the way     *)
(* they are kept, and binary object stores are only added to.                *)

\* The device descriptor, if there is one, is the device's, and the binary
\* object stores are a sequence.
DescriptorIsDevices ==
    /\ deviceRead \in DevicesRead
    /\ m_deviceDescriptor \in {<<>>, DeviceAnswer}
    /\ m_bosDescriptors \in Seq(Seq(Int))

\* The whole descriptor, or what is too short for one.
LEMMA DeviceIsReadWhole ==
  ASSUME DescriptorIsDevices, NEW n \in 0..Len(DeviceAnswer),
         Len(SubSeq(DeviceAnswer, 1, n)) >= SizeOf[Device]
  PROVE  SubSeq(DeviceAnswer, 1, n) = DeviceAnswer
  <1>1. SizeOf[Device] = 3
    BY DEF SizeOf, Device, Config, Interface, Endpoint, Functional, BOS, Other
  <1>2. deviceRead.id \in Nat
    BY DescriptorsAssumption DEF DescriptorIsDevices
  <1>3. DeviceAnswer = <<3, 1, deviceRead.id>>
    BY <1>1 DEF DeviceAnswer, Device
  <1>4. DeviceAnswer \in Seq(Int) /\ Len(DeviceAnswer) = 3
    BY <1>2, <1>3
  <1>5. n = 3
    BY <1>1, <1>4
  <1> QED BY <1>4, <1>5

\* A binary object store is a sequence of cells, also when it is cut.
LEMMA StoreIsSequence ==
  ASSUME DescriptorIsDevices, NEW n \in 0..Len(BOSAnswer)
  PROVE  /\ SubSeq(BOSAnswer, 1, n) \in Seq(Int)
         /\ Len(SubSeq(BOSAnswer, 1, n)) = n
  <1>1. SizeOf[BOS] = 4
    BY DEF SizeOf, Device, Config, Interface, Endpoint, Functional, BOS, Other
  <1>2. deviceRead.capabilities \in Seq(Nat)
    BY DescriptorsAssumption DEF DescriptorIsDevices
  <1>3. BOSAnswer \in Seq(Int)
    BY <1>1, <1>2 DEF BOSAnswer, BOS
  <1> QED BY <1>3

\* A configuration that is known is kept as it is, whatever is read.
LEMMA ConfigurationsAreKept ==
  ASSUME NEW config, NEW value \in DOMAIN m_configurations
  PROVE  /\ value \in DOMAIN Kept(config)
         /\ Kept(config)[value] = m_configurations[value]
  BY DEF Kept, With

\* A binary object store is added behind those that are known.
LEMMA StoresAreAdded ==
  ASSUME NEW stores \in Seq(Seq(Int)), NEW store \in Seq(Int)
  PROVE  /\ Append(stores, store) \in Seq(Seq(Int))
         /\ IsPrefix(stores, Append(stores, store))
         /\ IsPrefix(stores, stores)
  BY DEF IsPrefix

\* What a read does to what is known: the device descriptor is the device's,
\* configurations are kept, strings are added or replaced, stores are added.
Grows ==
    /\ deviceRead' = deviceRead
    /\ m_deviceDescriptor' \in {m_deviceDescriptor, DeviceAnswer}
    /\ \/ m_configurations' = m_configurations
       \/ \E config : m_configurations' = Kept(config)
    /\ DOMAIN m_strings \subseteq DOMAIN m_strings'
    /\ \/ m_bosDescriptors' = m_bosDescriptors
       \/ \E store \in Seq(Int) : m_bosDescriptors' = Append(m_bosDescriptors, store)

LEMMA GrowingLearns ==
  ASSUME DescriptorIsDevices, Grows
  PROVE  DescriptorIsDevices' /\ Learns
  <1>1. DeviceAnswer' = DeviceAnswer
    BY DEF Grows, DeviceAnswer
  <1>2. /\ m_bosDescriptors' \in Seq(Seq(Int))
        /\ IsPrefix(m_bosDescriptors, m_bosDescriptors')
    <2>1. CASE m_bosDescriptors' = m_bosDescriptors
      BY <2>1, StoresAreAdded DEF DescriptorIsDevices, IsPrefix
    <2>2. CASE m_bosDescriptors' # m_bosDescriptors
      <3>1. PICK store \in Seq(Int) : m_bosDescriptors' = Append(m_bosDescriptors, store)
        BY <2>2 DEF Grows
      <3>2. m_bosDescriptors \in Seq(Seq(Int))
        BY DEF DescriptorIsDevices
      <3>3. /\ Append(m_bosDescriptors, store) \in Seq(Seq(Int))
            /\ IsPrefix(m_bosDescriptors, Append(m_bosDescriptors, store))
        BY <3>2, StoresAreAdded
      <3> QED BY <3>1, <3>3
    <2> QED BY <2>1, <2>2
  <1>3. \A value \in DOMAIN m_configurations :
            /\ value \in DOMAIN m_configurations'
            /\ m_configurations'[value] = m_configurations[value]
    BY ConfigurationsAreKept DEF Grows
  <1>4. /\ m_deviceDescriptor' \in {<<>>, DeviceAnswer}
        /\ m_deviceDescriptor # <<>> => m_deviceDescriptor' = m_deviceDescriptor
    BY DEF Grows, DescriptorIsDevices
  <1> QED BY <1>1, <1>2, <1>3, <1>4 DEF DescriptorIsDevices, Learns, Grows

LEMMA ReadDeviceGrows ==
  ASSUME DescriptorIsDevices, deviceRead' = deviceRead, NEW n \in 0..Len(DeviceAnswer),
         ReadDevice(SubSeq(DeviceAnswer, 1, n))
  PROVE  Grows
  <1>1. SizeOf[Device] = 3
    BY DEF SizeOf, Device, Config, Interface, Endpoint, Functional, BOS, Other
  <1>2. Len(SubSeq(DeviceAnswer, 1, n)) \in Nat
    BY <1>1 DEF DeviceAnswer
  <1>3. CASE Len(SubSeq(DeviceAnswer, 1, n)) < SizeOf[Device]
    BY <1>3 DEF ReadDevice, Grows
  <1>4. CASE Len(SubSeq(DeviceAnswer, 1, n)) >= SizeOf[Device]
    <2>1. SubSeq(DeviceAnswer, 1, n) = DeviceAnswer
      BY <1>4, DeviceIsReadWhole
    <2> QED BY <1>1, <1>2, <1>4, <2>1 DEF ReadDevice, Grows
  <1> QED BY <1>1, <1>2, <1>3, <1>4

LEMMA ReadBOSGrows ==
  ASSUME DescriptorIsDevices, deviceRead' = deviceRead, NEW n \in 0..Len(BOSAnswer),
         ReadBOS(SubSeq(BOSAnswer, 1, n))
  PROVE  Grows
  <1>. DEFINE data == SubSeq(BOSAnswer, 1, n)
  <1>1. data \in Seq(Int) /\ Len(data) = n
    BY StoreIsSequence
  <1>2. SizeOf[BOS] = 4
    BY DEF SizeOf, Device, Config, Interface, Endpoint, Functional, BOS, Other
  <1>3. CASE m_bosDescriptors' = m_bosDescriptors
    BY <1>3 DEF ReadBOS, Grows
  <1>4. CASE m_bosDescriptors' # m_bosDescriptors
    <2>1. /\ ~(Len(data) < 4 \/ data[3] < 4 \/ Len(data) < data[3])
          /\ m_bosDescriptors' = Append(m_bosDescriptors, SubSeq(data, 1, data[3]))
      BY <1>2, <1>4 DEF ReadBOS
    <2>2. data[3] \in Int
      BY <1>1, <2>1
    <2>3. SubSeq(data, 1, data[3]) \in Seq(Int)
      BY <1>1, <2>1, <2>2
    <2> QED BY <2>1, <2>3 DEF ReadBOS, Grows
  <1> QED BY <1>3, <1>4

\* One read.  Each kind of descriptor touches its own part of what is known.
LEMMA ReadGrows ==
  ASSUME DescriptorIsDevices, Read
  PROVE  Grows
  <1>1. deviceRead' = deviceRead
    BY DEF Read
  <1>2. PICK type \in {Device, Config, String, BOS}, index \in 0..2 :
          \E answer \in Answers(type, index) : \E n \in 0..Len(answer) :
              ProcessDescriptor(type, index, SubSeq(answer, 1, n))
    BY DEF Read
  <1>3. PICK answer \in Answers(type, index) :
          \E n \in 0..Len(answer) : ProcessDescriptor(type, index, SubSeq(answer, 1, n))
    BY <1>2
  <1>4. PICK n \in 0..Len(answer) : ProcessDescriptor(type, index, SubSeq(answer, 1, n))
    BY <1>3
  <1>. DEFINE data == SubSeq(answer, 1, n)
  <1>5. CASE UNCHANGED learnt
    BY <1>1, <1>5 DEF learnt, Grows
  <1>6. CASE type = Device /\ ReadDevice(data)
    <2>1. answer = DeviceAnswer
      BY <1>3, <1>6 DEF Answers, Device, Config, String, BOS
    <2> QED BY <1>1, <1>6, <2>1, ReadDeviceGrows
  <1>7. CASE type = Config /\ ReadConfig(data)
    <2>1. \/ m_configurations' = m_configurations
          \/ \E config : m_configurations' = Kept(config)
      BY <1>7 DEF ReadConfig
    <2> QED BY <1>1, <1>7, <2>1 DEF ReadConfig, Grows
  <1>8. CASE type = String /\ ReadString(index, data)
    <2>1. DOMAIN m_strings \subseteq DOMAIN m_strings'
      BY <1>8 DEF ReadString, With
    <2> QED BY <1>1, <1>8, <2>1 DEF ReadString, Grows
  <1>9. CASE type = BOS /\ ReadBOS(data)
    <2>1. answer = BOSAnswer
      BY <1>3, <1>9 DEF Answers, Device, Config, String, BOS
    <2> QED BY <1>1, <1>9, <2>1, ReadBOSGrows
  <1>10. \/ UNCHANGED learnt
         \/ type = Device /\ ReadDevice(data)
         \/ type = Config /\ ReadConfig(data)
         \/ type = String /\ ReadString(index, data)
         \/ type = BOS /\ ReadBOS(data)
    BY <1>4 DEF ProcessDescriptor, Device, Config, String, BOS
  <1> QED BY <1>5, <1>6, <1>7, <1>8, <1>9, <1>10

\* The device descriptor that is known is the device's.
THEOREM DescriptorIsTheDevices == ReadSpec => []DescriptorIsDevices
  <1>1. ReadInit => DescriptorIsDevices
    BY DEF ReadInit, DescriptorIsDevices
  <1>2. DescriptorIsDevices /\ [Read]_readVars => DescriptorIsDevices'
    <2>1. CASE UNCHANGED readVars
      BY <2>1 DEF readVars, learnt, DescriptorIsDevices, DeviceAnswer
    <2>2. CASE Read
      BY <2>2, ReadGrows, GrowingLearns
    <2> QED BY <2>1, <2>2
  <1> QED BY <1>1, <1>2, PTL DEF ReadSpec

\* No read takes away what is known or changes a configuration or the device
\* descriptor, for every device and any number of reads, whole or cut, also
\* when the device answers with the wrong descriptor
\* (Device::processDescriptor).
THEOREM WhatIsKnownStays == ReadSpec => KnownStaysKnown
  <1>1. DescriptorIsDevices /\ [Read]_readVars => [Learns]_readVars
    BY ReadGrows, GrowingLearns
  <1> QED BY <1>1, DescriptorIsTheDevices, PTL DEF ReadSpec, KnownStaysKnown

-----------------------------------------------------------------------------
(* UTF-8: a string of whole characters, and one character more.             *)

Bytes == {byte \in Nat : byte < 256}
Codepoints == {c \in Nat : c < 1114112}

\* The bytes behind the first one of a character.
Trails(byte) == IF byte < 128 THEN 0 ELSE IF byte < 224 THEN 1 ELSE IF byte < 240 THEN 2 ELSE 3
IsWhole(bytes) == \A i \in 1..Len(bytes) : ~IsTrailing(bytes[i]) => i + Trails(bytes[i]) <= Len(bytes)

\* The bytes of a code point are one whole character.
IsCharacter(u, c) ==
    /\ u \in Seq(Bytes) /\ Len(u) \in 1..4
    /\ ~IsTrailing(u[1]) /\ Len(u) = 1 + Trails(u[1]) /\ DecodedAt(u, 1) = c
    /\ \A k \in 1..Len(u) : k > 1 => IsTrailing(u[k])

LEMMA OneByte ==
    ASSUME NEW c \in Codepoints, c < 128
    PROVE  IsCharacter(Utf8(c), c)
<1> DEFINE u == Utf8(c)
<1>1. c \in Bytes /\ c \in Nat
  BY DEF Codepoints, Bytes
<1>2. u = <<c>>
  BY SMTT(30), <1>1 DEF Utf8
<1>3. u \in Seq(Bytes) /\ Len(u) = 1 /\ u[1] = c
  BY <1>1, <1>2
<1> HIDE DEF u
<1>4. DecodedAt(u, 1) = c
  BY SMTT(30), <1>1, <1>3 DEF DecodedAt
<1>5. ~IsTrailing(u[1]) /\ Len(u) = 1 + Trails(u[1])
  BY <1>1, <1>3 DEF IsTrailing, Trails
<1>6. Len(u) \in 1..4 /\ \A k \in 1..Len(u) : k > 1 => IsTrailing(u[k])
  BY <1>3
<1>7. IsCharacter(u, c)
  BY <1>3, <1>4, <1>5, <1>6, Zenon DEF IsCharacter
<1> QED BY <1>7 DEF u

LEMMA TwoBytes ==
    ASSUME NEW c \in Codepoints, c >= 128, c < 2048
    PROVE  IsCharacter(Utf8(c), c)
<1> DEFINE u == Utf8(c)
           a == 192 + c \div 64
           b == 128 + (c % 64)
<1>1. /\ b \in Nat /\ a \in 194..223 /\ IsTrailing(b) /\ 64 * (a % 32) + (b % 64) = c
  BY SMTT(30) DEF Codepoints, IsTrailing
<1>2. u = <<a, b>>
  BY SMTT(30) DEF Utf8, Codepoints
<1> HIDE DEF a, b
<1>2a. u \in Seq(Bytes)
  <2>1. a \in Bytes /\ b \in Bytes
    BY <1>1 DEF Bytes, IsTrailing
  <2> QED BY <1>2, <2>1
<1>3. Len(u) = 2 /\ u[1] = a /\ u[2] = b /\ u[1 + 1] = b
  BY <1>2
<1>4. DecodedAt(u, 1) = c
  <2> HIDE DEF u
  <2> QED BY SMTT(30), <1>1, <1>3 DEF DecodedAt
<1> HIDE DEF u
<1>5. \A k \in 1..Len(u) : k > 1 => IsTrailing(u[k])
  <2> SUFFICES ASSUME NEW k \in 1..Len(u), k > 1 PROVE IsTrailing(u[k])
    OBVIOUS
  <2>1. k = 2
    BY <1>3
  <2> QED BY <1>1, <1>3, <2>1
<1>6. ~IsTrailing(u[1]) /\ Len(u) = 1 + Trails(u[1])
  BY <1>1, <1>3 DEF IsTrailing, Trails
<1>7. Len(u) \in 1..4
  BY <1>3
<1>8. IsCharacter(u, c)
  BY <1>2a, <1>4, <1>5, <1>6, <1>7, SMTT(30) DEF IsCharacter
<1> QED BY <1>8 DEF u

LEMMA ThreeBytes ==
    ASSUME NEW c \in Codepoints, c >= 2048, c < 65536
    PROVE  IsCharacter(Utf8(c), c)
<1> DEFINE u == Utf8(c)
           a == 224 + c \div 4096
           b == 128 + ((c \div 64) % 64)
           d == 128 + (c % 64)
<1>1. /\ b \in Nat /\ d \in Nat /\ a \in 224..239 /\ IsTrailing(b) /\ IsTrailing(d)
      /\ 4096 * (a % 16) + 64 * (b % 64) + (d % 64) = c
  BY SMTT(30) DEF Codepoints, IsTrailing
<1>2. u = <<a, b, d>>
  BY SMTT(30) DEF Utf8, Codepoints
<1> HIDE DEF a, b, d
<1>2a. u \in Seq(Bytes)
  <2>1. a \in Bytes /\ b \in Bytes /\ d \in Bytes
    BY <1>1 DEF Bytes, IsTrailing
  <2> QED BY <1>2, <2>1
<1>3. /\ Len(u) = 3 /\ u[1] = a /\ u[2] = b /\ u[3] = d
      /\ u[1 + 1] = b /\ u[1 + 2] = d
  BY <1>2
<1>4. DecodedAt(u, 1) = c
  <2> HIDE DEF u
  <2> QED BY SMTT(30), <1>1, <1>3 DEF DecodedAt
<1> HIDE DEF u
<1>5. \A k \in 1..Len(u) : k > 1 => IsTrailing(u[k])
  <2> SUFFICES ASSUME NEW k \in 1..Len(u), k > 1 PROVE IsTrailing(u[k])
    OBVIOUS
  <2>1. k = 2 \/ k = 3
    BY <1>3
  <2> QED BY <1>1, <1>3, <2>1
<1>6. ~IsTrailing(u[1]) /\ Len(u) = 1 + Trails(u[1])
  BY <1>1, <1>3 DEF IsTrailing, Trails
<1>7. Len(u) \in 1..4
  BY <1>3
<1>8. IsCharacter(u, c)
  BY <1>2a, <1>4, <1>5, <1>6, <1>7, SMTT(30) DEF IsCharacter
<1> QED BY <1>8 DEF u

LEMMA FourBytes ==
    ASSUME NEW c \in Codepoints, c >= 65536
    PROVE  IsCharacter(Utf8(c), c)
<1> DEFINE u == Utf8(c)
           a == 240 + c \div 262144
           b == 128 + ((c \div 4096) % 64)
           d == 128 + ((c \div 64) % 64)
           e == 128 + (c % 64)
<1>1. /\ b \in Nat /\ d \in Nat /\ e \in Nat /\ a \in 240..244 /\ IsTrailing(b) /\ IsTrailing(d) /\ IsTrailing(e)
      /\ 262144 * (a % 8) + 4096 * (b % 64) + 64 * (d % 64) + (e % 64) = c
  BY SMTT(30) DEF Codepoints, IsTrailing
<1>2. u = <<a, b, d, e>>
  BY SMTT(30) DEF Utf8, Codepoints
<1> HIDE DEF a, b, d, e
<1>2a. u \in Seq(Bytes)
  <2>1. a \in Bytes /\ b \in Bytes /\ d \in Bytes /\ e \in Bytes
    BY <1>1 DEF Bytes, IsTrailing
  <2> QED BY <1>2, <2>1
<1>3. /\ Len(u) = 4 /\ u[1] = a /\ u[2] = b /\ u[3] = d /\ u[4] = e
      /\ u[1 + 1] = b /\ u[1 + 2] = d /\ u[1 + 3] = e
  BY <1>2
<1>4. DecodedAt(u, 1) = c
  <2> HIDE DEF u
  <2> QED BY SMTT(30), <1>1, <1>3 DEF DecodedAt
<1> HIDE DEF u
<1>5. \A k \in 1..Len(u) : k > 1 => IsTrailing(u[k])
  <2> SUFFICES ASSUME NEW k \in 1..Len(u), k > 1 PROVE IsTrailing(u[k])
    OBVIOUS
  <2>1. k = 2 \/ k = 3 \/ k = 4
    BY <1>3
  <2> QED BY <1>1, <1>3, <2>1
<1>6. ~IsTrailing(u[1]) /\ Len(u) = 1 + Trails(u[1])
  BY <1>1, <1>3 DEF IsTrailing, Trails
<1>7. Len(u) \in 1..4
  BY <1>3
<1>8. IsCharacter(u, c)
  BY <1>2a, <1>4, <1>5, <1>6, <1>7, SMTT(30) DEF IsCharacter
<1> QED BY <1>8 DEF u

LEMMA CharacterOf ==
    ASSUME NEW c \in Codepoints
    PROVE  IsCharacter(Utf8(c), c)
<1>1. c < 128 \/ (c >= 128 /\ c < 2048) \/ (c >= 2048 /\ c < 65536) \/ c >= 65536
  BY SMTT(30) DEF Codepoints
<1> QED BY <1>1, OneByte, TwoBytes, ThreeBytes, FourBytes

\* What the bytes are decoded to, byte by byte.
Characters(bytes) ==
    [i \in DOMAIN bytes |-> IF IsTrailing(bytes[i]) THEN <<>> ELSE <<DecodedAt(bytes, i)>>]

LEMMA DecodedTyped ==
    ASSUME NEW bytes \in Seq(Bytes), NEW i \in 1..Len(bytes), i + Trails(bytes[i]) <= Len(bytes)
    PROVE  DecodedAt(bytes, i) \in Nat
<1>1. \A j \in 1..Len(bytes) : bytes[j] \in Nat
  <2>1. \A j \in 1..Len(bytes) : bytes[j] \in Bytes
    OBVIOUS
  <2> QED BY <2>1 DEF Bytes
<1>2. Len(bytes) \in Nat
  OBVIOUS
<1>3. bytes[i] \in Nat
  BY <1>1
<1>4. Trails(bytes[i]) \in 0..3 /\ \A k \in 1..Trails(bytes[i]) : bytes[i + k] % 64 \in Nat
  <2>1. Trails(bytes[i]) \in 0..3
    BY <1>3 DEF Trails
  <2>2. ASSUME NEW k \in 1..Trails(bytes[i]) PROVE bytes[i + k] % 64 \in Nat
    <3>1. i + k \in 1..Len(bytes)
      BY <1>2, <2>1
    <3>2. bytes[i + k] \in Nat
      BY <1>1, <3>1
    <3> QED BY <3>2
  <2> QED BY <2>1, <2>2
<1> DEFINE b == bytes[i]
           x == bytes[i + 1] % 64
           y == bytes[i + 2] % 64
           z == bytes[i + 3] % 64
<1>5. /\ b >= 128 => x \in Nat
      /\ b >= 224 => y \in Nat
      /\ b >= 240 => z \in Nat
  <2>1. b >= 128 => 1 \in 1..Trails(b)
    BY <1>3 DEF Trails
  <2>2. b >= 224 => 2 \in 1..Trails(b)
    BY <1>3 DEF Trails
  <2>3. b >= 240 => 3 \in 1..Trails(b)
    BY <1>3 DEF Trails
  <2> QED BY <1>4, <2>1, <2>2, <2>3
<1>6. DecodedAt(bytes, i) = (IF b < 128 THEN b ELSE IF b < 224 THEN 64 * (b % 32) + x
                             ELSE IF b < 240 THEN 4096 * (b % 16) + 64 * x + y
                             ELSE 262144 * (b % 8) + 4096 * x + 64 * y + z)
  BY SMTT(30) DEF DecodedAt
<1>7. b \in Nat /\ b % 32 \in Nat /\ b % 16 \in Nat /\ b % 8 \in Nat
  BY <1>3
<1> HIDE DEF b, x, y, z
<1> QED BY <1>5, <1>6, <1>7

\* A character is decoded from its own bytes.
LEMMA DecodedSame ==
    ASSUME NEW x, NEW y, NEW i \in Nat, NEW j \in Nat, x[i] \in Nat,
           \A k \in 0..Trails(x[i]) : x[i + k] = y[j + k]
    PROVE  DecodedAt(x, i) = DecodedAt(y, j)
<1> DEFINE b == x[i]
<1>1. b = y[j]
  <2>1. 0 \in 0..Trails(x[i])
    BY DEF Trails
  <2>2. x[i + 0] = y[j + 0]
    BY <2>1
  <2> QED BY <2>2
<1>2. /\ b >= 128 => x[i + 1] = y[j + 1]
      /\ b >= 224 => x[i + 2] = y[j + 2]
      /\ b >= 240 => x[i + 3] = y[j + 3]
  <2>1. /\ b >= 128 => 1 \in 0..Trails(b)
        /\ b >= 224 => 2 \in 0..Trails(b)
        /\ b >= 240 => 3 \in 0..Trails(b)
    BY DEF Trails
  <2> QED BY <2>1
<1>3. b \in Nat
  OBVIOUS
<1>4. DecodedAt(x, i) = (IF b < 128 THEN b ELSE IF b < 224 THEN 64 * (b % 32) + (x[i + 1] % 64)
                         ELSE IF b < 240 THEN 4096 * (b % 16) + 64 * (x[i + 1] % 64) + (x[i + 2] % 64)
                         ELSE 262144 * (b % 8) + 4096 * (x[i + 1] % 64) + 64 * (x[i + 2] % 64) + (x[i + 3] % 64))
  BY SMTT(30) DEF DecodedAt
<1>5. DecodedAt(y, j) = (IF b < 128 THEN b ELSE IF b < 224 THEN 64 * (b % 32) + (y[j + 1] % 64)
                         ELSE IF b < 240 THEN 4096 * (b % 16) + 64 * (y[j + 1] % 64) + (y[j + 2] % 64)
                         ELSE 262144 * (b % 8) + 4096 * (y[j + 1] % 64) + 64 * (y[j + 2] % 64) + (y[j + 3] % 64))
  BY SMTT(30), <1>1 DEF DecodedAt
<1> HIDE DEF b
<1> QED BY SMTT(30), <1>2, <1>3, <1>4, <1>5

LEMMA CharactersTyped ==
    ASSUME NEW bytes \in Seq(Bytes), IsWhole(bytes)
    PROVE  Characters(bytes) \in Seq(Seq(Nat)) /\ Len(Characters(bytes)) = Len(bytes)
<1> DEFINE B == Seq(Nat)
<1>1. Len(bytes) \in Nat /\ DOMAIN bytes = 1..Len(bytes)
  OBVIOUS
<1>2. ASSUME NEW i \in 1..Len(bytes), ~IsTrailing(bytes[i]) PROVE <<DecodedAt(bytes, i)>> \in B
  <2>1. DecodedAt(bytes, i) \in Nat
    BY <1>2, DecodedTyped DEF IsWhole
  <2> QED BY <2>1
<1>3. <<>> \in B
  OBVIOUS
<1> HIDE DEF B
<1>4. Characters(bytes) \in Seq(B) /\ Len(Characters(bytes)) = Len(bytes)
  BY <1>1, <1>2, <1>3 DEF Characters
<1> QED BY <1>4 DEF B

LEMMA CharacterAdded ==
    ASSUME NEW x \in Seq(Bytes), IsWhole(x), NEW c \in Codepoints
    PROVE  /\ x \o Utf8(c) \in Seq(Bytes) /\ IsWhole(x \o Utf8(c))
           /\ IsWithOneMore(ScalarsOf(x \o Utf8(c)), ScalarsOf(x), c)
<1> DEFINE u == Utf8(c)
           l == Len(x)
           m == Len(u)
           y == x \o u
<1>1. /\ u \in Seq(Bytes) /\ m \in 1..4
      /\ ~IsTrailing(u[1]) /\ m = 1 + Trails(u[1]) /\ DecodedAt(u, 1) = c
      /\ \A k \in 1..m : k > 1 => IsTrailing(u[k])
  BY CharacterOf, Zenon DEF IsCharacter
<1>2. l \in Nat /\ c \in Nat
  BY DEF Codepoints
<1> HIDE DEF u
<1>3. y \in Seq(Bytes) /\ Len(y) = l + m /\ \A i \in 1..l : y[i] = x[i]
  BY <1>1, ConcatFirst
<1>4. \A k \in 1..m : y[l + k] = u[k]
  BY <1>1, ConcatSecond
<1>5. \A i \in 1..l : x[i] \in Bytes /\ x[i] \in Nat
  BY DEF Bytes
<1>6. \A k \in 1..m : u[k] \in Bytes /\ u[k] \in Nat
  BY <1>1 DEF Bytes
<1> HIDE DEF l, m, y
\* Where a byte of the whole is.
<1>7. \A i \in 1..(l + m) : i \in 1..l \/ i = l + 1 \/ (i - l \in 1..m /\ i - l > 1 /\ i = l + (i - l))
  BY <1>1, <1>2
<1>8. y[l + 1] = u[1]
  BY <1>1, <1>4
<1>9. \A i \in 1..(l + m) : i > l + 1 => IsTrailing(y[i])
  <2> SUFFICES ASSUME NEW i \in 1..(l + m), i > l + 1 PROVE IsTrailing(y[i])
    OBVIOUS
  <2>1. i - l \in 1..m /\ i - l > 1 /\ i = l + (i - l)
    BY <1>1, <1>2
  <2>2. y[i] = u[i - l]
    BY <1>4, <2>1
  <2> QED BY <1>1, <2>1, <2>2
<1>10. \A i \in 1..l : ~IsTrailing(x[i]) => i + Trails(x[i]) <= l
  BY DEF IsWhole, l
<1>11. IsWhole(y)
  <2> SUFFICES ASSUME NEW i \in 1..(l + m), ~IsTrailing(y[i]) PROVE i + Trails(y[i]) <= l + m
    BY <1>3 DEF IsWhole
  <2>1. CASE i \in 1..l
    <3>1. y[i] = x[i] /\ x[i] \in Nat
      BY <1>3, <1>5, <2>1
    <3> DEFINE p == Trails(x[i])
    <3>2. i + p <= l /\ p \in Nat /\ i \in Nat
      BY <1>10, <2>1, <3>1 DEF Trails
    <3>3. Trails(y[i]) = p
      BY <3>1
    <3>4. m \in Nat
      BY <1>1
    <3> HIDE DEF p
    <3>5. i + p <= l + m
      BY <1>2, <3>2, <3>4
    <3> QED BY <3>3, <3>5
  <2>2. CASE i = l + 1
    <3>1. u[1] \in Nat /\ y[i] = u[1]
      BY <1>1, <1>6, <1>8, <2>2
    <3> DEFINE p == Trails(u[1])
    <3>2. p \in Nat /\ m = 1 + p
      BY <1>1, <3>1 DEF Trails
    <3>3. Trails(y[i]) = p
      BY <3>1
    <3> HIDE DEF p
    <3>4. i + p <= l + m
      BY <1>2, <2>2, <3>2
    <3> QED BY <3>3, <3>4
  <2> QED BY <1>2, <1>9, <2>1, <2>2
<1> DEFINE s == Characters(x)
           t == Characters(y)
<1>12. /\ s \in Seq(Seq(Nat)) /\ Len(s) = l
       /\ t \in Seq(Seq(Nat)) /\ Len(t) = l + m
  BY <1>3, <1>11, CharactersTyped DEF l
<1>13. DOMAIN x = 1..l /\ DOMAIN y = 1..(l + m)
  BY <1>3 DEF l
<1>14. ASSUME NEW i \in 1..l PROVE t[i] = s[i]
  <2>1. i \in 1..(l + m) /\ y[i] = x[i] /\ x[i] \in Nat
    BY <1>1, <1>2, <1>3, <1>5
  <2>2. CASE IsTrailing(x[i])
    BY <1>13, <2>1, <2>2 DEF Characters
  <2>3. CASE ~IsTrailing(x[i])
    <3>1. i + Trails(x[i]) <= l /\ Trails(x[i]) \in 0..3
      BY <1>10, <2>1, <2>3 DEF Trails
    <3>2. \A k \in 0..Trails(x[i]) : i + k \in 1..l
      BY <1>2, <3>1
    <3>3. \A k \in 0..Trails(x[i]) : x[i + k] = y[i + k]
      BY <1>3, <3>2
    <3>4. DecodedAt(x, i) = DecodedAt(y, i)
      BY <2>1, <3>3, DecodedSame
    <3> QED BY <1>13, <2>1, <2>3, <3>4 DEF Characters
  <2> QED BY <2>2, <2>3
<1>15. t[l + 1] = <<c>>
  <2>1. l + 1 \in 1..(l + m) /\ ~IsTrailing(y[l + 1])
    BY <1>1, <1>2, <1>8
  <2>2. \A k \in 0..Trails(u[1]) : u[1 + k] = y[(l + 1) + k]
    <3> SUFFICES ASSUME NEW k \in 0..Trails(u[1]) PROVE u[1 + k] = y[(l + 1) + k]
      OBVIOUS
    <3>1. u[1] \in Nat
      BY <1>1, <1>6
    <3>2. Trails(u[1]) \in 0..3
      BY <3>1 DEF Trails
    <3>3. 1 + k \in 1..m /\ (l + 1) + k = l + (1 + k)
      BY <1>1, <1>2, <3>2
    <3> QED BY <1>4, <3>3
  <2>3. DecodedAt(u, 1) = DecodedAt(y, l + 1)
    <3> DEFINE h == 1
               j == l + 1
    <3>1. u[h] \in Nat /\ j \in Nat /\ h \in Nat
      BY <1>1, <1>2, <1>6
    <3>2. \A k \in 0..Trails(u[h]) : u[h + k] = y[j + k]
      BY <2>2
    <3> HIDE DEF h, j
    <3>3. DecodedAt(u, h) = DecodedAt(y, j)
      BY <3>1, <3>2, DecodedSame
    <3> QED BY <3>3 DEF h, j
  <2> QED BY <1>1, <1>13, <2>1, <2>3 DEF Characters
<1>16. ASSUME NEW i \in 1..(l + m), i > l + 1 PROVE t[i] = <<>>
  BY <1>9, <1>13, <1>16 DEF Characters
<1> HIDE DEF s, t
<1>17. IsWithOneMore(FlattenSeq(t), FlattenSeq(s), c)
  <2>1. Len(t) > Len(s)
    BY <1>1, <1>2, <1>12
  <2> QED BY <1>2, <1>12, <1>14, <1>15, <1>16, <2>1, FlattenOneMore
<1>18. ScalarsOf(x) = FlattenSeq(s) /\ ScalarsOf(y) = FlattenSeq(t)
  BY DEF ScalarsOf, Characters, s, t
<1> QED BY <1>3, <1>11, <1>17, <1>18 DEF y, u

-----------------------------------------------------------------------------
(* UTF-16: the units of a string and its bytes.                             *)

Pairs(units) == [i \in DOMAIN units |-> <<units[i] % 256, units[i] \div 256>>]
IsUnitAt(bytes, i, unit) == Unit(bytes, i) = unit

LEMMA PairsTyped ==
    ASSUME NEW units \in Seq(Units)
    PROVE  /\ Pairs(units) \in Seq(Seq(Bytes)) /\ Len(Pairs(units)) = Len(units)
           /\ \A i \in 1..Len(units) :
                 /\ Len(Pairs(units)[i]) = 2
                 /\ Pairs(units)[i][1] + 256 * Pairs(units)[i][2] = units[i]
<1>1. Len(units) \in Nat /\ DOMAIN units = 1..Len(units)
  OBVIOUS
<1> DEFINE B == Seq(Bytes)
<1>2. ASSUME NEW i \in 1..Len(units)
      PROVE  /\ units[i] % 256 \in Bytes /\ units[i] \div 256 \in Bytes
             /\ (units[i] % 256) + 256 * (units[i] \div 256) = units[i]
  <2> DEFINE u == units[i]
  <2>1. u \in Nat /\ u < 65536
    <3>1. u \in Units
      OBVIOUS
    <3> HIDE DEF u
    <3> QED BY SMTT(30), <3>1 DEF Units
  <2> HIDE DEF u
  <2>2. u % 256 \in Bytes /\ u \div 256 \in Bytes /\ (u % 256) + 256 * (u \div 256) = u
    BY SMTT(30), <2>1 DEF Bytes
  <2> QED BY <2>2 DEF u
<1>3. ASSUME NEW i \in 1..Len(units) PROVE <<units[i] % 256, units[i] \div 256>> \in B
  BY <1>2
<1> HIDE DEF B
<1>4. Pairs(units) \in Seq(B) /\ Len(Pairs(units)) = Len(units)
  BY <1>1, <1>3 DEF Pairs
<1>5. ASSUME NEW i \in 1..Len(units)
      PROVE  /\ Len(Pairs(units)[i]) = 2
             /\ Pairs(units)[i][1] + 256 * Pairs(units)[i][2] = units[i]
  <2>1. Pairs(units)[i] = <<units[i] % 256, units[i] \div 256>>
    BY <1>1 DEF Pairs
  <2>2. /\ Len(Pairs(units)[i]) = 2 /\ Pairs(units)[i][1] = units[i] % 256
        /\ Pairs(units)[i][2] = units[i] \div 256
    BY <2>1
  <2> QED BY <1>2, <2>2
<1> QED BY <1>4, <1>5 DEF B

LEMMA UnitsInBytes ==
    ASSUME NEW units \in Seq(Units), NEW stray \in Seq(Bytes)
    PROVE  /\ FlattenSeq(Pairs(units)) \o stray \in Seq(Bytes)
           /\ Len(FlattenSeq(Pairs(units)) \o stray) = 2 * Len(units) + Len(stray)
           /\ \A j \in 1..Len(units) :
                 IsUnitAt(FlattenSeq(Pairs(units)) \o stray, 2 * j - 1, units[j])
<1> DEFINE n == Len(units)
           p == Pairs(units)
           y == FlattenSeq(p)
           b == y \o stray
           S == {j \in Nat : j <= n => Len(JoinedTo(p, j)) = 2 * j}
<1>1. n \in Nat /\ p \in Seq(Seq(Bytes)) /\ Len(p) = n
  BY PairsTyped
<1>2. \A i \in 1..n : Len(p[i]) = 2 /\ p[i][1] + 256 * p[i][2] = units[i]
  BY PairsTyped
<1> HIDE DEF p
<1>3. 0 \in S
  <2>1. JoinedTo(p, 0) = <<>>
    BY <1>1, JoinedNone
  <2> QED BY <2>1
<1> HIDE DEF n
<1>4. ASSUME NEW j \in S PROVE j + 1 \in S
  <2> SUFFICES ASSUME j + 1 <= n PROVE Len(JoinedTo(p, j + 1)) = 2 * (j + 1)
    OBVIOUS
  <2>1. j \in Nat /\ j + 1 <= Len(p) /\ j + 1 \in 1..n /\ Len(JoinedTo(p, j)) = 2 * j
    BY <1>1
  <2>2. IsJoinedNext(p, j)
    BY <1>1, <2>1, JoinedNext
  <2>3. Len(JoinedTo(p, j + 1)) = 2 * j + Len(p[j + 1])
    BY <2>1, <2>2 DEF IsJoinedNext
  <2>4. Len(p[j + 1]) = 2
    BY <1>2, <2>1
  <2> QED BY <2>1, <2>3, <2>4
<1>5. S = Nat
  <2> HIDE DEF S
  <2> QED BY <1>3, <1>4, SetOfNaturals, S \in SUBSET Nat DEF S
<1>6. \A j \in 0..n : Len(JoinedTo(p, j)) = 2 * j
  <2> SUFFICES ASSUME NEW j \in 0..n PROVE Len(JoinedTo(p, j)) = 2 * j
    OBVIOUS
  <2>1. j \in Nat /\ j <= n
    BY <1>1
  <2>2. j \in S
    <3> HIDE DEF S
    <3> QED BY <1>5, <2>1
  <2> QED BY <2>1, <2>2
<1>7. y = JoinedTo(p, n) /\ y \in Seq(Bytes)
  BY <1>1, JoinedAll, FlattenTyped
<1>8. Len(y) = 2 * n
  BY <1>1, <1>6, <1>7
<1> HIDE DEF S, y
<1>9. b \in Seq(Bytes) /\ Len(b) = 2 * n + Len(stray) /\ \A i \in 1..Len(y) : b[i] = y[i]
  BY <1>7, <1>8, ConcatFirst
<1> HIDE DEF b
<1>10. ASSUME NEW j \in 1..n PROVE IsUnitAt(b, 2 * j - 1, units[j])
  <2> DEFINE k == j - 1
             x == JoinedTo(p, k + 1)
  <2>1. /\ k \in Nat /\ k + 1 = j /\ k + 1 <= Len(p) /\ k + 1 \in 0..Len(p) /\ Len(p) \in (k + 1)..Len(p)
        /\ k \in 0..n /\ k + 1 \in 0..n /\ n \in Nat /\ j \in Nat
    BY <1>1
  <2>2. IsJoinedNext(p, k)
    BY <1>1, <2>1, JoinedNext
  <2>3. Len(p[k + 1]) = 2 /\ Len(JoinedTo(p, k)) = 2 * k /\ Len(x) = 2 * (k + 1)
    BY <1>2, <1>6, <2>1
  <2>4. x[2 * k + 1] = p[k + 1][1] /\ x[2 * k + 2] = p[k + 1][2]
    <3>1. 1 \in 1..Len(p[k + 1]) /\ 2 \in 1..Len(p[k + 1])
      BY <2>3
    <3> QED BY <2>2, <2>3, <3>1 DEF IsJoinedNext
  <2>5. IsJoinedFirst(p, k + 1, n)
    BY <1>1, <2>1, JoinedStays
  <2> HIDE DEF k
  <2>6. \A i \in 1..(2 * (k + 1)) : y[i] = x[i]
    BY <1>7, <2>3, <2>5 DEF IsJoinedFirst
  <2> HIDE DEF x
  <2>7. /\ 2 * k + 1 \in 1..(2 * (k + 1)) /\ 2 * k + 2 \in 1..(2 * (k + 1))
        /\ 2 * k + 1 \in 1..Len(y) /\ 2 * k + 2 \in 1..Len(y)
    BY <1>8, <2>1
  <2>8. b[2 * k + 1] = p[j][1] /\ b[2 * k + 2] = p[j][2]
    BY <1>9, <2>1, <2>4, <2>6, <2>7
  <2>9. 2 * j - 1 = 2 * k + 1 /\ (2 * j - 1) + 1 = 2 * k + 2
    BY <2>1
  <2> QED BY <1>2, <2>8, <2>9 DEF IsUnitAt, Unit
<1> QED BY <1>9, <1>10 DEF b, y, p, n

-----------------------------------------------------------------------------
(* What utf16leToUtf8 makes of it.                                          *)

LEMMA CodepointTyped ==
    ASSUME NEW bytes \in Seq(Bytes), NEW i \in 1..Len(bytes), i + 1 <= Len(bytes)
    PROVE  Codepoint(bytes, i) \in Codepoints
<1> DEFINE u == Unit(bytes, i)
           v == Unit(bytes, i + 2)
<1>1. u \in Nat /\ u < 65536
  <2> DEFINE x == bytes[i]
             z == bytes[i + 1]
  <2>1. i + 1 \in 1..Len(bytes)
    OBVIOUS
  <2>2. x \in Bytes /\ z \in Bytes
    BY <2>1
  <2>3. u = x + 256 * z
    BY Zenon DEF Unit
  <2> HIDE DEF x, z, u
  <2> QED BY SMTT(30), <2>2, <2>3 DEF Bytes
<1>2. Codepoint(bytes, i) = IF Paired(bytes, i) THEN 65536 + (u - 55296) * 1024 + (v - 56320)
                            ELSE IF IsHigh(u) \/ IsLow(u) THEN Replacement ELSE u
  BY SMTT(30) DEF Codepoint
<1>3. Paired(bytes, i) => IsHigh(u) /\ IsLow(v)
  BY SMTT(30) DEF Paired
<1> DEFINE c == Codepoint(bytes, i)
<1> HIDE DEF u, v
<1>4. CASE Paired(bytes, i)
  <2>1. c = 65536 + (u - 55296) * 1024 + (v - 56320)
    BY <1>2, <1>4, SMTT(30)
  <2>2. u \in Nat /\ 55296 <= u /\ u <= 56319 /\ v \in Nat /\ 56320 <= v /\ v <= 57343
    <3>1. IsHigh(u) /\ IsLow(v)
      BY <1>3, <1>4, SMTT(30)
    <3>2. u \in 55296..56319 /\ v \in 56320..57343
      BY <3>1, SMTT(30) DEF IsHigh, IsLow
    <3> QED BY <3>2, SMTT(30)
  <2> HIDE DEF c
  <2>3. c \in Codepoints
    BY SMTT(30), <2>1, <2>2 DEF Codepoints
  <2> QED BY <2>3, SMTT(30) DEF c
<1>5. CASE ~Paired(bytes, i)
  <2>1. c = Replacement \/ c = u
    BY <1>2, <1>5, SMTT(30)
  <2> HIDE DEF c
  <2>2. c \in Codepoints
    BY SMTT(30), <1>1, <2>1 DEF Codepoints, Replacement
  <2> QED BY <2>2, SMTT(30) DEF c
<1> QED BY <1>4, <1>5, SMTT(30)

\* The recursion of utf16leToUtf8, as equations.
StepOf(bytes, i) == IF Paired(bytes, i) THEN 4 ELSE 2
IsDecoding(f, bytes, i) == f[i] = Utf8(Codepoint(bytes, i)) \o f[i + StepOf(bytes, i)]

LEMMA DecodingFrom ==
    ASSUME NEW bytes \in Seq(Bytes)
    PROVE  \E f : /\ Utf16leToUtf8(bytes) = f[1]
                  /\ \A i \in 1..(Len(bytes) + 4) :
                        /\ f[i] \in Seq(Bytes)
                        /\ i + 1 > Len(bytes) => f[i] = <<>>
                        /\ i + 1 <= Len(bytes) => IsDecoding(f, bytes, i)
<1> DEFINE n == Len(bytes) + 4
           P(f) == f = [i \in 1..n |->
                          IF i + 1 > Len(bytes) THEN <<>>
                          ELSE Utf8(Codepoint(bytes, i)) \o f[i + (IF Paired(bytes, i) THEN 4 ELSE 2)]]
           c == CHOOSE f : P(f)
           stops == {i \in 1..n : i + 1 > Len(bytes)}
           piece == [i \in 1..n |-> IF i + 1 > Len(bytes) THEN <<>> ELSE Utf8(Codepoint(bytes, i))]
           next == [i \in 1..n |-> i + StepOf(bytes, i)]
<1>1. Len(bytes) \in Nat /\ n \in Nat /\ n = Len(bytes) + 4
  OBVIOUS
<1>2. Utf16leToUtf8(bytes) = c[1]
  BY DEF Utf16leToUtf8
<1> HIDE DEF n
<1>3. \A i \in 1..n : StepOf(bytes, i) \in {2, 4}
  BY DEF StepOf
<1>4. GoesAhead(n, stops, next)
  BY <1>1, <1>3 DEF GoesAhead
<1>5. ArePieces(piece, n, Bytes)
  <2>1. ASSUME NEW i \in 1..n, ~(i + 1 > Len(bytes)) PROVE Utf8(Codepoint(bytes, i)) \in Seq(Bytes)
    <3>1. i \in 1..Len(bytes) /\ i + 1 <= Len(bytes)
      BY <1>1, <2>1
    <3>2. Codepoint(bytes, i) \in Codepoints
      BY <3>1, CodepointTyped
    <3> QED BY <3>2, CharacterOf, Zenon DEF IsCharacter
  <2>2. <<>> \in Seq(Bytes)
    OBVIOUS
  <2> QED BY <2>1, <2>2 DEF ArePieces
<1>6. ASSUME NEW f PROVE P(f) <=> IsFromEnd(f, n, stops, piece, next)
  <2>1. ASSUME NEW i \in 1..n
        PROVE  EndStep(f, i, stops, piece, next) =
                  (IF i + 1 > Len(bytes) THEN <<>>
                   ELSE Utf8(Codepoint(bytes, i)) \o f[i + (IF Paired(bytes, i) THEN 4 ELSE 2)])
    BY Zenon DEF EndStep, StepOf
  <2> HIDE DEF stops, piece, next
  <2> QED BY <2>1, Zenon DEF IsFromEnd
<1> HIDE DEF P, stops, piece, next
<1>7. \E f : P(f)
  BY <1>1, <1>4, <1>5, <1>6, FromEndExists
<1>8. P(c)
  BY <1>7
<1> HIDE DEF c
<1>9. \A i \in 1..n : c[i] \in Seq(Bytes) /\ c[i] = EndStep(c, i, stops, piece, next)
  <2>1. IsFromEnd(c, n, stops, piece, next)
    BY <1>6, <1>8
  <2> QED BY <1>1, <1>4, <1>5, <2>1, FromEndTyped
<1>10. ASSUME NEW i \in 1..n
       PROVE  /\ c[i] \in Seq(Bytes)
              /\ i + 1 > Len(bytes) => c[i] = <<>>
              /\ i + 1 <= Len(bytes) => IsDecoding(c, bytes, i)
  <2>1. c[i] \in Seq(Bytes) /\ c[i] = EndStep(c, i, stops, piece, next)
    BY <1>9
  <2>2. CASE i + 1 > Len(bytes)
    BY <1>1, <2>1, <2>2 DEF EndStep, stops, piece
  <2>3. CASE ~(i + 1 > Len(bytes))
    <3>1. c[i] = Utf8(Codepoint(bytes, i)) \o c[i + StepOf(bytes, i)]
      BY <2>1, <2>3, Zenon DEF EndStep, stops, piece, next
    <3> QED BY <1>1, <2>1, <2>3, <3>1 DEF IsDecoding
  <2> QED BY <2>2, <2>3
<1> QED BY <1>2, <1>10 DEF n

-----------------------------------------------------------------------------
(* Both, unit by unit.                                                      *)

\* What each unit adds to the code points, and to the bytes.
ScalarPieces(units) ==
    [i \in DOMAIN units |-> IF IsSecondHalf(units, i) THEN <<>> ELSE <<ScalarAt(units, i)>>]
BytePieces(units) ==
    [i \in DOMAIN units |-> IF IsSecondHalf(units, i) THEN <<>> ELSE Utf8(ScalarAt(units, i))]

\* Where the decoding of a unit starts; that of the second half of a pair is
\* behind it.
PositionOf(units, i) ==
    IF i <= Len(units) /\ IsSecondHalf(units, i) THEN 2 * i + 1 ELSE 2 * i - 1

LEMMA UnitTyped ==
    ASSUME NEW units \in Seq(Units), NEW i \in 1..Len(units)
    PROVE  units[i] \in Nat /\ units[i] < 65536
<1>1. units[i] \in Units
  OBVIOUS
<1> QED BY SMTT(30), <1>1 DEF Units

LEMMA ScalarTyped ==
    ASSUME NEW units \in Seq(Units), NEW i \in 1..Len(units)
    PROVE  ScalarAt(units, i) \in Codepoints
<1> DEFINE u == units[i]
           v == units[i + 1]
           c == ScalarAt(units, i)
<1>1. u \in Nat /\ u < 65536
  BY UnitTyped
<1>2. CASE IsFirstHalf(units, i)
  <2>1. i + 1 \in 1..Len(units)
    BY <1>2 DEF IsFirstHalf
  <2>2. v \in Nat
    BY <2>1, UnitTyped
  <2>3. c = 65536 + 1024 * (u % 1024) + (v % 1024)
    BY <1>2, SMTT(30) DEF ScalarAt
  <2> HIDE DEF u, v, c
  <2>4. c \in Codepoints
    BY SMTT(30), <1>1, <2>2, <2>3 DEF Codepoints
  <2> QED BY <2>4, SMTT(30) DEF c
<1>3. CASE ~IsFirstHalf(units, i)
  <2>1. c = Replacement \/ c = u
    BY <1>3, SMTT(30) DEF ScalarAt
  <2> HIDE DEF u, c
  <2>2. c \in Codepoints
    BY SMTT(30), <1>1, <2>1 DEF Codepoints, Replacement
  <2> QED BY <2>2, SMTT(30) DEF c
<1> QED BY <1>2, <1>3, SMTT(30)

LEMMA PiecesTyped ==
    ASSUME NEW units \in Seq(Units)
    PROVE  /\ BytePieces(units) \in Seq(Seq(Bytes)) /\ Len(BytePieces(units)) = Len(units)
           /\ ScalarPieces(units) \in Seq(Seq(Nat)) /\ Len(ScalarPieces(units)) = Len(units)
           /\ \A i \in 1..Len(units) :
                 /\ IsSecondHalf(units, i) => BytePieces(units)[i] = <<>> /\ ScalarPieces(units)[i] = <<>>
                 /\ ~IsSecondHalf(units, i) =>
                       /\ BytePieces(units)[i] = Utf8(ScalarAt(units, i))
                       /\ ScalarPieces(units)[i] = <<ScalarAt(units, i)>>
<1> DEFINE A == Seq(Bytes)
           B == Seq(Nat)
<1>1. Len(units) \in Nat /\ DOMAIN units = 1..Len(units)
  OBVIOUS
<1>2. ASSUME NEW i \in 1..Len(units) PROVE Utf8(ScalarAt(units, i)) \in A
  <2>1. ScalarAt(units, i) \in Codepoints
    BY ScalarTyped
  <2> QED BY <2>1, CharacterOf, Zenon DEF IsCharacter
<1>3. ASSUME NEW i \in 1..Len(units) PROVE <<ScalarAt(units, i)>> \in B
  <2>1. ScalarAt(units, i) \in Nat
    <3>1. ScalarAt(units, i) \in Codepoints
      BY ScalarTyped
    <3> QED BY <3>1, SMTT(30) DEF Codepoints
  <2> QED BY <2>1
<1>4. <<>> \in A /\ <<>> \in B
  OBVIOUS
<1> HIDE DEF A, B
<1>5. BytePieces(units) \in Seq(A) /\ Len(BytePieces(units)) = Len(units)
  BY <1>1, <1>2, <1>4 DEF BytePieces
<1>6. ScalarPieces(units) \in Seq(B) /\ Len(ScalarPieces(units)) = Len(units)
  BY <1>1, <1>3, <1>4 DEF ScalarPieces
<1>7. ASSUME NEW i \in 1..Len(units)
      PROVE  /\ IsSecondHalf(units, i) => BytePieces(units)[i] = <<>> /\ ScalarPieces(units)[i] = <<>>
             /\ ~IsSecondHalf(units, i) =>
                   /\ BytePieces(units)[i] = Utf8(ScalarAt(units, i))
                   /\ ScalarPieces(units)[i] = <<ScalarAt(units, i)>>
  BY <1>1, Zenon DEF BytePieces, ScalarPieces
<1> QED BY <1>5, <1>6, <1>7 DEF A, B

\* The ten bits a half brings.
LEMMA FirstHalfBits ==
    ASSUME NEW u \in Int, 55296 <= u, u <= 56319
    PROVE  u % 1024 = u - 55296
BY SMTT(30)

LEMMA SecondHalfBits ==
    ASSUME NEW u \in Int, 56320 <= u, u <= 57343
    PROVE  u % 1024 = u - 56320
BY SMTT(30)

\* A unit in the bytes is the unit in the string, and so is its code point.
LEMMA SameScalar ==
    ASSUME NEW units \in Seq(Units), NEW bytes \in Seq(Bytes), NEW k \in 1..Len(units),
           Len(bytes) \in {2 * Len(units), 2 * Len(units) + 1},
           \A j \in 1..Len(units) : IsUnitAt(bytes, 2 * j - 1, units[j]),
           ~IsSecondHalf(units, k)
    PROVE  /\ Codepoint(bytes, 2 * k - 1) = ScalarAt(units, k)
           /\ PositionOf(units, k + 1) = (2 * k - 1) + StepOf(bytes, 2 * k - 1)
<1> DEFINE n == Len(units)
           i == 2 * k - 1
           u == units[k]
           v == units[k + 1]
<1>1. /\ n \in Nat /\ k \in Nat /\ k <= n /\ i \in Nat /\ i + 3 = 2 * k + 2
      /\ i + 2 = 2 * (k + 1) - 1 /\ i + 2 = 2 * k + 1
  OBVIOUS
<1>2. Unit(bytes, i) = u
  BY DEF IsUnitAt
<1>3. k < n => Unit(bytes, i + 2) = v /\ k + 1 \in 1..n
  <2> SUFFICES ASSUME k < n PROVE Unit(bytes, i + 2) = v /\ k + 1 \in 1..n
    OBVIOUS
  <2>1. k + 1 \in 1..n
    BY <1>1
  <2>2. IsUnitAt(bytes, 2 * (k + 1) - 1, units[k + 1])
    BY <2>1
  <2> QED BY <1>1, <2>1, <2>2 DEF IsUnitAt
<1>4. i + 3 <= Len(bytes) <=> k < n
  <2> DEFINE l == Len(bytes)
  <2>1. l = 2 * n \/ l = 2 * n + 1
    OBVIOUS
  <2> HIDE DEF l, n, i
  <2> QED BY <1>1, <2>1 DEF l
<1>5. u \in Nat /\ u < 65536
  BY UnitTyped
<1>6. k < n => v \in Nat
  BY <1>3, UnitTyped
<1>7. IsFirstHalf(units, k) <=> k < n /\ IsLow(v) /\ IsHigh(u)
  <2>1. k + 1 > 1 /\ (k + 1) - 1 = k
    BY <1>1
  <2> QED BY <2>1 DEF IsFirstHalf, IsSecondHalf
<1> HIDE DEF i, n
<1>8. Paired(bytes, i) <=> IsFirstHalf(units, k)
  BY <1>2, <1>3, <1>4, <1>7, Zenon DEF Paired
<1>9. Codepoint(bytes, i) = ScalarAt(units, k)
  <2>1. Codepoint(bytes, i) = IF Paired(bytes, i)
                              THEN 65536 + (u - 55296) * 1024 + (Unit(bytes, i + 2) - 56320)
                              ELSE IF IsHigh(u) \/ IsLow(u) THEN Replacement ELSE u
    BY <1>2, SMTT(30) DEF Codepoint
  <2>2. ScalarAt(units, k) = IF IsFirstHalf(units, k) THEN 65536 + 1024 * (u % 1024) + (v % 1024)
                             ELSE IF u \in 55296..57343 THEN Replacement ELSE u
    BY SMTT(30) DEF ScalarAt
  <2> HIDE DEF u, v
  <2>3. CASE IsFirstHalf(units, k)
    <3>1. IsLow(v) /\ IsHigh(u) /\ k < n
      BY <1>7, <2>3
    <3>2. u \in 55296..56319 /\ v \in 56320..57343
      BY <3>1, SMTT(30) DEF IsHigh, IsLow
    <3>3. (u - 55296) * 1024 = 1024 * (u % 1024) /\ v - 56320 = v % 1024
      <4>1. /\ u \in Int /\ 55296 <= u /\ u <= 56319
            /\ v \in Int /\ 56320 <= v /\ v <= 57343
        BY <3>2, SMTT(30)
      <4>2. u % 1024 = u - 55296
        BY <4>1, FirstHalfBits, SMTT(30)
      <4>3. v % 1024 = v - 56320
        BY <4>1, SecondHalfBits, SMTT(30)
      <4> DEFINE a == u - 55296
      <4>4. a \in Int
        BY <4>1, SMTT(30)
      <4> HIDE DEF a
      <4>5. a * 1024 = 1024 * a
        BY <4>4, SMTT(30)
      <4> QED BY <4>2, <4>3, <4>5, SMTT(30) DEF a
    <3>4. Unit(bytes, i + 2) = v
      BY <1>3, <3>1
    <3> DEFINE w == Unit(bytes, i + 2)
               a == (u - 55296) * 1024
               d == v - 56320
    <3>5. a \in Int /\ d \in Int
      BY <3>2, SMTT(30)
    <3>6. Codepoint(bytes, i) = 65536 + a + d
      BY <1>8, <2>1, <2>3, <3>4, SMTT(30)
    <3>7. ScalarAt(units, k) = 65536 + a + d
      BY <2>2, <2>3, <3>3, SMTT(30)
    <3> QED BY <3>6, <3>7, SMTT(30)
  <2>4. CASE ~IsFirstHalf(units, k)
    <3>1. (IsHigh(u) \/ IsLow(u)) <=> u \in 55296..57343
      BY <1>5, SMTT(30) DEF IsHigh, IsLow
    <3> QED BY <1>8, <2>1, <2>2, <2>4, <3>1, SMTT(30)
  <2> QED BY <2>3, <2>4, SMTT(30)
<1>10. PositionOf(units, k + 1) = i + StepOf(bytes, i)
  <2>1. (k + 1 <= n /\ IsSecondHalf(units, k + 1)) <=> Paired(bytes, i)
    <3>1. k + 1 <= n <=> k < n
      BY <1>1
    <3> QED BY <1>8, <3>1, Zenon DEF IsFirstHalf, n
  <2>2. PositionOf(units, k + 1) = IF Paired(bytes, i) THEN 2 * (k + 1) + 1 ELSE 2 * (k + 1) - 1
    BY <2>1, Zenon DEF PositionOf, n
  <2>3. i + 4 = 2 * (k + 1) + 1 /\ i + 2 = 2 * (k + 1) - 1
    BY <1>1
  <2> QED BY <2>2, <2>3, Zenon DEF StepOf
<1> QED BY <1>9, <1>10 DEF i

\* The bytes are decoded piece by piece.
LEMMA DecodedInPieces ==
    ASSUME NEW units \in Seq(Units), NEW bytes \in Seq(Bytes),
           Len(bytes) \in {2 * Len(units), 2 * Len(units) + 1},
           \A j \in 1..Len(units) : IsUnitAt(bytes, 2 * j - 1, units[j])
    PROVE  Utf16leToUtf8(bytes) = FlattenSeq(BytePieces(units))
<1> DEFINE n == Len(units)
           l == Len(bytes)
           p == BytePieces(units)
<1>1. n \in Nat /\ l \in Nat /\ (l = 2 * n \/ l = 2 * n + 1)
  OBVIOUS
<1>2. PICK f : /\ Utf16leToUtf8(bytes) = f[1]
               /\ \A i \in 1..(l + 4) :
                     /\ f[i] \in Seq(Bytes)
                     /\ i + 1 > l => f[i] = <<>>
                     /\ i + 1 <= l => IsDecoding(f, bytes, i)
  BY DecodingFrom
<1>3. p \in Seq(Seq(Bytes)) /\ Len(p) = n
  BY PiecesTyped
<1> DEFINE From(j) == JoinedTo(p, j) \o f[PositionOf(units, j + 1)]
           S == {j \in Nat : j <= n => f[1] = From(j)}
<1>4. 0 \in S
  <2>1. PositionOf(units, 0 + 1) = 1
    BY DEF PositionOf, IsSecondHalf
  <2>2. JoinedTo(p, 0) = <<>>
    BY <1>3, JoinedNone
  <2>3. f[1] \in Seq(Bytes)
    <3>1. 1 \in 1..(l + 4)
      BY <1>1
    <3> QED BY <1>2, <3>1
  <2>4. <<>> \o f[1] = f[1]
    BY <2>3
  <2>5. From(0) = f[1]
    <3> HIDE DEF p
    <3> QED BY <2>1, <2>2, <2>4
  <2> HIDE DEF From
  <2> QED BY <2>5
<1>5. ASSUME NEW j \in S PROVE j + 1 \in S
  <2> DEFINE k == j + 1
  <2>1. SUFFICES ASSUME k <= n PROVE f[1] = From(k)
    <3> HIDE DEF From
    <3> QED OBVIOUS
  <2> DEFINE x == JoinedTo(p, j)
             z == p[k]
             q == f[PositionOf(units, k + 1)]
  <2>2. /\ k \in 1..n /\ j \in Nat /\ k \in Nat /\ k = j + 1 /\ j <= n /\ j \in 0..Len(p) /\ j + 1 <= Len(p)
    BY <1>1, <1>3, <2>1
  <2>3. f[1] = x \o f[PositionOf(units, k)]
    BY <2>2
  <2>4. x \in Seq(Bytes)
    BY <1>3, <2>2, JoinedTyped
  <2> HIDE DEF p
  <2>5. CASE IsSecondHalf(units, k)
    <3>1. z = <<>>
      BY <2>2, <2>5, PiecesTyped DEF p
    <3>2. JoinedTo(p, k) = x
      <4> HIDE DEF x
      <4>1. JoinedTo(p, j + 1) = JoinedTo(p, j)
        BY <1>3, <2>2, <3>1, JoinedSame
      <4> QED BY <4>1 DEF x
    <3>3. ~(IsLow(units[k]) /\ IsHigh(units[k]))
      <4> DEFINE u == units[k]
      <4> HIDE DEF u
      <4>1. ~(IsLow(u) /\ IsHigh(u))
        <5> SUFFICES ASSUME IsLow(u), IsHigh(u) PROVE FALSE
          BY SMTT(30)
        <5>1. u \in Int /\ u <= 56319
          BY SMTT(30) DEF IsHigh
        <5>2. 56320 <= u
          BY SMTT(30) DEF IsLow
        <5> QED BY <5>1, <5>2, SMTT(30)
      <4> QED BY <4>1, SMTT(30) DEF u
    <3>4. ~IsSecondHalf(units, k + 1)
      <4>1. (k + 1) - 1 = k
        BY <2>2
      <4> HIDE DEF k
      <4> QED BY <2>5, <3>3, <4>1, Zenon DEF IsSecondHalf
    <3>5. PositionOf(units, k) = 2 * k + 1 /\ PositionOf(units, k + 1) = 2 * (k + 1) - 1
      <4> HIDE DEF k
      <4> QED BY <2>1, <2>5, <3>4, Zenon DEF PositionOf, n
    <3>6. PositionOf(units, k) = PositionOf(units, k + 1)
      <4> HIDE DEF k
      <4> QED BY <2>2, <3>5
    <3> HIDE DEF k, x
    <3> QED BY <2>3, <3>2, <3>6
  <2>6. CASE ~IsSecondHalf(units, k)
    <3> DEFINE i == 2 * k - 1
    <3>1. PositionOf(units, k) = i
      BY <2>6, Zenon DEF PositionOf
    <3>2. i \in 1..(l + 4) /\ i + 1 <= l
      <4> HIDE DEF k, l, n
      <4> QED BY <1>1, <2>2
    <3>3. z = Utf8(ScalarAt(units, k)) /\ z \in Seq(Bytes)
      <4> HIDE DEF k
      <4>1. k \in 1..Len(p)
        BY <1>3, <2>2
      <4>2. z \in Seq(Bytes)
        BY <1>3, <4>1
      <4> QED BY <2>2, <2>6, <4>2, PiecesTyped DEF p
    <3>4. Codepoint(bytes, i) = ScalarAt(units, k) /\ PositionOf(units, k + 1) = i + StepOf(bytes, i)
      <4> HIDE DEF k
      <4> QED BY <2>2, <2>6, SameScalar
    <3>5. f[i] = z \o q
      <4>1. IsDecoding(f, bytes, i)
        BY <1>2, <3>2
      <4> HIDE DEF z, i, k
      <4> QED BY <3>3, <3>4, <4>1, Zenon DEF IsDecoding
    <3>6. q \in Seq(Bytes)
      <4> DEFINE h == PositionOf(units, k + 1)
      <4>1. StepOf(bytes, i) \in {2, 4}
        BY DEF StepOf
      <4>2. h \in 1..(l + 4)
        <5>1. h = i + StepOf(bytes, i)
          BY <3>4
        <5> HIDE DEF h, i, l
        <5> QED BY <1>1, <3>2, <4>1, <5>1
      <4> HIDE DEF h
      <4>3. f[h] \in Seq(Bytes)
        BY <1>2, <4>2
      <4> QED BY <4>3 DEF h
    <3>7. f[1] = x \o (z \o q)
      <4> HIDE DEF x, z, q, i, k
      <4> QED BY <2>3, <3>1, <3>5
    <3>8. JoinsEitherWay(x, z, q)
      <4> HIDE DEF x, z, q, i, k
      <4> QED BY <2>4, <3>3, <3>6, ConcatThree
    <3>9. JoinedTo(p, k) = x \o z
      <4>1. IsJoinedMore(p, j)
        BY <1>3, <2>2, JoinedMore
      <4> QED BY <4>1 DEF IsJoinedMore
    <3> HIDE DEF x, z, q, i, k
    <3>10. f[1] = JoinedTo(p, k) \o q
      BY <3>7, <3>8, <3>9 DEF JoinsEitherWay
    <3> QED BY <3>10 DEF q
  <2> QED BY <2>5, <2>6
<1>6. S = Nat
  <2>1. S \in SUBSET Nat
    <3> HIDE DEF From
    <3> QED OBVIOUS
  <2> HIDE DEF S
  <2> QED BY <1>4, <1>5, <2>1, SetOfNaturals
<1>7. f[1] = From(n)
  <2>1. n \in S
    <3> HIDE DEF S, n
    <3> QED BY <1>1, <1>6
  <2> HIDE DEF From
  <2> QED BY <1>1, <2>1
<1>8. f[PositionOf(units, n + 1)] = <<>>
  <2> DEFINE h == PositionOf(units, n + 1)
  <2>1. h = 2 * n + 1
    <3>1. ~(n + 1 <= n) /\ 2 * (n + 1) - 1 = 2 * n + 1
      BY <1>1
    <3> QED BY <3>1, Zenon DEF PositionOf
  <2> HIDE DEF h, n, l
  <2>2. h \in 1..(l + 4) /\ h + 1 > l
    BY <1>1, <2>1
  <2>3. f[h] = <<>>
    BY <1>2, <2>2
  <2> QED BY <2>3 DEF h
<1>9. JoinedTo(p, n) \in Seq(Bytes) /\ JoinedTo(p, n) = FlattenSeq(p)
  <2> HIDE DEF p, n
  <2>1. n \in 0..Len(p)
    BY <1>1, <1>3
  <2> QED BY <1>3, <2>1, JoinedTyped, JoinedAll
<1> HIDE DEF p
<1>10. f[1] = FlattenSeq(p) \o <<>> /\ FlattenSeq(p) \in Seq(Bytes)
  <2> HIDE DEF n
  <2> QED BY <1>7, <1>8, <1>9
<1> DEFINE y == FlattenSeq(p)
<1> HIDE DEF y
<1>11. y \o <<>> = y
  BY <1>10 DEF y
<1> QED BY <1>2, <1>10, <1>11 DEF y, p

LEMMA NoBytes ==
    /\ <<>> \in Seq(Bytes) /\ IsWhole(<<>>) /\ ScalarsOf(<<>>) = <<>>
<1>1. <<>> \in Seq(Bytes) /\ IsWhole(<<>>)
  BY DEF IsWhole
<1> DEFINE s == Characters(<<>>)
<1>2. s \in Seq(Seq(Nat)) /\ Len(s) = 0
  BY <1>1, CharactersTyped
<1>3. ScalarsOf(<<>>) = FlattenSeq(s)
  BY DEF ScalarsOf, Characters
<1> HIDE DEF s
<1>4. FlattenSeq(s) = <<>>
  BY <1>2, JoinedNone, JoinedAll
<1> QED BY <1>1, <1>3, <1>4

\* The string in UTF-8 has the code points of the string in UTF-16.
LEMMA ScalarsInPieces ==
    ASSUME NEW units \in Seq(Units)
    PROVE  ScalarsOf(FlattenSeq(BytePieces(units))) = Scalars(units)
<1> DEFINE n == Len(units)
           p == BytePieces(units)
           q == ScalarPieces(units)
           Is(j) == /\ JoinedTo(p, j) \in Seq(Bytes) /\ IsWhole(JoinedTo(p, j))
                    /\ ScalarsOf(JoinedTo(p, j)) = JoinedTo(q, j)
           S == {j \in Nat : j <= n => Is(j)}
<1>1. p \in Seq(Seq(Bytes)) /\ Len(p) = n /\ q \in Seq(Seq(Nat)) /\ Len(q) = n /\ n \in Nat
  BY PiecesTyped
<1>2. 0 \in S
  <2>1. JoinedTo(p, 0) = <<>> /\ JoinedTo(q, 0) = <<>>
    <3> HIDE DEF p, q
    <3> QED BY <1>1, JoinedNone
  <2>2. Is(0)
    <3> HIDE DEF p, q
    <3> QED BY <2>1, NoBytes
  <2> HIDE DEF Is
  <2> QED BY <2>2
<1>3. ASSUME NEW j \in S PROVE j + 1 \in S
  <2> DEFINE k == j + 1
             x == JoinedTo(p, j)
             y == JoinedTo(q, j)
  <2>1. SUFFICES ASSUME k <= n PROVE Is(k)
    <3> HIDE DEF Is
    <3> QED OBVIOUS
  <2>2. /\ k \in 1..n /\ j \in Nat /\ j <= n /\ j + 1 <= Len(p) /\ j + 1 <= Len(q) /\ j \in 0..Len(q)
    <3> HIDE DEF p, q
    <3> QED BY <1>1, <2>1
  <2>3. x \in Seq(Bytes) /\ IsWhole(x) /\ ScalarsOf(x) = y
    BY <2>2
  <2>4. CASE IsSecondHalf(units, k)
    <3>1. p[k] = <<>> /\ q[k] = <<>>
      BY <2>2, <2>4, PiecesTyped
    <3> HIDE DEF p, q
    <3>2. JoinedTo(p, j + 1) = JoinedTo(p, j) /\ JoinedTo(q, j + 1) = JoinedTo(q, j)
      BY <1>1, <2>2, <3>1, JoinedSame
    <3> QED BY <2>3, <3>2
  <2>5. CASE ~IsSecondHalf(units, k)
    <3> DEFINE c == ScalarAt(units, k)
    <3>1. p[k] = Utf8(c) /\ q[k] = <<c>>
      <4> HIDE DEF k
      <4> QED BY <2>2, <2>5, PiecesTyped
    <3>2. c \in Codepoints /\ c \in Nat
      <4>1. c \in Codepoints
        BY <2>2, ScalarTyped
      <4> HIDE DEF c
      <4> QED BY <4>1, SMTT(30) DEF Codepoints
    <3> HIDE DEF c, p, q
    <3>3. IsJoinedMore(p, j) /\ IsJoinedMore(q, j)
      BY <1>1, <2>2, JoinedMore
    <3>4. JoinedTo(p, k) = x \o Utf8(c) /\ JoinedTo(q, k) = y \o <<c>>
      BY <3>1, <3>3 DEF IsJoinedMore
    <3>5. y \in Seq(Nat)
      BY <1>1, <2>2, JoinedTyped
    <3> DEFINE w == x \o Utf8(c)
    <3> HIDE DEF x, y, k
    <3>6. /\ w \in Seq(Bytes) /\ IsWhole(w) /\ IsWithOneMore(ScalarsOf(w), ScalarsOf(x), c)
      BY <2>3, <3>2, CharacterAdded
    <3>7. y \o <<c>> = Append(y, c)
      BY <3>2, <3>5
    <3> HIDE DEF w
    <3>8. ScalarsOf(w) = y \o <<c>>
      BY <2>3, <3>6, <3>7 DEF IsWithOneMore
    <3> QED BY <3>4, <3>6, <3>8 DEF w
  <2> QED BY <2>4, <2>5
<1>4. S = Nat
  <2>1. S \in SUBSET Nat
    <3> HIDE DEF Is
    <3> QED OBVIOUS
  <2> HIDE DEF S
  <2> QED BY <1>2, <1>3, <2>1, SetOfNaturals
<1>5. Is(n)
  <2>1. n \in S
    <3> HIDE DEF S, n
    <3> QED BY <1>1, <1>4
  <2> HIDE DEF Is
  <2> QED BY <1>1, <2>1
<1>6. FlattenSeq(q) = Scalars(units)
  BY DEF ScalarPieces, Scalars
<1>7. JoinedTo(p, n) = FlattenSeq(p) /\ JoinedTo(q, n) = FlattenSeq(q)
  <2> HIDE DEF p, q
  <2> QED BY <1>1, JoinedAll
<1> HIDE DEF p, q, n
<1>8. ScalarsOf(FlattenSeq(p)) = FlattenSeq(q)
  BY <1>5, <1>7
<1> QED BY <1>6, <1>8 DEF p

IsDecoded(units, bytes) ==
    bytes \in Seq(Bytes) /\ ScalarsOf(Utf16leToUtf8(bytes)) = Scalars(units)

\* What is decoded of the bytes of a string, with a stray one or without.
LEMMA StringIsDecoded ==
    ASSUME NEW units \in Seq(Units), NEW stray \in {<<>>, << 220 >>}
    PROVE  IsDecoded(units, FlattenSeq(Pairs(units)) \o stray)
<1> DEFINE b == FlattenSeq(Pairs(units)) \o stray
           n == Len(units)
<1>1. stray \in Seq(Bytes) /\ Len(stray) \in {0, 1}
  <2>1. 220 \in Bytes
    BY DEF Bytes
  <2>2. CASE stray = <<>>
    BY <2>2
  <2>3. CASE stray = << 220 >>
    BY <2>1, <2>3
  <2> QED BY <2>2, <2>3
<1>2. /\ b \in Seq(Bytes) /\ Len(b) = 2 * n + Len(stray)
      /\ \A j \in 1..n : IsUnitAt(b, 2 * j - 1, units[j])
  BY <1>1, UnitsInBytes
<1> HIDE DEF b
<1>3. Len(b) \in {2 * n, 2 * n + 1}
  <2>1. n \in Nat
    OBVIOUS
  <2> DEFINE l == Len(b)
             m == Len(stray)
  <2>2. l = 2 * n + m /\ (m = 0 \/ m = 1)
    BY <1>1, <1>2
  <2> HIDE DEF n, l, m
  <2>3. l = 2 * n \/ l = 2 * n + 1
    BY <2>1, <2>2
  <2> QED BY <2>3 DEF l
<1>4. Utf16leToUtf8(b) = FlattenSeq(BytePieces(units))
  BY <1>2, <1>3, DecodedInPieces
<1>5. ScalarsOf(Utf16leToUtf8(b)) = Scalars(units)
  BY <1>4, ScalarsInPieces
<1> QED BY <1>2, <1>5 DEF b, IsDecoded

\* A string that is read whole brings its bytes.
LEMMA WholeString ==
    ASSUME NEW b \in Seq(Nat), NEW n \in 0..Len(<<2 + Len(b), String>> \o b),
           NEW data, data = SubSeq(<<2 + Len(b), String>> \o b, 1, n),
           ~(Len(data) < 2), ~(Len(data) < data[1])
    PROVE  SubSeq(data, 3, data[1]) = b
<1> DEFINE l == Len(b)
           h == <<2 + l, String>>
           a == h \o b
<1>1. l \in Nat /\ h \in Seq(Nat) /\ Len(h) = 2 /\ h[1] = 2 + l
  BY DEF String
<1> HIDE DEF l, h
<1>2. a \in Seq(Nat) /\ Len(a) = 2 + l /\ \A i \in 1..2 : a[i] = h[i]
  <2>1. h \o b \in Seq(Nat) /\ Len(h \o b) = Len(h) + Len(b) /\ \A i \in 1..Len(h) : (h \o b)[i] = h[i]
    BY <1>1, ConcatFirst
  <2> QED BY <1>1, <2>1 DEF l
<1>3. \A i \in 1..l : a[2 + i] = b[i]
  <2>1. \A i \in 1..Len(b) : (h \o b)[Len(h) + i] = b[i]
    <3>1. h \in Seq(Nat)
      BY <1>1
    <3> HIDE DEF a
    <3> QED BY <3>1, ConcatSecond
  <2> QED BY <1>1, <2>1 DEF l
<1>4. n \in 0..Len(a) /\ data = SubSeq(a, 1, n)
  BY DEF a, h, l
<1> HIDE DEF a
<1>5. data \in Seq(Nat) /\ Len(data) = n /\ n \in 0..(2 + l) /\ \A i \in 1..n : data[i] = a[i]
  <2>1. n \in Nat /\ n <= Len(a) /\ 1 <= n + 1 /\ n \in 0..(2 + l)
    BY <1>1, <1>2, <1>4
  <2>2. SubSeq(a, 1, n) \in Seq(Nat) /\ Len(SubSeq(a, 1, n)) = n /\ \A i \in 1..n : SubSeq(a, 1, n)[i] = a[i]
    BY <1>2, <2>1
  <2> QED BY <1>4, <2>1, <2>2
<1>6. data[1] = 2 + l
  <2>1. 1 \in 1..n /\ 1 \in 1..2
    BY <1>5
  <2> QED BY <1>1, <1>2, <1>5, <2>1
<1>7. n = 2 + l
  BY <1>1, <1>5, <1>6
<1> DEFINE s == SubSeq(data, 3, 2 + l)
<1>8. s \in Seq(Nat) /\ Len(s) = l /\ \A i \in 1..l : s[i] = data[2 + i]
  BY <1>1, <1>5, <1>7
<1>9. \A i \in 1..l : s[i] = b[i]
  <2> SUFFICES ASSUME NEW i \in 1..l PROVE s[i] = b[i]
    OBVIOUS
  <2>1. 2 + i \in 1..n
    BY <1>1, <1>7
  <2> HIDE DEF s
  <2> QED BY <1>3, <1>5, <1>8, <2>1
<1> HIDE DEF s
<1>10. s = b
  BY <1>8, <1>9, SameElements DEF l
<1> QED BY <1>6, <1>10 DEF s

-----------------------------------------------------------------------------
StringsInv == deviceRead \in DevicesRead /\ StringsAreDevices

\* A string that is stored is the one of the device at that index.
LEMMA StoredString ==
    ASSUME NEW index, index # 0, deviceRead \in DevicesRead,
           NEW answer \in Answers(String, index), NEW n \in 0..Len(answer),
           NEW data, data = SubSeq(answer, 1, n), ~(Len(data) < 2), ~(Len(data) < data[1])
    PROVE  \E language \in DOMAIN deviceRead.strings :
              /\ index \in DOMAIN deviceRead.strings[language]
              /\ ScalarsOf(Utf16leToUtf8(SubSeq(data, 3, data[1])))
                    = Scalars(deviceRead.strings[language][index])
<1>1. PICK language \in DOMAIN deviceRead.strings :
          /\ index \in DOMAIN deviceRead.strings[language]
          /\ answer = StringAnswer(deviceRead.strings[language][index])
  <2>1. String # Device /\ String # Config /\ String # BOS
    BY DEF String, Device, Config, BOS
  <2> DEFINE strings == {StringAnswer(deviceRead.strings[language][index]) :
                            language \in {l \in DOMAIN deviceRead.strings :
                                              index \in DOMAIN deviceRead.strings[l]}}
             answers == IF index = 0 THEN {<<4, String, 9, 4>>} ELSE strings
             others == {ConfigAnswer(deviceRead.configurations[i]) :
                           i \in DOMAIN deviceRead.configurations \cap {index + 1}} \cup {DeviceAnswer}
             a == {DeviceAnswer}
             b == {BOSAnswer}
  <2>2. Answers(String, index) = CASE String = Device -> a [] String = Config -> others
                                   [] String = String -> answers [] String = BOS -> b
    BY Zenon DEF Answers
  <2>3. answers = strings
    BY Zenon
  <2> HIDE DEF strings, answers, others, a, b
  <2>4. Answers(String, index) = answers
    BY <2>1, <2>2
  <2>5. answer \in strings
    BY <2>3, <2>4
  <2> QED BY <2>5, Zenon DEF strings
<1> DEFINE units == deviceRead.strings[language][index]
           stray == deviceRead.stray
           b == FlattenSeq(Pairs(units)) \o stray
<1>2. units \in Seq(Units)
  <2> DEFINE f == deviceRead.strings[language]
  <2>1. ToSet(f) \subseteq Seq(Units)
    BY <1>1, StringsAssumption, Zenon
  <2>2. f[index] \in ToSet(f)
    BY <1>1, Zenon DEF ToSet
  <2> QED BY <2>1, <2>2, Zenon
<1>3. stray \in {<<>>, << 220 >>}
  BY DescriptorsAssumption
<1>4. answer = <<2 + Len(b), String>> \o b
  BY <1>1, Zenon DEF StringAnswer, Pairs
<1> HIDE DEF units, stray
<1>5. b \in Seq(Bytes) /\ ScalarsOf(Utf16leToUtf8(b)) = Scalars(units)
  <2>1. IsDecoded(units, b)
    BY <1>2, <1>3, StringIsDecoded
  <2> HIDE DEF b
  <2> QED BY <2>1 DEF IsDecoded
<1> HIDE DEF b
<1>6. b \in Seq(Nat)
  BY <1>5 DEF Bytes
<1>7. SubSeq(data, 3, data[1]) = b
  BY <1>4, <1>6, WholeString
<1> QED BY <1>1, <1>5, <1>7 DEF units

LEMMA StringStep == StringsInv /\ [Read]_readVars => StringsInv'
<1> SUFFICES ASSUME StringsInv, [Read]_readVars PROVE StringsInv'
  OBVIOUS
<1>1. CASE UNCHANGED <<deviceRead, m_strings>>
  BY <1>1 DEF StringsInv, StringsAreDevices
<1>2. CASE Read
  <2>1. PICK type \in {Device, Config, String, BOS}, index \in 0..2 :
            \E answer \in Answers(type, index) : \E n \in 0..Len(answer) :
                ProcessDescriptor(type, index, SubSeq(answer, 1, n))
    BY <1>2 DEF Read
  <2>2. PICK answer \in Answers(type, index) : \E n \in 0..Len(answer) :
                ProcessDescriptor(type, index, SubSeq(answer, 1, n))
    BY <2>1
  <2>3. PICK n \in 0..Len(answer) : ProcessDescriptor(type, index, SubSeq(answer, 1, n))
    BY <2>2
  <2> DEFINE data == SubSeq(answer, 1, n)
  <2>4. ProcessDescriptor(type, index, data) /\ deviceRead' = deviceRead
    BY <1>2, <2>3 DEF Read
  <2> HIDE DEF data
  <2>5. \/ m_strings' = m_strings
        \/ /\ type = String /\ index # 0 /\ ~(Len(data) < data[1]) /\ ~(Len(data) < 2)
           /\ m_strings' = With(m_strings, index, Utf16leToUtf8(SubSeq(data, 3, data[1])))
    <3>1. String # Device /\ String # Config /\ String # BOS /\ Device # Config /\ Device # BOS /\ Config # BOS
      BY DEF String, Device, Config, BOS
    <3>2. CASE type = String
      <4>1. UNCHANGED <<learnt, m_anomalies>> \/ UNCHANGED learnt
            \/ (ReadString(index, data) /\ ~(Len(data) < 2))
        BY <2>4, <3>1, <3>2, Zenon DEF ProcessDescriptor
      <4>2. CASE ReadString(index, data) /\ ~(Len(data) < 2)
        <5>1. m_strings' = IF index = 0 \/ data[1] < 2 \/ Len(data) < data[1] THEN m_strings
                           ELSE With(m_strings, index, Utf16leToUtf8(SubSeq(data, 3, data[1])))
          BY <4>2 DEF ReadString
        <5> QED BY <3>2, <4>2, <5>1
      <4> QED BY <4>1, <4>2 DEF learnt
    <3>3. CASE type # String
      <4>1. UNCHANGED m_strings
        BY <2>1, <2>4, <3>1, <3>3, Zenon
        DEF ProcessDescriptor, ReadDevice, ReadConfig, ReadBOS, learnt
      <4> QED BY <4>1
    <3> QED BY <3>2, <3>3
  <2>6. CASE m_strings' = m_strings
    BY <1>1, <2>4, <2>6
  <2>7. CASE /\ type = String /\ index # 0 /\ ~(Len(data) < data[1]) /\ ~(Len(data) < 2)
             /\ m_strings' = With(m_strings, index, Utf16leToUtf8(SubSeq(data, 3, data[1])))
    <3> DEFINE value == Utf16leToUtf8(SubSeq(data, 3, data[1]))
               IsDevices(i, v) == \E language \in DOMAIN deviceRead.strings :
                                     /\ i \in DOMAIN deviceRead.strings[language]
                                     /\ ScalarsOf(v) = Scalars(deviceRead.strings[language][i])
    <3>1. IsDevices(index, value)
      <4> QED BY <2>2, <2>7, StoredString DEF StringsInv, data
    <3>2. \A i \in DOMAIN m_strings : IsDevices(i, m_strings[i])
      BY DEF StringsInv, StringsAreDevices
    <3> HIDE DEF value, IsDevices
    <3>3. DOMAIN m_strings' = DOMAIN m_strings \cup {index}
          /\ \A i \in DOMAIN m_strings' : m_strings'[i] = IF i = index THEN value ELSE m_strings[i]
      BY <2>7, Zenon DEF With, value
    <3>4. \A i \in DOMAIN m_strings' : IsDevices(i, m_strings'[i])
      BY <3>1, <3>2, <3>3
    <3>5. deviceRead' \in DevicesRead /\ deviceRead' = deviceRead
      BY <2>4 DEF StringsInv
    <3> QED BY <3>4, <3>5, Zenon DEF StringsInv, StringsAreDevices, IsDevices
  <2> QED BY <2>5, <2>6, <2>7
<1> QED BY <1>1, <1>2 DEF readVars, learnt

\* Every string that Device keeps is, code point by code point, one that the
\* device has at that index in some language: utf16leToUtf8 takes each pair of
\* halves for one character and half a pair for U+FFFD, leaves a stray byte
\* alone, and processDescriptor keeps nothing that was read only in part.
THEOREM StringsAreTheDevices == ReadSpec => []StringsAreDevices
<1>1. ReadInit => StringsInv
  BY DEF ReadInit, StringsInv, StringsAreDevices
<1>2. StringsInv => StringsAreDevices
  BY DEF StringsInv
<1> QED BY <1>1, <1>2, StringStep, PTL DEF ReadSpec

-----------------------------------------------------------------------------
(* Configurations.  What parse makes of the set of a configuration is what   *)
(* its descriptors announce, by induction: one descriptor more changes what  *)
(* is announced as Added changes it (AnnouncedMore); Split finds the         *)
(* descriptors one after another, up to the wrong one (SplitConfiguration);  *)
(* so parse has what is announced by those before it (ParsedConfiguration).  *)

\* A descriptor as a device has it, and the first of a configuration.
IsNode(d) ==
    /\ d \in Seq(Nat) /\ d[2] \in {Config, Interface, Endpoint, Functional, Other}
    /\ d[1] = Len(d) /\ Len(d) >= SizeOf[d[2]]
AreNodes(nodes) ==
    /\ nodes \in Seq(Seq(Nat))
    /\ \A i \in 1..Len(nodes) : IsNode(nodes[i]) /\ (nodes[i][2] = Config <=> i = 1)

\* One descriptor more.
IsOneMore(z, y, d) ==
    /\ y \in Seq(Seq(Nat)) /\ Len(z) = Len(y) + 1 /\ z[Len(y) + 1] = d
    /\ \A i \in 1..Len(y) : z[i] = y[i]

\* The cells that a descriptor has by its type.
LEMMA NodeCells ==
    ASSUME NEW d, IsNode(d)
    PROVE  /\ Len(d) >= 2 /\ d[1] = Len(d) /\ d[2] \in Nat /\ ~TooShort(d)
           /\ d[2] = Interface => d[3] \in Nat /\ d[4] \in Nat /\ d[5] \in Nat
           /\ d[2] = Endpoint => d[3] \in Nat
           /\ d[2] = Config => d[3] \in Nat /\ d[4] \in Nat /\ Len(d) >= 4
<1>1. /\ SizeOf[Config] = 4 /\ SizeOf[Interface] = 5 /\ SizeOf[Endpoint] = 3
      /\ SizeOf[Functional] = 3 /\ SizeOf[Other] = 2
  BY DEF SizeOf, Device, Config, Interface, Endpoint, Functional, Other, BOS
<1>2. Len(d) >= 2 /\ (d[2] = Interface => Len(d) >= 5) /\ (d[2] = Endpoint => Len(d) >= 3)
      /\ (d[2] = Config => Len(d) >= 4) /\ Len(d) \in Nat
  <2> DEFINE t == d[2]
             l == Len(d)
  <2>1. l \in Nat /\ l >= SizeOf[t] /\ t \in {Config, Interface, Endpoint, Functional, Other}
    BY DEF IsNode
  <2> HIDE DEF t, l
  <2>2. l >= 2 /\ (t = Interface => l >= 5) /\ (t = Endpoint => l >= 3) /\ (t = Config => l >= 4)
    BY <1>1, <2>1
  <2> QED BY <2>1, <2>2 DEF t, l
<1>3. d \in Seq(Nat) /\ d[1] = Len(d)
  BY DEF IsNode
<1>4. \A k \in 1..Len(d) : d[k] \in Nat
  BY <1>3
<1>5. ~TooShort(d)
  <2>1. Len(d) >= SizeOf[d[2]] /\ Len(d) \in Nat
    BY <1>3 DEF IsNode
  <2>2. d[2] \in {Config, Interface, Endpoint} => SizeOf[d[2]] \in Nat
    BY <1>1
  <2> QED BY <2>1, <2>2 DEF TooShort
<1> QED BY <1>2, <1>3, <1>4, <1>5

\* The interface a place belongs to.
IsLastOf(nodes, i, k) ==
    /\ k \in 0..i /\ (k # 0 => nodes[k][2] = Interface)
    /\ \A j \in 1..i : nodes[j][2] = Interface => j <= k

\* LastInterface is the last interface descriptor at or before a place.
LEMMA LastIs ==
    ASSUME NEW nodes, NEW i \in Nat
    PROVE  IsLastOf(nodes, i, LastInterface(nodes, i))
<1> DEFINE S == {0} \cup {j \in 1..i : nodes[j][2] = Interface}
<1>1. S \in SUBSET (0..i) /\ S # {}
  OBVIOUS
<1>2. Max(S) \in S /\ \A m \in S : Max(S) >= m
  <2> HIDE DEF S
  <2> QED BY <1>1, LargestOf
<1>3. LastInterface(nodes, i) = Max(S)
  BY DEF LastInterface
<1> DEFINE k == Max(S)
<1>4. k \in 0..i /\ (k # 0 => nodes[k][2] = Interface)
  <2> HIDE DEF k
  <2>1. k \in S
    BY <1>2 DEF k
  <2> QED BY <2>1
<1>5. \A j \in 1..i : nodes[j][2] = Interface => j <= k
  <2> SUFFICES ASSUME NEW j \in 1..i, nodes[j][2] = Interface PROVE j <= k
    OBVIOUS
  <2>1. j \in S
    OBVIOUS
  <2>2. k >= j
    <3> HIDE DEF S
    <3> QED BY <1>2, <2>1
  <2> HIDE DEF k
  <2> QED BY <1>4, <2>2
<1> QED BY <1>3, <1>4, <1>5 DEF IsLastOf

\* There is one such place.
LEMMA LastUnique ==
    ASSUME NEW nodes, NEW i \in Nat, NEW k, IsLastOf(nodes, i, k)
    PROVE  LastInterface(nodes, i) = k
<1> DEFINE l == LastInterface(nodes, i)
<1>1. IsLastOf(nodes, i, l)
  BY LastIs
<1> HIDE DEF l
<1>2. l \in 0..i /\ k \in 0..i
  BY <1>1 DEF IsLastOf
<1>3. l # 0 => l <= k
  BY <1>1, <1>2 DEF IsLastOf
<1>4. k # 0 => k <= l
  BY <1>1, <1>2 DEF IsLastOf
<1>5. l = k
  BY <1>2, <1>3, <1>4
<1> QED BY <1>5 DEF l

\* What one descriptor more changes of it.
LEMMA LastMore ==
    ASSUME NEW y, NEW z, NEW d, IsOneMore(z, y, d)
    PROVE  /\ \A i \in 0..Len(y) : LastInterface(z, i) = LastInterface(y, i)
           /\ LastInterface(z, Len(y) + 1) =
                 IF d[2] = Interface THEN Len(y) + 1 ELSE LastInterface(y, Len(y))
<1> DEFINE n == Len(y)
<1>1. n \in Nat /\ z[n + 1] = d /\ \A i \in 1..n : z[i] = y[i]
  <2> DEFINE B == Seq(Nat)
  <2>1. y \in Seq(B)
    BY DEF IsOneMore
  <2> HIDE DEF B
  <2>2. n \in Nat
    BY <2>1
  <2> QED BY <2>2, Zenon DEF IsOneMore
<1> HIDE DEF n
<1>2. ASSUME NEW i \in 0..n PROVE LastInterface(z, i) = LastInterface(y, i)
  <2>1. i \in Nat /\ \A j \in 1..i : z[j] = y[j]
    BY <1>1
  <2> DEFINE k == LastInterface(y, i)
  <2>2. IsLastOf(y, i, k)
    BY <2>1, LastIs
  <2> HIDE DEF k
  <2>3. IsLastOf(z, i, k)
    BY <2>1, <2>2 DEF IsLastOf
  <2>4. LastInterface(z, i) = k
    BY <2>1, <2>3, LastUnique
  <2> QED BY <2>4 DEF k
<1>3. LastInterface(z, n + 1) = IF d[2] = Interface THEN n + 1 ELSE LastInterface(y, n)
  <2>1. n + 1 \in Nat
    BY <1>1
  <2>2. CASE d[2] = Interface
    <3>1. IsLastOf(z, n + 1, n + 1)
      BY <1>1, <2>2 DEF IsLastOf
    <3> QED BY <2>1, <2>2, <3>1, LastUnique
  <2>3. CASE d[2] # Interface
    <3> DEFINE k == LastInterface(y, n)
    <3>1. IsLastOf(y, n, k)
      BY <1>1, LastIs
    <3> HIDE DEF k
    <3>2. IsLastOf(z, n + 1, k)
      <4>1. k \in 0..n /\ k \in 0..(n + 1) /\ (k # 0 => k \in 1..n /\ z[k][2] = Interface)
        BY <1>1, <3>1 DEF IsLastOf
      <4>2. ASSUME NEW j \in 1..(n + 1), z[j][2] = Interface PROVE j <= k
        <5>1. j \in 1..n
          BY <1>1, <2>3, <4>2
        <5> QED BY <1>1, <3>1, <4>2, <5>1 DEF IsLastOf
      <4> QED BY <4>1, <4>2 DEF IsLastOf
    <3>3. LastInterface(z, n + 1) = k
      BY <2>1, <3>2, LastUnique
    <3> QED BY <2>3, <3>3 DEF k
  <2> QED BY <2>2, <2>3
<1> QED BY <1>2, <1>3 DEF n

\* The endpoints of an interface.
EndpointPieces(nodes, j) ==
    [i \in DOMAIN nodes |->
        IF nodes[i][2] = Endpoint /\ LastInterface(nodes, i) = j THEN <<nodes[i][3]>> ELSE <<>>]

\* What each descriptor adds to the endpoints of an interface.
LEMMA EndpointPiecesTyped ==
    ASSUME NEW nodes, AreNodes(nodes), NEW j
    PROVE  /\ EndpointPieces(nodes, j) \in Seq(Seq(Nat)) /\ Len(EndpointPieces(nodes, j)) = Len(nodes)
           /\ EndpointsOf(nodes, j) = FlattenSeq(EndpointPieces(nodes, j))
           /\ EndpointsOf(nodes, j) \in Seq(Nat)
<1> DEFINE B == Seq(Nat)
           p == EndpointPieces(nodes, j)
<1>1. Len(nodes) \in Nat /\ DOMAIN nodes = 1..Len(nodes)
  BY DEF AreNodes
<1>2. ASSUME NEW i \in 1..Len(nodes), nodes[i][2] = Endpoint PROVE <<nodes[i][3]>> \in B
  <2>1. IsNode(nodes[i])
    BY DEF AreNodes
  <2>2. nodes[i][3] \in Nat
    BY <1>2, <2>1, NodeCells
  <2> QED BY <2>2
<1>3. <<>> \in B
  OBVIOUS
<1> HIDE DEF B
<1>4. p \in Seq(B) /\ Len(p) = Len(nodes)
  BY <1>1, <1>2, <1>3 DEF EndpointPieces
<1>5. EndpointsOf(nodes, j) = FlattenSeq(p)
  BY DEF EndpointsOf, EndpointPieces
<1> HIDE DEF p
<1>6. FlattenSeq(p) \in Seq(Nat)
  BY <1>4, FlattenTyped DEF B
<1> QED BY <1>4, <1>5, <1>6 DEF B, p

\* One descriptor more adds its endpoint to the last interface, and to no other.
LEMMA EndpointsMore ==
    ASSUME NEW y, NEW z, NEW d, AreNodes(y), AreNodes(z), IsOneMore(z, y, d), NEW j \in 1..Len(y)
    PROVE  EndpointsOf(z, j) = IF d[2] = Endpoint /\ LastInterface(y, Len(y)) = j
                               THEN Append(EndpointsOf(y, j), d[3]) ELSE EndpointsOf(y, j)
<1> DEFINE n == Len(y)
           p == EndpointPieces(y, j)
           q == EndpointPieces(z, j)
           x == IF d[2] = Endpoint /\ LastInterface(y, n) = j THEN <<d[3]>> ELSE <<>>
<1>1. /\ n \in Nat /\ Len(z) = n + 1 /\ z[n + 1] = d /\ \A i \in 1..n : z[i] = y[i]
      /\ DOMAIN y = 1..n /\ DOMAIN z = 1..(n + 1)
  BY DEF IsOneMore, AreNodes
<1>2. /\ p \in Seq(Seq(Nat)) /\ Len(p) = n /\ EndpointsOf(y, j) = FlattenSeq(p) /\ EndpointsOf(y, j) \in Seq(Nat)
      /\ q \in Seq(Seq(Nat)) /\ Len(q) = n + 1 /\ EndpointsOf(z, j) = FlattenSeq(q)
  BY <1>1, EndpointPiecesTyped
<1>3. \A i \in 1..n : q[i] = p[i]
  <2> SUFFICES ASSUME NEW i \in 1..n PROVE q[i] = p[i]
    OBVIOUS
  <2>1. i \in 0..n /\ i \in 1..(n + 1) /\ z[i] = y[i]
    BY <1>1
  <2>2. LastInterface(z, i) = LastInterface(y, i)
    BY <2>1, LastMore
  <2> QED BY <1>1, <2>1, <2>2, Zenon DEF EndpointPieces
<1>4. q[n + 1] = x
  <2>1. n + 1 \in 1..(n + 1)
    BY <1>1
  <2>2. LastInterface(z, n + 1) = IF d[2] = Interface THEN n + 1 ELSE LastInterface(y, n)
    BY LastMore
  <2>3. Endpoint # Interface
    BY DEF Endpoint, Interface
  <2>4. q[n + 1] = IF d[2] = Endpoint /\ LastInterface(z, n + 1) = j THEN <<d[3]>> ELSE <<>>
    BY <1>1, <2>1, Zenon DEF EndpointPieces
  <2> QED BY <2>2, <2>3, <2>4, Zenon
<1>5. x \in Seq(Nat)
  <2>1. IsNode(d)
    <3>1. n + 1 \in 1..Len(z)
      BY <1>1
    <3> QED BY <1>1, <3>1 DEF AreNodes
  <2>2. d[2] = Endpoint => d[3] \in Nat
    BY <2>1, NodeCells
  <2> QED BY <2>2
<1> HIDE DEF p, q, x, n
<1>6. IsFlattenedMore(p, q, x)
  BY <1>2, <1>3, <1>4, <1>5, FlattenMore
<1>7. EndpointsOf(z, j) = EndpointsOf(y, j) \o x
  BY <1>2, <1>6 DEF IsFlattenedMore
<1>8. CASE d[2] = Endpoint /\ LastInterface(y, n) = j
  <2>1. x = <<d[3]>>
    BY <1>8 DEF x
  <2> DEFINE e == EndpointsOf(y, j)
             c == d[3]
  <2>2. c \in Nat
    <3>1. n + 1 \in 1..Len(z)
      BY <1>1
    <3>2. IsNode(d)
      BY <1>1, <3>1 DEF AreNodes
    <3> QED BY <1>8, <3>2, NodeCells
  <2>3. e \o <<c>> = Append(e, c)
    <3>1. e \in Seq(Nat)
      BY <1>2
    <3> HIDE DEF e, c
    <3> QED BY <2>2, <3>1
  <2> QED BY <1>7, <1>8, <2>1, <2>3 DEF n
<1>9. CASE ~(d[2] = Endpoint /\ LastInterface(y, n) = j)
  <2>1. x = <<>>
    BY <1>9 DEF x
  <2> DEFINE e == EndpointsOf(y, j)
  <2>2. e \o <<>> = e
    <3>1. e \in Seq(Nat)
      BY <1>2
    <3> HIDE DEF e
    <3> QED BY <3>1
  <2> QED BY <1>7, <1>9, <2>1, <2>2 DEF n
<1> QED BY <1>8, <1>9

\* An interface descriptor that is the last one has no endpoints yet.
LEMMA EndpointsNone ==
    ASSUME NEW y, NEW z, NEW d, AreNodes(z), IsOneMore(z, y, d), d[2] = Interface
    PROVE  EndpointsOf(z, Len(y) + 1) = <<>>
<1> DEFINE n == Len(y)
           q == EndpointPieces(z, n + 1)
<1>1. /\ n \in Nat /\ Len(z) = n + 1 /\ z[n + 1] = d /\ DOMAIN z = 1..(n + 1)
  BY DEF IsOneMore, AreNodes
<1>2. q \in Seq(Seq(Nat)) /\ Len(q) = n + 1 /\ EndpointsOf(z, n + 1) = FlattenSeq(q)
  BY <1>1, EndpointPiecesTyped
<1>3. ASSUME NEW i \in 1..(n + 1) PROVE q[i] = <<>>
  <2>1. CASE i = n + 1
    <3>1. z[i][2] # Endpoint
      BY <1>1, <2>1 DEF Endpoint, Interface
    <3> QED BY <1>1, <3>1, Zenon DEF EndpointPieces
  <2>2. CASE i # n + 1
    <3>1. i \in Nat /\ i < n + 1
      BY <1>1, <2>2
    <3>2. LastInterface(z, i) \in 0..i
      BY <3>1, LastIs DEF IsLastOf
    <3>3. LastInterface(z, i) # n + 1
      BY <1>1, <3>1, <3>2
    <3> QED BY <1>1, <3>3, Zenon DEF EndpointPieces
  <2> QED BY <2>1, <2>2
<1> HIDE DEF q, n
<1>4. FlattenSeq(q) = <<>>
  BY <1>2, <1>3, FlattenNothing
<1> QED BY <1>2, <1>4 DEF n

\* The interfaces.
InterfaceAt(nodes, j) ==
    [number |-> nodes[j][3], alternate |-> nodes[j][4], class |-> nodes[j][5],
     endpoints |-> EndpointsOf(nodes, j)]
InterfacePieces(nodes) ==
    [j \in DOMAIN nodes |-> IF nodes[j][2] # Interface THEN <<>> ELSE <<InterfaceAt(nodes, j)>>]
AnyInterface == [number : Nat, alternate : Nat, class : Nat, endpoints : Seq(Nat)]

\* What an interface descriptor announces.
LEMMA InterfaceAtTyped ==
    ASSUME NEW nodes, AreNodes(nodes), NEW j \in 1..Len(nodes), nodes[j][2] = Interface
    PROVE  InterfaceAt(nodes, j) \in AnyInterface
<1>1. nodes[j][3] \in Nat /\ nodes[j][4] \in Nat /\ nodes[j][5] \in Nat
  <2>1. IsNode(nodes[j])
    BY DEF AreNodes
  <2> QED BY <2>1, NodeCells
<1>2. EndpointsOf(nodes, j) \in Seq(Nat)
  BY EndpointPiecesTyped
<1> QED BY <1>1, <1>2 DEF InterfaceAt, AnyInterface

\* The interfaces are those of the descriptors, one by one.
LEMMA InterfacePiecesTyped ==
    ASSUME NEW nodes, AreNodes(nodes)
    PROVE  /\ InterfacePieces(nodes) \in Seq(Seq(AnyInterface))
           /\ Len(InterfacePieces(nodes)) = Len(nodes)
           /\ InterfacesOf(nodes) = FlattenSeq(InterfacePieces(nodes))
           /\ InterfacesOf(nodes) \in Seq(AnyInterface)
<1> DEFINE B == Seq(AnyInterface)
           p == InterfacePieces(nodes)
<1>1. Len(nodes) \in Nat /\ DOMAIN nodes = 1..Len(nodes)
  BY DEF AreNodes
<1>2. ASSUME NEW j \in 1..Len(nodes), nodes[j][2] = Interface PROVE <<InterfaceAt(nodes, j)>> \in B
  <2>1. InterfaceAt(nodes, j) \in AnyInterface
    BY <1>2, InterfaceAtTyped
  <2> QED BY <2>1
<1>3. <<>> \in B
  OBVIOUS
<1> HIDE DEF B
<1>4. p \in Seq(B) /\ Len(p) = Len(nodes)
  BY <1>1, <1>2, <1>3 DEF InterfacePieces
<1>5. InterfacesOf(nodes) = FlattenSeq(p)
  BY DEF InterfacesOf, InterfacePieces, InterfaceAt
<1> HIDE DEF p
<1>6. FlattenSeq(p) \in Seq(AnyInterface)
  BY <1>4, FlattenTyped DEF B
<1> QED BY <1>4, <1>5, <1>6 DEF B, p

\* None without an interface descriptor; otherwise the last one at its place
\* behind those before it.
LEMMA NoInterfaces ==
    ASSUME NEW nodes, AreNodes(nodes), LastInterface(nodes, Len(nodes)) = 0
    PROVE  InterfacesOf(nodes) = <<>>
<1> DEFINE n == Len(nodes)
           p == InterfacePieces(nodes)
<1>1. n \in Nat /\ DOMAIN nodes = 1..n
  BY DEF AreNodes
<1>2. p \in Seq(Seq(AnyInterface)) /\ Len(p) = n /\ InterfacesOf(nodes) = FlattenSeq(p)
  BY InterfacePiecesTyped
<1> HIDE DEF n
<1>3. ASSUME NEW j \in 1..n PROVE p[j] = <<>>
  <2>1. IsLastOf(nodes, n, 0)
    BY <1>1, LastIs DEF n
  <2>2. nodes[j][2] # Interface
    BY <1>1, <2>1 DEF IsLastOf
  <2> QED BY <1>1, <2>2, Zenon DEF InterfacePieces
<1> HIDE DEF p
<1> QED BY <1>2, <1>3, FlattenNothing

LEMMA InterfacesToLast ==
    ASSUME NEW nodes, AreNodes(nodes), NEW l, l = LastInterface(nodes, Len(nodes)), l # 0
    PROVE  /\ l \in 1..Len(nodes) /\ nodes[l][2] = Interface
           /\ JoinedTo(InterfacePieces(nodes), l - 1) \in Seq(AnyInterface)
           /\ IsWithOneMore(InterfacesOf(nodes), JoinedTo(InterfacePieces(nodes), l - 1),
                            InterfaceAt(nodes, l))
<1> DEFINE n == Len(nodes)
           p == InterfacePieces(nodes)
           B == Seq(AnyInterface)
           s == SubSeq(p, 1, l - 1)
<1>1. n \in Nat /\ DOMAIN nodes = 1..n
  BY DEF AreNodes
<1>2. p \in Seq(B) /\ Len(p) = n /\ InterfacesOf(nodes) = FlattenSeq(p)
  BY InterfacePiecesTyped
<1> HIDE DEF n
<1>3. IsLastOf(nodes, n, l)
  BY <1>1, LastIs DEF n
<1>4. l \in 1..n /\ nodes[l][2] = Interface /\ \A j \in 1..n : nodes[j][2] = Interface => j <= l
  BY <1>1, <1>3 DEF IsLastOf
<1>5. p[l] = <<InterfaceAt(nodes, l)>>
  BY <1>1, <1>4, Zenon DEF InterfacePieces
<1>6. \A j \in 1..n : j > l => p[j] = <<>>
  <2> SUFFICES ASSUME NEW j \in 1..n, j > l PROVE p[j] = <<>>
    OBVIOUS
  <2>1. nodes[j][2] # Interface
    BY <1>1, <1>4
  <2> QED BY <1>1, <2>1, Zenon DEF InterfacePieces
<1>7. InterfaceAt(nodes, l) \in AnyInterface
  BY <1>4, InterfaceAtTyped DEF n
<1> HIDE DEF p, B
<1>8. s \in Seq(B) /\ Len(s) = l - 1 /\ \A i \in 1..(l - 1) : s[i] = p[i]
  <2>1. l - 1 \in Nat /\ l - 1 <= Len(p)
    BY <1>1, <1>2, <1>4
  <2> QED BY <1>2, <2>1
<1> HIDE DEF s
<1>9. Len(p) > Len(s) /\ p[Len(s) + 1] = <<InterfaceAt(nodes, l)>> /\ Len(s) + 1 = l
  BY <1>1, <1>2, <1>4, <1>5, <1>8
<1>10. \A i \in 1..Len(p) : i > Len(s) + 1 => p[i] = <<>>
  BY <1>2, <1>6, <1>9
<1>11. \A i \in 1..Len(s) : p[i] = s[i]
  BY <1>8
<1>12. s \in Seq(Seq(AnyInterface)) /\ p \in Seq(Seq(AnyInterface))
  BY <1>2, <1>8 DEF B
<1>13. IsWithOneMore(FlattenSeq(p), FlattenSeq(s), InterfaceAt(nodes, l))
  BY <1>7, <1>9, <1>10, <1>11, <1>12, FlattenOneMore
<1>14. FlattenSeq(s) \in Seq(AnyInterface)
  BY <1>12, FlattenTyped
<1> QED BY <1>2, <1>4, <1>13, <1>14 DEF JoinedTo, s, p, n

\* The pieces of a part are those of the whole.
LEMMA InterfacesBefore ==
    ASSUME NEW y, NEW z, NEW d, AreNodes(y), AreNodes(z), IsOneMore(z, y, d), NEW m \in 0..Len(y),
           \A j \in 1..m : d[2] = Endpoint => j # LastInterface(y, Len(y))
    PROVE  JoinedTo(InterfacePieces(z), m) = JoinedTo(InterfacePieces(y), m)
<1> DEFINE n == Len(y)
           p == InterfacePieces(y)
           q == InterfacePieces(z)
           B == Seq(AnyInterface)
           s == SubSeq(p, 1, m)
           t == SubSeq(q, 1, m)
<1>1. /\ n \in Nat /\ Len(z) = n + 1 /\ \A i \in 1..n : z[i] = y[i]
      /\ DOMAIN y = 1..n /\ DOMAIN z = 1..(n + 1)
  BY DEF IsOneMore, AreNodes
<1>2. p \in Seq(B) /\ Len(p) = n /\ q \in Seq(B) /\ Len(q) = n + 1
  BY <1>1, InterfacePiecesTyped
<1>3. ASSUME NEW j \in 1..m PROVE q[j] = p[j]
  <2>1. j \in 1..n /\ j \in 1..(n + 1) /\ z[j] = y[j]
    BY <1>1
  <2>2. EndpointsOf(z, j) = EndpointsOf(y, j)
    <3>1. ~(d[2] = Endpoint /\ LastInterface(y, Len(y)) = j)
      OBVIOUS
    <3> QED BY <2>1, <3>1, EndpointsMore
  <2> QED BY <1>1, <2>1, <2>2, Zenon DEF InterfacePieces, InterfaceAt
<1> HIDE DEF p, q, B, n
<1>4. m \in Nat /\ m <= n
  BY <1>1 DEF n
<1>5. /\ s \in Seq(B) /\ Len(s) = m /\ \A i \in 1..m : s[i] = p[i]
      /\ t \in Seq(B) /\ Len(t) = m /\ \A i \in 1..m : t[i] = q[i]
  <2>1. m <= Len(p) /\ m <= Len(q) /\ 1 <= m + 1
    BY <1>1, <1>2, <1>4
  <2> QED BY <1>2, <1>4, <2>1
<1> HIDE DEF s, t
<1>6. s = t
  BY <1>3, <1>5, SameElements
<1> QED BY <1>6 DEF JoinedTo, s, t, p, q

\* What one descriptor more makes of the interfaces, as Added has it.
LEMMA InterfacesMore ==
    ASSUME NEW y, NEW z, NEW d, AreNodes(y), AreNodes(z), IsOneMore(z, y, d),
           NEW l, l = LastInterface(y, Len(y)), NEW x, x = InterfacesOf(y)
    PROVE  /\ x # <<>> <=> l # 0
           /\ l # 0 => Last(x).class = y[l][5]
           /\ d[2] = Interface =>
                 InterfacesOf(z) = Append(x, [number |-> d[3], alternate |-> d[4], class |-> d[5],
                                              endpoints |-> <<>>])
           /\ d[2] = Endpoint /\ l # 0 =>
                 InterfacesOf(z) = [x EXCEPT ![Len(x)].endpoints = Append(@, d[3])]
           /\ d[2] # Interface /\ (d[2] = Endpoint => l = 0) => InterfacesOf(z) = x
<1> DEFINE n == Len(y)
           k == n + 1
           p == InterfacePieces(y)
           q == InterfacePieces(z)
<1>1. /\ n \in Nat /\ k \in Nat /\ Len(z) = k /\ z[k] = d /\ \A i \in 1..n : z[i] = y[i]
      /\ DOMAIN z = 1..k /\ k \in 1..k /\ k = n + 1
  BY DEF IsOneMore, AreNodes
<1>2. LastInterface(z, k) = IF d[2] = Interface THEN k ELSE l
  BY LastMore
<1>3. Endpoint # Interface
  BY DEF Endpoint, Interface
<1>4. l = 0 => x = <<>>
  BY NoInterfaces
<1>5. l # 0 => /\ l \in 1..n
               /\ JoinedTo(p, l - 1) \in Seq(AnyInterface)
               /\ IsWithOneMore(x, JoinedTo(p, l - 1), InterfaceAt(y, l))
               /\ InterfaceAt(y, l) \in AnyInterface
  BY InterfacesToLast, InterfaceAtTyped
<1>6. l # 0 => x # <<>> /\ Last(x) = InterfaceAt(y, l) /\ Len(x) \in DOMAIN x /\ x[Len(x)] = InterfaceAt(y, l)
  <2> SUFFICES ASSUME l # 0
               PROVE  /\ x # <<>> /\ Last(x) = InterfaceAt(y, l) /\ Len(x) \in DOMAIN x
                      /\ x[Len(x)] = InterfaceAt(y, l)
    OBVIOUS
  <2> DEFINE J == JoinedTo(p, l - 1)
             r == InterfaceAt(y, l)
  <2>1. J \in Seq(AnyInterface) /\ r \in AnyInterface /\ x = Append(J, r)
    BY <1>5 DEF IsWithOneMore
  <2> HIDE DEF J, r
  <2>2. x # <<>> /\ Last(x) = r /\ Len(x) \in DOMAIN x /\ x[Len(x)] = r
    <3>1. IsLastIn(x, r)
      BY <2>1, LastAppended, Zenon
    <3> QED BY <3>1 DEF IsLastIn
  <2> QED BY <2>2 DEF r
<1>7. l # 0 => Last(x).class = y[l][5]
  BY <1>6 DEF InterfaceAt
<1> HIDE DEF n, k
<1>8. ASSUME d[2] = Interface
      PROVE  InterfacesOf(z) = Append(x, [number |-> d[3], alternate |-> d[4], class |-> d[5],
                                          endpoints |-> <<>>])
  <2> DEFINE r == [number |-> d[3], alternate |-> d[4], class |-> d[5], endpoints |-> <<>>]
  <2>1. /\ p \in Seq(Seq(AnyInterface)) /\ Len(p) = n /\ x = FlattenSeq(p)
        /\ q \in Seq(Seq(AnyInterface)) /\ Len(q) = k /\ InterfacesOf(z) = FlattenSeq(q)
    BY <1>1, InterfacePiecesTyped DEF n
  <2>2. InterfaceAt(z, k) = r
    <3>1. EndpointsOf(z, k) = <<>>
      BY <1>8, EndpointsNone DEF k, n
    <3> QED BY <1>1, <3>1 DEF InterfaceAt
  <2>3. r \in AnyInterface
    BY <1>1, <1>8, <2>2, InterfaceAtTyped
  <2> HIDE DEF r
  <2>4. q[k] = <<r>>
    BY <1>1, <1>8, <2>2, Zenon DEF InterfacePieces
  <2>5. ASSUME NEW i \in 1..n PROVE q[i] = p[i]
    <3>1. EndpointsOf(z, i) = EndpointsOf(y, i)
      BY <1>3, <1>8, EndpointsMore DEF n
    <3>2. i \in 1..k /\ i \in 1..n /\ DOMAIN y = 1..n /\ z[i] = y[i]
      <4>1. DOMAIN y = 1..n
        BY DEF AreNodes, n
      <4> QED BY <1>1, <4>1
    <3> QED BY <1>1, <3>1, <3>2, Zenon DEF InterfacePieces, InterfaceAt
  <2> HIDE DEF p, q
  <2>6. Len(q) > Len(p) /\ q[Len(p) + 1] = <<r>>
    BY <1>1, <2>1, <2>4
  <2>7. \A i \in 1..Len(q) : i > Len(p) + 1 => q[i] = <<>>
    BY <1>1, <2>1
  <2>8. \A i \in 1..Len(p) : q[i] = p[i]
    BY <2>1, <2>5
  <2>9. IsWithOneMore(FlattenSeq(q), FlattenSeq(p), r)
    BY <2>1, <2>3, <2>6, <2>7, <2>8, FlattenOneMore
  <2> QED BY <2>1, <2>9 DEF IsWithOneMore, r
<1>9. ASSUME d[2] # Interface, l # 0
      PROVE  /\ InterfacesOf(z) = Append(JoinedTo(p, l - 1), InterfaceAt(z, l))
             /\ InterfaceAt(z, l) \in AnyInterface
  <2> DEFINE m == l - 1
  <2>1. l = LastInterface(z, Len(z))
    BY <1>1, <1>2, <1>9
  <2>2. /\ l \in 1..Len(z) /\ z[l][2] = Interface
        /\ IsWithOneMore(InterfacesOf(z), JoinedTo(q, l - 1), InterfaceAt(z, l))
    BY <1>9, <2>1, InterfacesToLast
  <2>3. JoinedTo(q, m) = JoinedTo(p, m)
    <3>1. m \in 0..Len(y) /\ \A j \in 1..m : j # LastInterface(y, Len(y))
      BY <1>1, <1>5, <1>9 DEF n
    <3> HIDE DEF m
    <3> QED BY <3>1, InterfacesBefore
  <2>4. InterfaceAt(z, l) \in AnyInterface
    BY <2>2, InterfaceAtTyped
  <2> QED BY <2>2, <2>3, <2>4 DEF IsWithOneMore
<1>10. l # 0 => z[l] = y[l]
  BY <1>1, <1>5
<1>11. ASSUME d[2] = Endpoint, l # 0
       PROVE  InterfacesOf(z) = [x EXCEPT ![Len(x)].endpoints = Append(@, d[3])]
  <2> DEFINE J == JoinedTo(p, l - 1)
             r == InterfaceAt(y, l)
             s == InterfaceAt(z, l)
  <2>1. EndpointsOf(z, l) = Append(EndpointsOf(y, l), d[3])
    BY <1>5, <1>11, EndpointsMore DEF n
  <2>2. s = [r EXCEPT !.endpoints = Append(r.endpoints, d[3])]
    <3> DEFINE e == EndpointsOf(y, l)
               a == Append(e, d[3])
    <3>1. /\ r = [number |-> y[l][3], alternate |-> y[l][4], class |-> y[l][5], endpoints |-> e]
          /\ s = [number |-> y[l][3], alternate |-> y[l][4], class |-> y[l][5], endpoints |-> a]
      BY <1>10, <1>11, <2>1, Zenon DEF InterfaceAt
    <3> HIDE DEF r, s, e, a
    <3>2. r.endpoints = e
      BY <3>1
    <3>3. s = [r EXCEPT !.endpoints = a]
      BY <3>1
    <3> QED BY <3>2, <3>3 DEF a
  <2>3. /\ J \in Seq(AnyInterface) /\ r \in AnyInterface /\ x = Append(J, r)
        /\ s \in AnyInterface /\ InterfacesOf(z) = Append(J, s)
    BY <1>3, <1>5, <1>9, <1>11 DEF IsWithOneMore
  <2> HIDE DEF J, r, s
  <2>4. [x EXCEPT ![Len(x)] = s] = Append(J, s) /\ x[Len(x)] = r
    <3> DEFINE w == Append(J, s)
    <3>1. w = Append(J, s)
      OBVIOUS
    <3> HIDE DEF w
    <3>2. IsChanged(x, w, s)
      BY <2>3, <3>1, LastChanged, Zenon
    <3>3. IsLastIn(x, r)
      BY <2>3, LastAppended, Zenon
    <3> QED BY <3>1, <3>2, <3>3 DEF IsChanged, IsLastIn
  <2>5. [x EXCEPT ![Len(x)].endpoints = Append(@, d[3])] = [x EXCEPT ![Len(x)] = s]
    BY <2>2, <2>4
  <2> QED BY <2>3, <2>4, <2>5
<1>12. ASSUME d[2] # Interface, d[2] = Endpoint => l = 0
       PROVE  InterfacesOf(z) = x
  <2>1. CASE l = 0
    <3>1. LastInterface(z, Len(z)) = 0
      BY <1>1, <1>2, <1>12, <2>1
    <3> QED BY <1>4, <2>1, <3>1, NoInterfaces
  <2>2. CASE l # 0
    <3>1. EndpointsOf(z, l) = EndpointsOf(y, l)
      BY <1>5, <1>12, <2>2, EndpointsMore DEF n
    <3>2. InterfaceAt(z, l) = InterfaceAt(y, l)
      BY <1>10, <2>2, <3>1 DEF InterfaceAt
    <3> QED BY <1>5, <1>9, <1>12, <2>2, <3>2 DEF IsWithOneMore
  <2> QED BY <2>1, <2>2
<1> QED BY <1>4, <1>6, <1>7, <1>8, <1>11, <1>12

\* The functional descriptor.
FunctionalOf(nodes) ==
    IF Functionals(nodes) = {} THEN <<>> ELSE nodes[Max(Functionals(nodes))]

\* What one descriptor more makes of the functional descriptor, as IsDFU has it.
LEMMA FunctionalMore ==
    ASSUME NEW y, NEW z, NEW d, AreNodes(y), AreNodes(z), IsOneMore(z, y, d),
           NEW l, l = LastInterface(y, Len(y))
    PROVE  FunctionalOf(z) = IF d[2] = Functional /\ l # 0 /\ y[l][5] = DfuClass
                             THEN d ELSE FunctionalOf(y)
<1> DEFINE n == Len(y)
           k == n + 1
           S == Functionals(y)
           T == Functionals(z)
           dfu == d[2] = Functional /\ l # 0 /\ y[l][5] = DfuClass
<1>1. /\ n \in Nat /\ k \in Nat /\ z[k] = d /\ \A i \in 1..n : z[i] = y[i]
      /\ DOMAIN y = 1..n /\ DOMAIN z = 1..k /\ k = n + 1
  BY DEF IsOneMore, AreNodes
<1>2. LastInterface(z, k) = IF d[2] = Interface THEN k ELSE l
  BY LastMore
<1>3. ASSUME NEW i \in 1..n PROVE i \in T <=> i \in S
  <2> DEFINE m == LastInterface(y, i)
  <2>1. i \in 0..n /\ i \in Nat /\ i \in 1..k /\ z[i] = y[i]
    BY <1>1
  <2>2. LastInterface(z, i) = m
    BY <2>1, LastMore
  <2>3. m \in 0..i
    BY <2>1, LastIs DEF IsLastOf
  <2>4. m # 0 => z[m] = y[m]
    <3> HIDE DEF m, n, k
    <3>1. m # 0 => m \in 1..n
      BY <1>1, <2>1, <2>3
    <3> QED BY <1>1, <3>1
  <2> QED BY <1>1, <2>1, <2>2, <2>4, Zenon DEF Functionals
<1>4. k \in T <=> dfu
  <2>1. Functional # Interface
    BY DEF Functional, Interface
  <2>2. l # 0 => z[l] = y[l]
    <3>1. l \in 0..n
      BY <1>1, LastIs DEF IsLastOf
    <3> HIDE DEF n
    <3>2. l # 0 => l \in 1..n
      BY <1>1, <3>1
    <3> QED BY <1>1, <3>2
  <2>3. k \in 1..k
    BY <1>1
  <2>4. k \in T <=> /\ d[2] = Functional /\ LastInterface(z, k) # 0
                    /\ z[LastInterface(z, k)][5] = DfuClass
    BY <1>1, <2>3, Zenon DEF Functionals
  <2> QED BY <1>2, <2>1, <2>2, <2>4, Zenon
<1>5. S \subseteq 1..n /\ T \subseteq 1..k
  BY <1>1 DEF Functionals
<1> HIDE DEF S, T, n, k
<1>6. S \in SUBSET (0..n) /\ T \in SUBSET (0..k)
  BY <1>1, <1>5
<1>7. CASE dfu
  <2>1. k \in T /\ T # {}
    BY <1>4, <1>7
  <2>2. Max(T) \in T /\ Max(T) >= k
    BY <1>1, <1>6, <2>1, LargestOf
  <2>3. Max(T) = k
    <3> DEFINE m == Max(T)
    <3>1. m \in 1..k /\ m >= k
      BY <1>5, <2>2
    <3> HIDE DEF m
    <3>2. m = k
      BY <1>1, <3>1
    <3> QED BY <3>2 DEF m
  <2> QED BY <1>1, <1>7, <2>1, <2>3 DEF FunctionalOf, T
<1>8. CASE ~dfu
  <2>1. T = S
    <3>1. \A i \in T : i \in 1..n
      BY <1>1, <1>4, <1>5, <1>8
    <3> HIDE DEF dfu
    <3> QED BY <1>3, <1>5, <3>1
  <2>2. CASE S = {}
    BY <1>8, <2>1, <2>2 DEF FunctionalOf, S, T
  <2>3. CASE S # {}
    <3>1. Max(S) \in S
      BY <1>1, <1>6, <2>3, LargestOf
    <3>2. z[Max(S)] = y[Max(S)]
      BY <1>1, <1>5, <3>1
    <3> QED BY <1>8, <2>1, <2>3, <3>2 DEF FunctionalOf, S, T
  <2> QED BY <2>2, <2>3
<1> QED BY <1>7, <1>8

-----------------------------------------------------------------------------
\* One field of what is announced.
IsAs(c, v, x, f, t) == c = [value |-> v, interfaces |-> x, functional |-> f, complete |-> t]

LEMMA OtherFields ==
    ASSUME NEW v, NEW x, NEW f, NEW t, NEW c, IsAs(c, v, x, f, t), NEW w
    PROVE  /\ c.value = v /\ c.interfaces = x /\ c.functional = f /\ c.complete = t
           /\ IsAs([c EXCEPT !.functional = w], v, x, w, t)
           /\ IsAs([c EXCEPT !.interfaces = w], v, w, f, t)
<1>1. c = [value |-> v, interfaces |-> x, functional |-> f, complete |-> t]
  BY DEF IsAs
<1>2. c.value = v /\ c.interfaces = x /\ c.functional = f /\ c.complete = t
  BY <1>1
<1>3. IsAs([c EXCEPT !.functional = w], v, x, w, t)
  BY <1>1 DEF IsAs
<1>4. IsAs([c EXCEPT !.interfaces = w], v, w, f, t)
  BY <1>1 DEF IsAs
<1> QED BY <1>2, <1>3, <1>4

\* A record that the endpoints of its last interface change in.
LEMMA OtherEndpoints ==
    ASSUME NEW v, NEW x, NEW f, NEW t, NEW c, IsAs(c, v, x, f, t), NEW e,
           NEW a, a = [c EXCEPT !.interfaces[Len(c.interfaces)].endpoints = Append(@, e)],
           NEW w, w = [x EXCEPT ![Len(x)].endpoints = Append(@, e)]
    PROVE  IsAs(a, v, w, f, t)
<1>1. c.interfaces = x
  BY DEF IsAs
<1>2. a = [c EXCEPT !.interfaces = w]
  BY <1>1
<1>3. IsAs([c EXCEPT !.interfaces = w], v, w, f, t)
  <2>1. \A u : IsAs([c EXCEPT !.interfaces = u], v, u, f, t)
    BY OtherFields
  <2> QED BY <2>1, Zenon
<1> QED BY <1>2, <1>3, Zenon

\* One turn of the loop: what is announced with one descriptor more is what
\* Added makes of what was announced before.
LEMMA AnnouncedMore ==
    ASSUME NEW y, NEW z, NEW d, AreNodes(y), AreNodes(z), IsOneMore(z, y, d)
    PROVE  Announced(z, TRUE) = Added(Announced(y, TRUE), d)
<1> DEFINE n == Len(y)
           l == LastInterface(y, n)
           x == InterfacesOf(y)
           c == Announced(y, TRUE)
           v == IF y = <<>> THEN 0 ELSE y[1][4]
           f == FunctionalOf(y)
           t == TRUE
<1>1. /\ n \in Nat /\ Len(z) = n + 1 /\ n + 1 \in 1..(n + 1) /\ z[n + 1] = d
      /\ \A i \in 1..n : z[i] = y[i]
  BY DEF IsOneMore, AreNodes
<1>2. IsNode(d) /\ (d[2] = Config <=> n = 0)
  <2>1. n + 1 \in 1..Len(z)
    BY <1>1
  <2>2. IsNode(z[n + 1]) /\ (z[n + 1][2] = Config <=> n + 1 = 1)
    BY <2>1 DEF AreNodes
  <2> QED BY <1>1, <2>2
<1>3. y = <<>> <=> n = 0
  BY DEF AreNodes
<1>4. z # <<>> /\ (n = 0 => z[1] = d) /\ (n # 0 => z[1] = y[1])
  <2>1. Len(z) # 0
    BY <1>1
  <2>2. z # <<>>
    BY <2>1
  <2>3. n # 0 => 1 \in 1..n
    BY <1>1
  <2> QED BY <1>1, <2>2, <2>3
<1>5. c = [value |-> v, interfaces |-> x, functional |-> f, complete |-> t]
  BY DEF Announced, FunctionalOf
<1>6. Announced(z, TRUE) = [value |-> z[1][4], interfaces |-> InterfacesOf(z),
                            functional |-> FunctionalOf(z), complete |-> t]
  BY <1>4 DEF Announced, FunctionalOf
<1>7. ~(d = <<>>) /\ ~TooShort(d)
  BY <1>2, NodeCells
<1>8. /\ x # <<>> <=> l # 0
      /\ l # 0 => Last(x).class = y[l][5]
      /\ d[2] = Interface =>
            InterfacesOf(z) = Append(x, [number |-> d[3], alternate |-> d[4], class |-> d[5],
                                         endpoints |-> <<>>])
      /\ d[2] = Endpoint /\ l # 0 =>
            InterfacesOf(z) = [x EXCEPT ![Len(x)].endpoints = Append(@, d[3])]
      /\ d[2] # Interface /\ (d[2] = Endpoint => l = 0) => InterfacesOf(z) = x
  BY InterfacesMore
<1>9. FunctionalOf(z) = IF d[2] = Functional /\ l # 0 /\ y[l][5] = DfuClass THEN d ELSE f
  BY FunctionalMore
<1> HIDE DEF n, l, x, c, f, v, t
<1>10. c.complete /\ c.interfaces = x
  <2>1. c.complete = t /\ c.interfaces = x
    BY <1>5
  <2> QED BY <2>1 DEF t
<1>11. IsDFU(c) <=> l # 0 /\ y[l][5] = DfuClass
  BY <1>8, <1>10, Zenon DEF IsDFU
<1>12. /\ Config # Interface /\ Config # Endpoint /\ Config # Functional /\ Config # Other
       /\ Interface # Endpoint /\ Interface # Functional /\ Interface # Other
       /\ Endpoint # Functional /\ Endpoint # Other /\ Functional # Other
  BY DEF Config, Interface, Endpoint, Functional, Other
<1>13. d[2] \in {Config, Interface, Endpoint, Functional, Other}
  BY <1>2 DEF IsNode
<1> DEFINE added == Added(c, d)
<1>14. added = CASE d[2] = Config -> [c EXCEPT !.value = d[4]]
                 [] d[2] = Interface ->
                      [c EXCEPT !.interfaces = Append(@,
                          [number |-> d[3], alternate |-> d[4], class |-> d[5], endpoints |-> <<>>])]
                 [] d[2] = Endpoint /\ c.interfaces # <<>> ->
                      [c EXCEPT !.interfaces[Len(c.interfaces)].endpoints = Append(@, d[3])]
                 [] d[2] = Functional /\ IsDFU(c) -> [c EXCEPT !.functional = d]
                 [] OTHER -> c
  BY <1>7, <1>10, Zenon DEF Added
<1> DEFINE whole == Announced(z, TRUE)
           w == InterfacesOf(z)
           g == FunctionalOf(z)
<1> HIDE DEF added, whole, w, g
<1>a. whole = [value |-> z[1][4], interfaces |-> w, functional |-> g, complete |-> t]
  BY <1>6 DEF whole, w, g
<1>b. SUFFICES added = whole
  BY DEF added, whole, c
<1>15. CASE d[2] = Config
  <2>1. added = [c EXCEPT !.value = d[4]]
    BY <1>12, <1>14, <1>15
  <2>2. z[1][4] = d[4] /\ w = x /\ g = f
    BY <1>2, <1>4, <1>8, <1>9, <1>12, <1>15 DEF w, g
  <2> QED BY <1>5, <1>a, <2>1, <2>2
<1>16. d[2] # Config => z[1][4] = v
  BY <1>2, <1>3, <1>4 DEF v
<1>17. CASE d[2] = Interface
  <2>1. added = [c EXCEPT !.interfaces = Append(x,
                     [number |-> d[3], alternate |-> d[4], class |-> d[5], endpoints |-> <<>>])]
    BY <1>10, <1>12, <1>14, <1>17
  <2>2. z[1][4] = v /\ g = f
    BY <1>9, <1>12, <1>16, <1>17 DEF g
  <2>3. w = Append(x, [number |-> d[3], alternate |-> d[4], class |-> d[5], endpoints |-> <<>>])
    BY <1>8, <1>17 DEF w
  <2>4. IsAs(c, v, x, f, t) /\ added = [c EXCEPT !.interfaces = w]
    BY <1>5, <2>1, <2>3 DEF IsAs
  <2>5. IsAs(added, v, w, f, t)
    BY <2>4, OtherFields
  <2> QED BY <1>a, <2>2, <2>5 DEF IsAs
<1>18. CASE d[2] = Endpoint /\ l # 0
  <2>1. added = [c EXCEPT !.interfaces[Len(c.interfaces)].endpoints = Append(@, d[3])]
    BY <1>8, <1>10, <1>12, <1>14, <1>18
  <2>2. z[1][4] = v /\ g = f
    BY <1>9, <1>12, <1>16, <1>18 DEF g
  <2>3. w = [x EXCEPT ![Len(x)].endpoints = Append(@, d[3])]
    BY <1>8, <1>18 DEF w
  <2>4. IsAs(c, v, x, f, t)
    BY <1>5 DEF IsAs
  <2>5. IsAs(added, v, w, f, t)
    <3> DEFINE e == d[3]
    <3>1. added = [c EXCEPT !.interfaces[Len(c.interfaces)].endpoints = Append(@, e)]
      BY <2>1
    <3>2. w = [x EXCEPT ![Len(x)].endpoints = Append(@, e)]
      BY <2>3
    <3> HIDE DEF e
    <3> QED BY <2>4, <3>1, <3>2, OtherEndpoints, Zenon
  <2> QED BY <1>a, <2>2, <2>5 DEF IsAs
<1>19. CASE d[2] = Functional /\ IsDFU(c)
  <2>1. added = [c EXCEPT !.functional = d]
    BY <1>12, <1>14, <1>19
  <2>2. z[1][4] = v /\ g = d /\ w = x
    BY <1>8, <1>9, <1>11, <1>12, <1>16, <1>19 DEF w, g
  <2>3. IsAs(c, v, x, f, t)
    BY <1>5 DEF IsAs
  <2>4. IsAs(added, v, x, d, t)
    BY <2>1, <2>3, OtherFields
  <2> QED BY <1>a, <2>2, <2>4 DEF IsAs
<1>20. CASE ~(d[2] = Config) /\ ~(d[2] = Interface) /\ ~(d[2] = Endpoint /\ l # 0)
            /\ ~(d[2] = Functional /\ IsDFU(c))
  <2>1. added = c
    BY <1>8, <1>10, <1>14, <1>20
  <2>2. z[1][4] = v /\ g = f /\ w = x
    BY <1>8, <1>9, <1>11, <1>16, <1>20 DEF w, g
  <2> QED BY <1>5, <1>a, <2>1, <2>2
<1> QED BY <1>15, <1>17, <1>18, <1>19, <1>20

-----------------------------------------------------------------------------
(* Configurations: the descriptors a set is split into.                     *)

\* A set of cells ends, or has no descriptor, at a position.
NoPart(data, at) == at = Len(data) \/ data[at] < 2 \/ at + data[at] - 1 > Len(data)
PartAt(data, at) == SubSeq(data, at, at + data[at] - 1)
IsSplitting(f, data, at) ==
    f[at] = IF at > Len(data) THEN <<>>
            ELSE IF NoPart(data, at) THEN << <<>> >>
            ELSE <<PartAt(data, at)>> \o f[at + data[at] - 1 + 1]

\* The recursive function that Split is defined by, from its end.
LEMMA SplitFrom ==
    ASSUME NEW data \in Seq(Nat)
    PROVE  \E f : /\ Split(data) = f[1]
                  /\ \A i \in 1..(Len(data) + 1) : f[i] \in Seq(Seq(Nat)) /\ IsSplitting(f, data, i)
<1> DEFINE n == Len(data) + 1
           P(f) == f = [at \in 1..n |->
                          LET end == at + data[at] - 1 IN
                          IF at > Len(data) THEN <<>>
                          ELSE IF at = Len(data) \/ data[at] < 2 \/ end > Len(data) THEN <<<<>>>>
                          ELSE <<SubSeq(data, at, end)>> \o f[end + 1]]
           c == CHOOSE f : P(f)
           stops == {i \in 1..n : i > Len(data) \/ NoPart(data, i)}
           piece == [i \in 1..n |-> IF i > Len(data) THEN <<>>
                                    ELSE IF NoPart(data, i) THEN << <<>> >> ELSE <<PartAt(data, i)>>]
           next == [i \in 1..n |-> i + data[i] - 1 + 1]
<1>1. Len(data) \in Nat /\ n \in Nat /\ n = Len(data) + 1
  OBVIOUS
<1>2. Split(data) = c[1]
  BY DEF Split
<1> HIDE DEF n
<1>3. ASSUME NEW i \in 1..n, ~(i > Len(data))
      PROVE  i \in 1..Len(data) /\ data[i] \in Nat
  BY <1>1, <1>3
<1>4. GoesAhead(n, stops, next)
  <2> SUFFICES ASSUME NEW i \in 1..n, i \notin stops PROVE next[i] \in (i + 1)..n
    BY DEF GoesAhead
  <2>1. ~(i > Len(data)) /\ ~(data[i] < 2) /\ ~(i + data[i] - 1 > Len(data))
    BY DEF NoPart
  <2>2. data[i] \in Nat
    BY <1>3, <2>1
  <2>3. next[i] = i + data[i] - 1 + 1
    OBVIOUS
  <2> DEFINE k == data[i]
             l == Len(data)
  <2> HIDE DEF k, l
  <2>4. k \in Nat /\ l \in Nat /\ n = l + 1 /\ ~(k < 2) /\ ~(i + k - 1 > l) /\ next[i] = i + k - 1 + 1
    BY <1>1, <2>1, <2>2, <2>3 DEF k, l
  <2> HIDE DEF next
  <2> QED BY <2>4
<1>5. ArePieces(piece, n, Seq(Nat))
  <2> DEFINE B == Seq(Nat)
  <2>1. ASSUME NEW i \in 1..n, ~(i > Len(data)), ~NoPart(data, i) PROVE PartAt(data, i) \in B
    <3> DEFINE e == i + data[i] - 1
    <3>1. data[i] \in Nat /\ ~(data[i] < 2) /\ ~(e > Len(data))
      BY <1>3, <2>1 DEF NoPart
    <3>2. e \in Nat /\ e <= Len(data) /\ i \in Nat \ {0} /\ i <= e + 1
      <4> DEFINE k == data[i]
                 l == Len(data)
      <4> HIDE DEF k, l
      <4>1. k \in Nat /\ l \in Nat /\ ~(k < 2) /\ ~(i + k - 1 > l)
        BY <1>1, <3>1 DEF k, l
      <4>2. i + k - 1 \in Nat /\ i + k - 1 <= l /\ i \in Nat \ {0} /\ i <= i + k - 1 + 1
        BY <1>1, <4>1
      <4> QED BY <4>2 DEF k, l
    <3> HIDE DEF e
    <3>3. SubSeq(data, i, e) \in Seq(Nat)
      BY <3>2, PartTyped
    <3> QED BY <3>3 DEF PartAt, e
  <2>2. <<>> \in B
    OBVIOUS
  <2> HIDE DEF B
  <2>3. <<>> \in Seq(B) /\ << <<>> >> \in Seq(B) /\ \A x \in B : <<x>> \in Seq(B)
    BY <2>2
  <2>4. ASSUME NEW i \in 1..n PROVE piece[i] \in Seq(B)
    BY <2>1, <2>3
  <2>5. piece \in [1..n -> Seq(B)]
    <3>1. piece = [i \in 1..n |-> piece[i]]
      OBVIOUS
    <3> HIDE DEF piece
    <3> QED BY <2>4, <3>1
  <2> HIDE DEF piece
  <2> QED BY <2>5 DEF ArePieces, B
<1>6. ASSUME NEW f PROVE P(f) <=> IsFromEnd(f, n, stops, piece, next)
  <2>1. ASSUME NEW i \in 1..n
        PROVE  EndStep(f, i, stops, piece, next) =
                  (LET end == i + data[i] - 1 IN
                   IF i > Len(data) THEN <<>>
                   ELSE IF i = Len(data) \/ data[i] < 2 \/ end > Len(data) THEN <<<<>>>>
                   ELSE <<SubSeq(data, i, end)>> \o f[end + 1])
    BY Zenon DEF EndStep, NoPart, PartAt
  <2> HIDE DEF stops, piece, next
  <2> QED BY <2>1, Zenon DEF IsFromEnd
<1>7. ASSUME NEW f, NEW i \in 1..n
      PROVE  EndStep(f, i, stops, piece, next) =
                (IF i > Len(data) THEN <<>>
                 ELSE IF NoPart(data, i) THEN << <<>> >>
                 ELSE <<PartAt(data, i)>> \o f[i + data[i] - 1 + 1])
  BY Zenon DEF EndStep
<1> HIDE DEF P, stops, piece, next
<1>8. \E f : P(f)
  BY <1>1, <1>4, <1>5, <1>6, FromEndExists
<1>9. P(c)
  BY <1>8
<1> HIDE DEF c
<1>10. \A i \in 1..n : c[i] \in Seq(Seq(Nat)) /\ c[i] = EndStep(c, i, stops, piece, next)
  <2> DEFINE B == Seq(Nat)
  <2>1. IsFromEnd(c, n, stops, piece, next)
    BY <1>6, <1>9
  <2>2. ArePieces(piece, n, B)
    BY <1>5
  <2> HIDE DEF B
  <2>3. \A i \in 1..n : c[i] \in Seq(B) /\ c[i] = EndStep(c, i, stops, piece, next)
    BY <1>1, <1>4, <2>1, <2>2, FromEndTyped
  <2> QED BY <2>3 DEF B
<1>11. \A i \in 1..n : c[i] \in Seq(Seq(Nat)) /\ IsSplitting(c, data, i)
  BY <1>7, <1>10, Zenon DEF IsSplitting
<1> QED BY <1>2, <1>11 DEF n

-----------------------------------------------------------------------------
\* What a device answers, descriptor by descriptor, and the ones that are right.
Encodings(c) == [i \in DOMAIN c.nodes |-> Encoded(c, i)]
Good(c) == IF c.bad = 0 THEN c.nodes ELSE SubSeq(c.nodes, 1, c.bad - 1)
IsWrong(d) == d = <<>> \/ TooShort(d)

IsEncodingOf(e, c, i) ==
    /\ e \in Seq(Nat) /\ Len(e) = Len(c.nodes[i])
    /\ e[1] = IF i = c.bad THEN c.length ELSE Len(e)
    /\ \A k \in 2..Len(e) : e[k] = c.nodes[i][k]
    /\ i # c.bad => e = c.nodes[i]

\* The descriptors of a configuration.
LEMMA ConfigurationNodes ==
    ASSUME NEW c, IsConfiguration(c)
    PROVE  /\ AreNodes(c.nodes) /\ Len(c.nodes) \in Nat /\ Len(c.nodes) > 0
           /\ DOMAIN c.nodes = 1..Len(c.nodes) /\ c.bad \in 0..Len(c.nodes) /\ c.length \in Nat
<1> DEFINE n == c.nodes
           N == Len(n)
           B == Seq(Nat)
<1>1. /\ n \in Seq(B) /\ n # <<>> /\ n[1][2] = Config
      /\ \A i \in DOMAIN n :
            /\ i > 1 => n[i][2] \in {Interface, Endpoint, Functional, Other}
            /\ n[i][1] = Len(n[i]) /\ Len(n[i]) >= SizeOf[n[i][2]]
      /\ c.bad \in 0..N /\ c.length \in Nat
  BY DEF IsConfiguration
<1> HIDE DEF n, B
<1>2. N \in Nat /\ N > 0 /\ DOMAIN n = 1..N
  BY <1>1
<1>3. ASSUME NEW i \in 1..N PROVE IsNode(n[i]) /\ (n[i][2] = Config <=> i = 1)
  <2>1. n[i] \in B /\ n[i][1] = Len(n[i]) /\ Len(n[i]) >= SizeOf[n[i][2]]
    BY <1>1, <1>2
  <2>2. i = 1 \/ n[i][2] \in {Interface, Endpoint, Functional, Other}
    BY <1>1, <1>2
  <2>3. Config \notin {Interface, Endpoint, Functional, Other}
    BY DEF Config, Interface, Endpoint, Functional, Other
  <2>4. n[i][2] \in {Config, Interface, Endpoint, Functional, Other} /\ (n[i][2] = Config <=> i = 1)
    BY <1>1, <2>2, <2>3
  <2> QED BY <2>1, <2>4 DEF IsNode, B
<1>4. AreNodes(n)
  BY <1>1, <1>3 DEF AreNodes, B
<1> QED BY <1>1, <1>2, <1>4 DEF n

\* Only the length of the wrong one differs in what the device answers.
LEMMA EncodingsTyped ==
    ASSUME NEW c, IsConfiguration(c)
    PROVE  /\ Encodings(c) \in Seq(Seq(Nat)) /\ Len(Encodings(c)) = Len(c.nodes)
           /\ \A i \in 1..Len(c.nodes) : IsEncodingOf(Encodings(c)[i], c, i)
<1> DEFINE n == c.nodes
           N == Len(n)
           E == Encodings(c)
           B == Seq(Nat)
<1>1. N \in Nat /\ DOMAIN n = 1..N /\ c.length \in Nat /\ \A i \in 1..N : IsNode(n[i])
  BY ConfigurationNodes DEF AreNodes
<1>2. E = [i \in 1..N |-> Encoded(c, i)]
  BY <1>1 DEF Encodings
<1> HIDE DEF E
<1>3. ASSUME NEW i \in 1..N PROVE IsEncodingOf(E[i], c, i)
  <2> DEFINE d == n[i]
             e == E[i]
             l == c.length
  <2>1. d \in Seq(Nat) /\ d[1] = Len(d) /\ Len(d) >= 2
    <3>1. IsNode(d)
      BY <1>1
    <3> HIDE DEF d
    <3> QED BY <3>1, NodeCells DEF IsNode
  <2>2. e = IF i = c.bad THEN [d EXCEPT ![1] = l] ELSE d
    BY <1>2 DEF Encoded
  <2>3. l \in Nat
    BY <1>1
  <2> HIDE DEF e, d, l
  <2>4. CASE i = c.bad
    <3>1. e = [d EXCEPT ![1] = l]
      BY <2>2, <2>4
    <3>2. e \in Seq(Nat) /\ Len(e) = Len(d) /\ e[1] = l /\ \A k \in 2..Len(e) : e[k] = d[k]
      BY <2>1, <2>3, <3>1
    <3> QED BY <2>4, <3>2 DEF IsEncodingOf, d, e, l
  <2>5. CASE i # c.bad
    <3>1. e = d
      BY <2>2, <2>5
    <3> QED BY <2>1, <2>5, <3>1 DEF IsEncodingOf, d, e
  <2> QED BY <2>4, <2>5
<1>4. \A i \in 1..N : E[i] \in B
  BY <1>3 DEF IsEncodingOf
<1> HIDE DEF N, B
<1>5. E \in Seq(B) /\ Len(E) = N
  BY <1>1, <1>2, <1>4
<1> QED BY <1>3, <1>5 DEF E, N, B

\* The ones that are right are the first ones.
LEMMA GoodNodes ==
    ASSUME NEW c, IsConfiguration(c)
    PROVE  /\ Good(c) \in Seq(Seq(Nat)) /\ Len(Good(c)) <= Len(c.nodes) /\ AreNodes(Good(c))
           /\ Len(Good(c)) = IF c.bad = 0 THEN Len(c.nodes) ELSE c.bad - 1
           /\ \A i \in 1..Len(Good(c)) : Good(c)[i] = c.nodes[i] /\ i # c.bad
<1> DEFINE n == c.nodes
           N == Len(n)
           B == Seq(Nat)
           G == Good(c)
           bad == c.bad
<1>1. N \in Nat /\ n \in Seq(B) /\ bad \in 0..N /\ AreNodes(n)
  BY ConfigurationNodes DEF AreNodes
<1>2. G = IF bad = 0 THEN n ELSE SubSeq(n, 1, bad - 1)
  BY DEF Good
<1> HIDE DEF n, B, G, bad
<1>3. /\ G \in Seq(B) /\ Len(G) <= N /\ Len(G) = IF bad = 0 THEN N ELSE bad - 1
      /\ \A i \in 1..Len(G) : G[i] = n[i]
  <2>1. CASE bad = 0
    BY <1>1, <1>2, <2>1
  <2>2. CASE bad # 0
    <3> DEFINE m == bad - 1
    <3>1. m \in Nat /\ m <= Len(n) /\ 1 <= m + 1 /\ m - 1 + 1 = m /\ m <= N
      BY <1>1, <2>2
    <3> HIDE DEF m
    <3>2. /\ SubSeq(n, 1, m) \in Seq(B) /\ Len(SubSeq(n, 1, m)) = m - 1 + 1
          /\ \A i \in 1..(m - 1 + 1) : SubSeq(n, 1, m)[i] = n[1 + i - 1]
      BY <1>1, <3>1, PartTyped
    <3>3. G = SubSeq(n, 1, m) /\ bad # 0
      BY <1>2, <2>2 DEF m
    <3>4. \A i \in 1..m : n[1 + i - 1] = n[i]
      BY <3>1
    <3> QED BY <3>1, <3>2, <3>3, <3>4 DEF m
  <2> QED BY <2>1, <2>2
<1>4. \A i \in 1..Len(G) : i # bad
  BY <1>1, <1>3
<1>5. AreNodes(G)
  <2>1. \A i \in 1..Len(G) : i \in 1..Len(n)
    BY <1>1, <1>3 DEF N
  <2>2. \A i \in 1..Len(n) : IsNode(n[i]) /\ (n[i][2] = Config <=> i = 1)
    BY <1>1 DEF AreNodes
  <2>3. \A i \in 1..Len(G) : IsNode(G[i]) /\ (G[i][2] = Config <=> i = 1)
    BY <1>3, <2>1, <2>2
  <2> QED BY <1>3, <2>3 DEF AreNodes, B
<1> QED BY <1>3, <1>4, <1>5 DEF n, B, G, bad, N

-----------------------------------------------------------------------------
\* A descriptor that has the length it says is a part of its own.
IsPart(f, s, k) ==
    f[Len(JoinedTo(s, k - 1)) + 1] = <<s[k]>> \o f[Len(JoinedTo(s, k)) + 1]

LEMMA OnePart ==
    ASSUME NEW s \in Seq(Seq(Nat)), NEW k \in 1..Len(s), s[k][1] = Len(s[k]), Len(s[k]) >= 2,
           NEW data, data = FlattenSeq(s), data \in Seq(Nat), NEW f,
           IsSplitting(f, data, Len(JoinedTo(s, k - 1)) + 1)
    PROVE  IsPart(f, s, k)
<1> DEFINE x == s[k]
           l == Len(x)
           a == Len(JoinedTo(s, k - 1))
           L == Len(data)
           at == a + 1
<1>1. l \in Nat /\ l >= 2 /\ L \in Nat /\ x \in Seq(Nat)
  <2>1. x \in Seq(Nat)
    OBVIOUS
  <2> HIDE DEF x
  <2> QED BY <2>1 DEF x
<1>2. a \in Nat
  <2> DEFINE B == Seq(Nat)
             N == Len(s)
  <2>1. s \in Seq(B) /\ k \in 1..N
    OBVIOUS
  <2> HIDE DEF B
  <2>2. N \in Nat
    BY <2>1
  <2> HIDE DEF N
  <2>3. k - 1 \in 0..N
    BY <2>1, <2>2
  <2>4. k - 1 \in 0..Len(s)
    BY <2>3 DEF N
  <2> QED BY <2>4, JoinedTyped
<1>3. Len(JoinedTo(s, k)) = a + l /\ a + l <= L /\ \A m \in 1..l : data[a + m] = x[m]
  BY WhereIs DEF IsWithin
<1> HIDE DEF x, l, a, L
<1>4. data[at] = l
  <2>1. 1 \in 1..l /\ x[1] = l
    BY <1>1 DEF x, l
  <2> QED BY <1>3, <2>1
<1>5. ~(at > L) /\ ~(at = L) /\ ~(l < 2) /\ ~(at + l - 1 > L) /\ at + l - 1 = a + l
      /\ at + l - 1 + 1 = a + l + 1
  BY <1>1, <1>2, <1>3
<1>6. ~(at > Len(data)) /\ ~NoPart(data, at)
  BY <1>4, <1>5 DEF NoPart, L
<1>7. PartAt(data, at) = x
  <2> DEFINE e == a + l
             y == SubSeq(data, at, e)
  <2>1. PartAt(data, at) = y
    BY <1>4, <1>5 DEF PartAt
  <2>2. at \in Nat \ {0} /\ e \in Nat /\ e <= Len(data) /\ at <= e + 1 /\ e - at + 1 = l
    BY <1>1, <1>2, <1>3 DEF L
  <2>3. \A i \in 1..l : at + i - 1 = a + i
    BY <1>1, <1>2
  <2> HIDE DEF at, e
  <2>4. y \in Seq(Nat) /\ Len(y) = e - at + 1 /\ \A i \in 1..(e - at + 1) : y[i] = data[at + i - 1]
    <3> DEFINE B == Nat
    <3>1. data \in Seq(B) /\ e <= Len(data) /\ at <= e + 1
      BY <2>2
    <3> HIDE DEF B
    <3>2. /\ SubSeq(data, at, e) \in Seq(B) /\ Len(SubSeq(data, at, e)) = e - at + 1
          /\ \A i \in 1..(e - at + 1) : SubSeq(data, at, e)[i] = data[at + i - 1]
      BY <2>2, <3>1, PartTyped
    <3> QED BY <3>2 DEF B
  <2> HIDE DEF y
  <2>5. \A i \in 1..l : y[i] = x[i]
    BY <1>3, <2>2, <2>3, <2>4
  <2>6. y = x
    BY <1>1, <2>2, <2>4, <2>5, SameElements DEF l
  <2> QED BY <2>1, <2>6
<1>8. f[at] = <<PartAt(data, at)>> \o f[at + data[at] - 1 + 1]
  <2>1. IsSplitting(f, data, at)
    BY DEF a
  <2> HIDE DEF at
  <2> QED BY <1>6, <2>1, Zenon DEF IsSplitting
<1>9. f[at] = <<x>> \o f[a + l + 1]
  <2> HIDE DEF at
  <2> QED BY <1>4, <1>5, <1>7, <1>8
<1> QED BY <1>3, <1>9 DEF IsPart, x, a, l

\* Everything is split.
IsSplitBy(f, data) ==
    \A i \in 1..(Len(data) + 1) : f[i] \in Seq(Seq(Nat)) /\ IsSplitting(f, data, i)

\* A descriptor that has an impossible length is no part, or one that is too short.
IsWrongFirst(parts) == parts # <<>> /\ IsWrong(parts[1])

\* Where the wrong one is, the set is not split any further, or the part is wrong.
LEMMA WrongPart ==
    ASSUME NEW c, IsConfiguration(c), c.bad # 0, NEW s, s = Encodings(c),
           NEW data, data = FlattenSeq(s), data \in Seq(Nat), NEW f, IsSplitBy(f, data)
    PROVE  IsWrongFirst(f[Len(JoinedTo(s, c.bad - 1)) + 1])
<1> DEFINE n == c.nodes
           N == Len(n)
           k == c.bad
           d == n[k]
           m == c.length
           a == Len(JoinedTo(s, k - 1))
           L == Len(data)
           l == Len(s[k])
           at == a + 1
<1>1. /\ N \in Nat /\ k \in 1..N /\ m \in Nat /\ s \in Seq(Seq(Nat)) /\ Len(s) = N
      /\ n \in Seq(Seq(Nat)) /\ k \in 0..N /\ k - 1 \in 0..N
  <2>1. N \in Nat /\ k \in 0..N /\ m \in Nat /\ k # 0 /\ n \in Seq(Seq(Nat))
    BY ConfigurationNodes DEF AreNodes
  <2>2. s \in Seq(Seq(Nat)) /\ Len(s) = N
    BY EncodingsTyped
  <2> HIDE DEF N, k, n, m
  <2>3. k \in 1..N /\ k - 1 \in 0..N
    BY <2>1
  <2> QED BY <2>1, <2>2, <2>3
<1>2. l = Len(d) /\ l \in Nat /\ l >= 2 /\ s[k][1] = m /\ s[k][2] = d[2]
  <2>1. IsEncodingOf(s[k], c, k)
    BY <1>1, EncodingsTyped
  <2>2. IsNode(d)
    BY <1>1, ConfigurationNodes DEF AreNodes
  <2>3. Len(d) >= 2 /\ d \in Seq(Nat)
    <3> HIDE DEF d
    <3> QED BY <2>2, NodeCells DEF IsNode
  <2>4. Len(s[k]) = Len(d) /\ s[k][1] = m /\ \A j \in 2..Len(s[k]) : s[k][j] = d[j]
    BY <2>1 DEF IsEncodingOf
  <2>5. Len(d) \in Nat
    <3> HIDE DEF d
    <3> QED BY <2>3
  <2> HIDE DEF d
  <2>6. 2 \in 2..Len(s[k])
    BY <2>3, <2>4, <2>5
  <2> QED BY <2>3, <2>4, <2>5, <2>6
<1>3. IsImpossible(n, k, m)
  BY DEF IsConfiguration
<1>4. a \in Nat /\ L \in Nat
  BY <1>1, JoinedTyped
<1>5. a + l <= L /\ \A i \in 1..l : data[a + i] = s[k][i]
  <2> HIDE DEF k, N
  <2>1. k \in 1..Len(s)
    BY <1>1
  <2>2. IsWithin(s, k)
    BY <1>1, <2>1, WhereIs
  <2> QED BY <2>2 DEF IsWithin
<1> DEFINE r == Len(FlattenSeq(SubSeq(n, k, Len(n))))
<1>6. r + a = L
  <2>1. IsTailLength(n, k)
    BY <1>1, TailLength
  <2>2. \A i \in 1..N : Len(s[i]) = Len(n[i])
    BY EncodingsTyped DEF IsEncodingOf
  <2>3. \A j \in 0..N : Len(JoinedTo(s, j)) = Len(JoinedTo(n, j))
    BY <1>1, <2>2, SameLengths
  <2>4. Len(FlattenSeq(n)) = L
    <3>1. JoinedTo(n, N) = FlattenSeq(n) /\ JoinedTo(s, N) = FlattenSeq(s) /\ N \in 0..N
      BY <1>1, JoinedAll
    <3> QED BY <2>3, <3>1
  <2>5. Len(JoinedTo(n, k - 1)) = a
    BY <1>1, <2>3
  <2> QED BY <2>1, <2>4, <2>5 DEF IsTailLength
<1>7. \/ m < 2 \/ m > r
      \/ d[2] \in {Config, Interface, Endpoint} /\ m < SizeOf[d[2]]
  BY <1>3 DEF IsImpossible
<1> HIDE DEF n, N, k, d, m, a, L, l, r
<1>8. data[at] = m /\ data[at + 1] = d[2]
  <2>1. 1 \in 1..l /\ 2 \in 1..l /\ a + 2 = at + 1
    BY <1>2, <1>4
  <2> QED BY <1>2, <1>5, <2>1
<1>9. at \in Nat /\ at <= L /\ at \in 1..(L + 1) /\ ~(at > L)
  BY <1>2, <1>4, <1>5
<1>10. f[at] \in Seq(Seq(Nat)) /\ IsSplitting(f, data, at)
  <2> HIDE DEF at
  <2> QED BY <1>9 DEF IsSplitBy, L
<1>11. CASE NoPart(data, at)
  <2>1. f[at] = << <<>> >>
    <3> HIDE DEF at
    <3> QED BY <1>9, <1>10, <1>11, Zenon DEF IsSplitting, L
  <2>2. f[at] # <<>> /\ f[at][1] = <<>>
    <3> HIDE DEF at
    <3> QED BY <2>1
  <2> QED BY <2>2 DEF IsWrongFirst, IsWrong, a, k
<1>12. CASE ~NoPart(data, at)
  <2>1. ~(at = L) /\ ~(m < 2) /\ ~(at + m - 1 > L)
    <3>1. ~(at = Len(data)) /\ ~(data[at] < 2) /\ ~(at + data[at] - 1 > Len(data))
      BY <1>12 DEF NoPart
    <3> HIDE DEF at
    <3> QED BY <1>8, <3>1 DEF L
  <2>2. ~(m > r)
    <3>1. r \in Int /\ r = L - a
      <4>1. r \in Nat
        <5> DEFINE B == Seq(Nat)
        <5>1. n \in Seq(B) /\ k \in Nat \ {0} /\ N <= Len(n) /\ k <= N + 1 /\ N = Len(n)
          BY <1>1 DEF N
        <5> HIDE DEF B
        <5>2. SubSeq(n, k, N) \in Seq(B)
          BY <1>1, <5>1, PartTyped
        <5> DEFINE t == SubSeq(n, k, N)
        <5>3. t \in Seq(Seq(Nat))
          BY <5>2 DEF B
        <5> HIDE DEF t
        <5>4. FlattenSeq(t) \in Seq(Nat)
          BY <5>3, FlattenTyped
        <5> QED BY <5>4 DEF r, t, N
      <4> QED BY <1>4, <1>6, <4>1
    <3> QED BY <1>1, <1>4, <2>1, <3>1
  <2>3. d[2] \in {Config, Interface, Endpoint} /\ m < SizeOf[d[2]]
    BY <1>7, <2>1, <2>2
  <2> DEFINE e == at + m - 1
             y == SubSeq(data, at, e)
  <2>4. e \in Nat /\ e <= Len(data) /\ at <= e + 1 /\ e - at + 1 = m /\ at \in Nat \ {0} /\ 2 \in 1..m
        /\ at + 2 - 1 = at + 1 /\ e + 1 \in 1..(L + 1)
    BY <1>1, <1>4, <1>9, <2>1 DEF L
  <2>5. PartAt(data, at) = y
    BY <1>8 DEF PartAt
  <2> HIDE DEF at, e
  <2>6. y \in Seq(Nat) /\ Len(y) = e - at + 1 /\ \A i \in 1..(e - at + 1) : y[i] = data[at + i - 1]
    BY <2>4, PartTyped
  <2> HIDE DEF y
  <2>7. Len(y) = m /\ y[2] = d[2]
    <3>1. y[2] = data[at + 2 - 1]
      BY <2>4, <2>6
    <3> QED BY <1>8, <2>4, <2>6, <3>1
  <2>8. TooShort(y)
    BY <2>3, <2>7 DEF TooShort
  <2>9. f[at] = <<y>> \o f[e + 1]
    <3>1. f[at] = <<PartAt(data, at)>> \o f[at + data[at] - 1 + 1]
      BY <1>9, <1>10, <1>12, Zenon DEF IsSplitting, L
    <3> QED BY <1>8, <2>5, <3>1 DEF e
  <2> DEFINE B == Seq(Nat)
             t == f[e + 1]
  <2>10. t \in Seq(B) /\ y \in B
    BY <2>4, <2>6 DEF IsSplitBy, L
  <2> HIDE DEF B, t
  <2>11. f[at] = <<y>> \o t
    BY <2>9 DEF t
  <2>12. f[at] # <<>> /\ f[at][1] = y
    BY <2>10, <2>11, FirstWhere
  <2> QED BY <2>8, <2>12 DEF IsWrongFirst, IsWrong, a, k, at
<1> QED BY <1>11, <1>12

\* A set is split into its descriptors, all or those before the wrong one.
IsSplitOf(parts, c, tail) ==
    /\ parts = Good(c) \o tail
    /\ c.bad = 0 => tail = <<>>
    /\ c.bad # 0 => IsWrongFirst(tail)

\* By induction on the descriptors that are right.
LEMMA SplitConfiguration ==
    ASSUME NEW c, IsConfiguration(c)
    PROVE  \E tail \in Seq(Seq(Nat)) : IsSplitOf(Split(ConfigAnswer(c)), c, tail)
<1> DEFINE s == Encodings(c)
           data == FlattenSeq(s)
           G == Good(c)
           N == Len(c.nodes)
           g == Len(G)
           B == Seq(Nat)
           L == Len(data)
           At(j) == Len(JoinedTo(s, j)) + 1
<1>1. ConfigAnswer(c) = data
  BY DEF ConfigAnswer, Encodings
<1>2. /\ N \in Nat /\ s \in Seq(Seq(Nat)) /\ Len(s) = N /\ \A i \in 1..N : IsEncodingOf(s[i], c, i)
  BY ConfigurationNodes, EncodingsTyped
<1>3. /\ G \in Seq(B) /\ g \in Nat /\ g <= N /\ AreNodes(G) /\ g = IF c.bad = 0 THEN N ELSE c.bad - 1
      /\ \A i \in 1..g : G[i] = c.nodes[i] /\ i # c.bad
  <2> HIDE DEF B, G
  <2>1. G \in Seq(B)
    BY GoodNodes DEF B, G
  <2>2. g \in Nat
    BY <2>1
  <2> QED BY <2>1, <2>2, GoodNodes DEF G
<1> HIDE DEF s
<1>4. data \in Seq(Nat)
  BY <1>2, FlattenTyped
<1>5. L \in Nat
  <2> HIDE DEF data
  <2> QED BY <1>4
<1> HIDE DEF data, N, G
<1>6. PICK f : Split(data) = f[1] /\ IsSplitBy(f, data)
  BY <1>4, SplitFrom DEF IsSplitBy
<1>7. \A j \in 0..N : JoinedTo(s, j) \in Seq(Nat) /\ Len(JoinedTo(s, j)) \in Nat
  BY <1>2, JoinedTyped
<1>8. ASSUME NEW j \in 0..N PROVE At(j) \in 1..(L + 1)
  <2>1. IsJoinedFirst(s, j, N)
    <3>1. N \in j..Len(s) /\ j \in 0..Len(s)
      BY <1>2
    <3> QED BY <1>2, <3>1, JoinedStays
  <2>2. JoinedTo(s, N) = data
    BY <1>2, JoinedAll DEF data
  <2>3. Len(JoinedTo(s, j)) <= L
    BY <2>1, <2>2 DEF IsJoinedFirst
  <2> DEFINE a == Len(JoinedTo(s, j))
  <2>4. a \in Nat /\ a <= L
    BY <1>7, <2>3
  <2> HIDE DEF a, L
  <2> QED BY <1>5, <2>4 DEF a
<1>9. \A i \in 1..(L + 1) : f[i] \in Seq(B) /\ IsSplitting(f, data, i)
  BY <1>6 DEF IsSplitBy
<1> HIDE DEF B, L
<1> DEFINE From(j) == SubSeq(G, 1, j) \o f[At(j)]
           S == {j \in Nat : j <= g => f[1] = From(j)}
<1>10. 0 \in S
  <2>1. JoinedTo(s, 0) = <<>>
    BY <1>2, JoinedNone
  <2>2. At(0) = 1
    BY <2>1
  <2>3. SubSeq(G, 1, 0) = <<>>
    OBVIOUS
  <2>4. f[1] \in Seq(B)
    BY <1>5, <1>9
  <2>5. <<>> \o f[1] = f[1]
    BY <2>4
  <2>6. From(0) = f[1]
    <3> HIDE DEF At
    <3> QED BY <2>2, <2>3, <2>5
  <2> HIDE DEF From
  <2> QED BY <2>6
<1>11. ASSUME NEW j \in S PROVE j + 1 \in S
  <2> DEFINE k == j + 1
             x == SubSeq(G, 1, j)
             z == G[k]
             q == f[At(k)]
             y == <<z>>
  <2>1. SUFFICES ASSUME k <= g PROVE f[1] = From(k)
    <3> HIDE DEF From
    <3> QED OBVIOUS
  <2>2. /\ k \in 1..g /\ j \in Nat /\ k \in Nat /\ k - 1 = j /\ j <= g /\ j \in 0..N /\ k \in 0..N /\ k \in 1..N
        /\ k \in 1..Len(s) /\ 1 <= j + 1
    BY <1>2, <1>3, <2>1
  <2>3. f[1] = x \o f[At(j)]
    BY <2>2
  <2>4. x \in Seq(B) /\ z \in B
    <3>1. SubSeq(G, 1, j) \in Seq(B)
      BY <1>3, <2>2, PartTyped
    <3>2. G[k] \in B
      <4> HIDE DEF k
      <4> QED BY <1>3, <2>2
    <3> QED BY <3>1, <3>2
  <2>5. z = s[k] /\ s[k][1] = Len(s[k]) /\ Len(s[k]) >= 2
    <3> HIDE DEF k
    <3>1. IsEncodingOf(s[k], c, k) /\ k # c.bad /\ z = c.nodes[k]
      BY <1>2, <1>3, <2>2
    <3>2. s[k] = z
      BY <3>1 DEF IsEncodingOf
    <3>3. IsNode(z)
      BY <1>3, <2>2 DEF AreNodes
    <3> HIDE DEF z
    <3>4. Len(z) >= 2 /\ z[1] = Len(z)
      BY <3>3, NodeCells
    <3> QED BY <3>2, <3>4
  <2>6. IsPart(f, s, k)
    <3>1. IsSplitting(f, data, Len(JoinedTo(s, k - 1)) + 1)
      <4>1. IsSplitting(f, data, At(j))
        <5>1. At(j) \in 1..(L + 1)
          BY <1>8, <2>2
        <5> HIDE DEF At
        <5> QED BY <1>9, <5>1
      <4> HIDE DEF k
      <4> QED BY <2>2, <4>1
    <3> HIDE DEF k
    <3> QED BY <1>2, <1>4, <2>2, <2>5, <3>1, OnePart DEF data
  <2>7. f[At(j)] = y \o q
    <3> HIDE DEF k
    <3> QED BY <2>2, <2>5, <2>6 DEF IsPart
  <2>8. q \in Seq(B)
    <3>1. At(k) \in 1..(L + 1)
      <4> HIDE DEF k
      <4> QED BY <1>8, <2>2
    <3> HIDE DEF At
    <3> QED BY <1>9, <3>1
  <2>9. IsNextPart(G, k)
    <3> HIDE DEF k
    <3> QED BY <1>3, <2>2, NextPart
  <2>10. y \in Seq(B)
    <3> HIDE DEF z
    <3> QED BY <2>4
  <2>11. SubSeq(G, 1, k) = x \o y
    <3> HIDE DEF k
    <3> QED BY <2>2, <2>9 DEF IsNextPart
  <2> HIDE DEF x, y, z, q
  <2>12. JoinsEitherWay(x, y, q)
    BY <2>4, <2>8, <2>10, ConcatThree
  <2>13. f[1] = x \o (y \o q)
    <3> HIDE DEF At
    <3> QED BY <2>3, <2>7
  <2> HIDE DEF k
  <2>14. f[1] = SubSeq(G, 1, k) \o q
    BY <2>11, <2>12, <2>13 DEF JoinsEitherWay
  <2> QED BY <2>14 DEF q
<1>12. S = Nat
  <2>1. S \in SUBSET Nat
    <3> HIDE DEF From
    <3> QED OBVIOUS
  <2> HIDE DEF S
  <2> QED BY <1>10, <1>11, <2>1, SetOfNaturals
<1> DEFINE tail == f[At(g)]
<1>13. f[1] = SubSeq(G, 1, g) \o tail
  <2>1. g \in S
    <3> HIDE DEF S, g
    <3> QED BY <1>3, <1>12
  <2>2. g <= g
    BY <1>3
  <2>3. f[1] = From(g)
    <3> HIDE DEF From, g
    <3> QED BY <2>1, <2>2
  <2> QED BY <2>3
<1>14. SubSeq(G, 1, g) = G
  BY <1>3
<1>15. At(g) \in 1..(L + 1)
  <2>1. g \in 0..N
    BY <1>2, <1>3
  <2> HIDE DEF g, At
  <2> QED BY <1>8, <2>1
<1>16. tail \in Seq(B)
  <2> HIDE DEF At, g
  <2> QED BY <1>9, <1>15
<1>17. c.bad = 0 => tail = <<>>
  <2> SUFFICES ASSUME c.bad = 0 PROVE tail = <<>>
    OBVIOUS
  <2>1. JoinedTo(s, N) = data
    BY <1>2, JoinedAll DEF data
  <2>2. At(g) = L + 1
    BY <1>3, <2>1 DEF L
  <2> HIDE DEF At, g
  <2>3. L + 1 \in 1..(L + 1) /\ L + 1 > L
    BY <1>5
  <2>4. IsSplitting(f, data, L + 1)
    BY <1>9, <2>3
  <2>5. f[L + 1] = <<>>
    BY <2>3, <2>4 DEF IsSplitting, L
  <2> QED BY <2>2, <2>5
<1>18. c.bad # 0 => IsWrongFirst(tail)
  <2> SUFFICES ASSUME c.bad # 0 PROVE IsWrongFirst(tail)
    OBVIOUS
  <2>1. g = c.bad - 1
    BY <1>3
  <2>2. IsWrongFirst(f[Len(JoinedTo(s, c.bad - 1)) + 1])
    BY <1>4, <1>6, WrongPart DEF s, data
  <2> QED BY <2>1, <2>2
<1> HIDE DEF tail, g
<1>19. IsSplitOf(Split(ConfigAnswer(c)), c, tail)
  BY <1>1, <1>6, <1>13, <1>14, <1>17, <1>18 DEF IsSplitOf, G
<1> QED BY <1>16, <1>19 DEF B

\* The loop of parse, descriptor by descriptor.
IsParse(f, parts, m) ==
    f = [k \in 0..m |-> IF k = 0 THEN NoConfiguration ELSE Added(f[k - 1], parts[k])]

\* By induction on the number of parts.
LEMMA ParseExists ==
    ASSUME NEW parts, NEW m \in Nat
    PROVE  \E f : IsParse(f, parts, m)
<1> DEFINE S == {n \in Nat : \E f : IsParse(f, parts, n)}
<1>1. 0 \in S
  <2> DEFINE f == [k \in 0..0 |-> NoConfiguration]
  <2>1. IsParse(f, parts, 0)
    <3>1. \A k \in 0..0 : NoConfiguration = IF k = 0 THEN NoConfiguration ELSE Added(f[k - 1], parts[k])
      OBVIOUS
    <3>2. f = [k \in 0..0 |-> IF k = 0 THEN NoConfiguration ELSE Added(f[k - 1], parts[k])]
      BY <3>1, Zenon
    <3> HIDE DEF f
    <3> QED BY <3>2 DEF IsParse
  <2> HIDE DEF f
  <2> QED BY <2>1
<1>2. ASSUME NEW n \in S PROVE n + 1 \in S
  <2>1. PICK f : IsParse(f, parts, n)
    OBVIOUS
  <2> DEFINE m1 == n + 1
             x == Added(f[n], parts[m1])
             g == [k \in 0..m1 |-> IF k = m1 THEN x ELSE f[k]]
             Folded(h, k) == IF k = 0 THEN NoConfiguration ELSE Added(h[k - 1], parts[k])
  <2>2. \A k \in 0..n : f[k] = Folded(f, k)
    <3>1. f = [k \in 0..n |-> Folded(f, k)]
      BY <2>1 DEF IsParse
    <3> HIDE DEF Folded
    <3> QED BY <3>1, Zenon
  <2>3. n \in Nat /\ m1 \in Nat /\ m1 = n + 1
    OBVIOUS
  <2> HIDE DEF m1, x
  <2>4. \A k \in 0..m1 : g[k] = IF k = m1 THEN x ELSE f[k]
    OBVIOUS
  <2>5. DOMAIN g = 0..m1 /\ g = [k \in 0..m1 |-> g[k]]
    OBVIOUS
  <2> HIDE DEF g
  <2>6. ASSUME NEW k \in 0..m1 PROVE g[k] = Folded(g, k)
    <3>1. CASE k = m1
      <4>1. k # 0 /\ k - 1 = n /\ k - 1 \in 0..m1 /\ k - 1 # m1
        BY <2>3, <3>1
      <4>2. g[k - 1] = f[n]
        BY <2>4, <4>1
      <4>3. g[k] = Added(f[n], parts[k])
        BY <2>4, <3>1 DEF x
      <4> QED BY <4>1, <4>2, <4>3, Zenon
    <3>2. CASE k # m1
      <4>1. k \in 0..n /\ g[k] = f[k]
        BY <2>3, <2>4, <3>2
      <4>2. CASE k = 0
        BY <2>2, <4>1, <4>2
      <4>3. CASE k # 0
        <5>1. k - 1 \in 0..m1 /\ k - 1 # m1
          BY <2>3, <4>1, <4>3
        <5>2. g[k - 1] = f[k - 1]
          BY <2>4, <5>1
        <5> QED BY <2>2, <4>1, <4>3, <5>2, Zenon
      <4> QED BY <4>2, <4>3
    <3> QED BY <3>1, <3>2
  <2>7. IsParse(g, parts, m1)
    <3>1. g = [k \in 0..m1 |-> Folded(g, k)]
      <4> HIDE DEF Folded
      <4> QED BY <2>5, <2>6, Zenon
    <3> QED BY <3>1 DEF IsParse
  <2> QED BY <2>3, <2>7
<1>3. S = Nat
  <2>1. S \in SUBSET Nat
    OBVIOUS
  <2> HIDE DEF S
  <2> QED BY <1>1, <1>2, <2>1, SetOfNaturals
<1> QED BY <1>3

\* parse goes from part to part.
LEMMA ParseSteps ==
    ASSUME NEW data, NEW parts, parts = Split(data), Len(parts) \in Nat
    PROVE  \E f : /\ Parse(data) = f[Len(parts)] /\ f[0] = NoConfiguration
                  /\ \A k \in 1..Len(parts) : f[k] = Added(f[k - 1], parts[k])
<1> DEFINE m == Len(parts)
           P(f) == f = [k \in 0..m |-> IF k = 0 THEN NoConfiguration ELSE Added(f[k - 1], parts[k])]
           c == CHOOSE f : P(f)
<1>1. Parse(data) = c[m]
  BY DEF Parse
<1>2. \A f : P(f) <=> IsParse(f, parts, m)
  BY DEF IsParse
<1> HIDE DEF P
<1>3. \E f : P(f)
  BY <1>2, ParseExists
<1>4. P(c)
  BY <1>3
<1> HIDE DEF c
<1>5. IsParse(c, parts, m)
  BY <1>2, <1>4
<1> DEFINE Folded(k) == IF k = 0 THEN NoConfiguration ELSE Added(c[k - 1], parts[k])
<1>6. \A k \in 0..m : c[k] = Folded(k)
  <2>1. c = [k \in 0..m |-> Folded(k)]
    BY <1>5 DEF IsParse
  <2> HIDE DEF Folded
  <2> QED BY <2>1, Zenon
<1>7. c[0] = NoConfiguration
  <2>1. 0 \in 0..m
    OBVIOUS
  <2> QED BY <1>6, <2>1
<1>8. ASSUME NEW k \in 1..m PROVE c[k] = Added(c[k - 1], parts[k])
  <2>1. k \in 0..m /\ k # 0
    OBVIOUS
  <2> QED BY <1>6, <2>1, Zenon
<1> QED BY <1>1, <1>7, <1>8

-----------------------------------------------------------------------------
\* What is announced by no descriptor, and once one has been wrong.
LEMMA AnnouncedNothing == Announced(<<>>, TRUE) = NoConfiguration
<1>1. InterfacesOf(<<>>) = <<>>
  <2>1. InterfacePieces(<<>>) = <<>>
    BY DEF InterfacePieces
  <2> QED BY <2>1 DEF InterfacesOf, InterfacePieces, FlattenSeq
<1>2. Functionals(<<>>) = {}
  BY DEF Functionals
<1> QED BY <1>1, <1>2, Zenon DEF Announced, NoConfiguration

\* A wrong descriptor ends it.
LEMMA AnnouncedWrong ==
    ASSUME NEW y, NEW d, IsWrong(d)
    PROVE  Added(Announced(y, TRUE), d) = Announced(y, FALSE)
<1> DEFINE c == Announced(y, TRUE)
           v == IF y = <<>> THEN 0 ELSE y[1][4]
           x == InterfacesOf(y)
           f == FunctionalOf(y)
           t == TRUE
           u == FALSE
<1>1. /\ c = [value |-> v, interfaces |-> x, functional |-> f, complete |-> t]
      /\ Announced(y, FALSE) = [value |-> v, interfaces |-> x, functional |-> f, complete |-> u]
  BY DEF Announced, FunctionalOf
<1> HIDE DEF c, v, x, f, t, u
<1>2. c.complete
  <2>1. c.complete = t
    BY <1>1
  <2> QED BY <2>1 DEF t
<1>3. Added(c, d) = [c EXCEPT !.complete = FALSE]
  BY <1>2, Zenon DEF Added, IsWrong
<1>4. [c EXCEPT !.complete = u] = [value |-> v, interfaces |-> x, functional |-> f, complete |-> u]
  BY <1>1
<1> QED BY <1>1, <1>3, <1>4, Zenon DEF c, u

\* After that nothing is added.
LEMMA NothingAdded ==
    ASSUME NEW y, NEW d
    PROVE  Added(Announced(y, FALSE), d) = Announced(y, FALSE)
<1> DEFINE c == Announced(y, FALSE)
<1>1. ~c.complete
  <2> DEFINE v == IF y = <<>> THEN 0 ELSE y[1][4]
             x == InterfacesOf(y)
             f == FunctionalOf(y)
             u == FALSE
  <2>1. c = [value |-> v, interfaces |-> x, functional |-> f, complete |-> u]
    BY DEF Announced, FunctionalOf
  <2> HIDE DEF c, v, x, f, u
  <2>2. c.complete = u
    BY <2>1
  <2> QED BY <2>2 DEF u
<1> HIDE DEF c
<1>2. Added(c, d) = c
  BY <1>1, Zenon DEF Added
<1> QED BY <1>2 DEF c

\* A part of what a device announces, from the start.
LEMMA NodesFirst ==
    ASSUME NEW y, AreNodes(y), NEW k \in 1..Len(y)
    PROVE  /\ AreNodes(SubSeq(y, 1, k - 1)) /\ AreNodes(SubSeq(y, 1, k))
           /\ IsOneMore(SubSeq(y, 1, k), SubSeq(y, 1, k - 1), y[k])
<1> DEFINE B == Seq(Nat)
           n == Len(y)
<1>1. y \in Seq(B) /\ \A i \in 1..n : IsNode(y[i]) /\ (y[i][2] = Config <=> i = 1)
  BY DEF AreNodes
<1> HIDE DEF B
<1>2. n \in Nat /\ k \in 1..n
  BY <1>1
<1>3. ASSUME NEW m \in Nat, m <= n
      PROVE  /\ SubSeq(y, 1, m) \in Seq(B) /\ Len(SubSeq(y, 1, m)) = m
             /\ \A i \in 1..m : SubSeq(y, 1, m)[i] = y[i]
             /\ AreNodes(SubSeq(y, 1, m))
  <2> DEFINE z == SubSeq(y, 1, m)
  <2>1. 1 <= m + 1 /\ m - 1 + 1 = m /\ m <= Len(y) /\ \A i \in 1..m : 1 + i - 1 = i
    BY <1>3
  <2>2. z \in Seq(B) /\ Len(z) = m - 1 + 1 /\ \A i \in 1..(m - 1 + 1) : z[i] = y[1 + i - 1]
    BY <1>1, <2>1, PartTyped
  <2> HIDE DEF z
  <2>3. Len(z) = m /\ \A i \in 1..m : z[i] = y[i]
    BY <2>1, <2>2
  <2>4. \A i \in 1..m : i \in 1..n
    BY <1>2, <1>3
  <2>5. \A i \in 1..Len(z) : IsNode(z[i]) /\ (z[i][2] = Config <=> i = 1)
    BY <1>1, <2>3, <2>4
  <2>6. AreNodes(z)
    BY <2>2, <2>5 DEF AreNodes, B
  <2> QED BY <2>2, <2>3, <2>6 DEF z
<1> DEFINE j == k - 1
<1>4. j \in Nat /\ j <= n /\ k \in Nat /\ k <= n /\ k = j + 1 /\ k \in 1..k
  BY <1>2
<1> HIDE DEF n, j
<1> DEFINE u == SubSeq(y, 1, j)
           v == SubSeq(y, 1, k)
<1>5. /\ u \in Seq(B) /\ Len(u) = j /\ (\A i \in 1..j : u[i] = y[i]) /\ AreNodes(u)
      /\ v \in Seq(B) /\ Len(v) = k /\ (\A i \in 1..k : v[i] = y[i]) /\ AreNodes(v)
  BY <1>3, <1>4
<1> HIDE DEF u, v
<1>6. \A i \in 1..j : i \in 1..k
  BY <1>4
<1>7. Len(v) = Len(u) + 1 /\ v[Len(u) + 1] = y[k] /\ \A i \in 1..Len(u) : v[i] = u[i]
  BY <1>4, <1>5, <1>6
<1>8. IsOneMore(v, u, y[k])
  BY <1>5, <1>7 DEF IsOneMore, B
<1> QED BY <1>5, <1>8 DEF u, v, j

\* What parse makes of the set of a configuration.
LEMMA ParsedConfiguration ==
    ASSUME NEW c, IsConfiguration(c)
    PROVE  Parse(ConfigAnswer(c)) = Announced(Good(c), c.bad = 0)
<1> DEFINE data == ConfigAnswer(c)
           parts == Split(data)
           n == Len(parts)
           G == Good(c)
           g == Len(G)
           B == Seq(Nat)
<1>1. PICK tail \in Seq(B) : IsSplitOf(parts, c, tail)
  BY SplitConfiguration
<1>2. G \in Seq(B) /\ AreNodes(G)
  BY GoodNodes
<1> HIDE DEF B, data, parts, G
<1>3. parts = G \o tail /\ (c.bad = 0 => tail = <<>>) /\ (c.bad # 0 => IsWrongFirst(tail))
  BY <1>1 DEF IsSplitOf, G
<1>4. /\ parts \in Seq(B) /\ n = g + Len(tail) /\ n \in Nat /\ g \in Nat /\ Len(tail) \in Nat
      /\ \A i \in 1..g : parts[i] = G[i]
  BY <1>1, <1>2, <1>3
<1>5. PICK f : /\ Parse(data) = f[n] /\ f[0] = NoConfiguration
               /\ \A k \in 1..n : f[k] = Added(f[k - 1], parts[k])
  BY <1>4, ParseSteps DEF parts
<1> DEFINE After(j) == Announced(SubSeq(G, 1, j), TRUE)
           S == {j \in Nat : j <= g => f[j] = After(j)}
<1>6. 0 \in S
  <2>1. SubSeq(G, 1, 0) = <<>>
    OBVIOUS
  <2>2. After(0) = NoConfiguration
    BY <2>1, AnnouncedNothing
  <2> HIDE DEF After
  <2> QED BY <1>5, <2>2
<1>7. ASSUME NEW j \in S PROVE j + 1 \in S
  <2> DEFINE k == j + 1
  <2>1. SUFFICES ASSUME k <= g PROVE f[k] = After(k)
    <3> HIDE DEF After
    <3> QED OBVIOUS
  <2>2. k \in 1..g /\ k \in 1..n /\ k - 1 = j /\ j <= g
    <3> HIDE DEF g, n
    <3> QED BY <1>4, <2>1
  <2>3. f[j] = After(j)
    <3> HIDE DEF After
    <3> QED BY <2>2
  <2> HIDE DEF k
  <2>4. f[k] = Added(f[j], G[k])
    BY <1>4, <1>5, <2>2
  <2> DEFINE y == SubSeq(G, 1, j)
             z == SubSeq(G, 1, k)
  <2>5. AreNodes(y) /\ AreNodes(z) /\ IsOneMore(z, y, G[k])
    <3>1. k \in 1..Len(G)
      BY <2>2
    <3>2. /\ AreNodes(SubSeq(G, 1, k - 1)) /\ AreNodes(SubSeq(G, 1, k))
          /\ IsOneMore(SubSeq(G, 1, k), SubSeq(G, 1, k - 1), G[k])
      BY <1>2, <3>1, NodesFirst
    <3> QED BY <2>2, <3>2
  <2> HIDE DEF y, z
  <2>6. Announced(z, TRUE) = Added(Announced(y, TRUE), G[k])
    BY <2>5, AnnouncedMore
  <2> QED BY <2>3, <2>4, <2>6 DEF y, z
<1>8. S = Nat
  <2>1. S \in SUBSET Nat
    <3> HIDE DEF After
    <3> QED OBVIOUS
  <2> HIDE DEF S
  <2> QED BY <1>6, <1>7, <2>1, SetOfNaturals
<1>9. f[g] = Announced(G, TRUE)
  <2>1. g \in S /\ g <= g
    <3> HIDE DEF S, g
    <3> QED BY <1>4, <1>8
  <2>2. f[g] = After(g)
    <3> HIDE DEF After, g
    <3> QED BY <2>1
  <2>3. SubSeq(G, 1, g) = G
    BY <1>2
  <2> QED BY <2>2, <2>3
<1>10. CASE c.bad = 0
  <2>1. n = g
    <3>1. Len(tail) = 0
      BY <1>3, <1>10
    <3> HIDE DEF n, g
    <3> QED BY <1>4, <3>1
  <2>2. (c.bad = 0) = TRUE
    BY <1>10
  <2>3. f[n] = Announced(G, TRUE)
    BY <1>9, <2>1
  <2> HIDE DEF n
  <2> QED BY <1>5, <2>2, <2>3, Zenon DEF data, G
<1>11. CASE c.bad # 0
  <2> DEFINE h == g + 1
             T == {j \in Nat : h + j <= n => f[h + j] = Announced(G, FALSE)}
  <2>1. tail # <<>> /\ IsWrong(tail[1])
    BY <1>3, <1>11 DEF IsWrongFirst
  <2>2. parts[h] = tail[1] /\ Len(tail) > 0
    <3>1. Len(tail) > 0 /\ 1 \in 1..Len(tail)
      BY <1>1, <2>1
    <3>2. (G \o tail)[Len(G) + 1] = tail[1]
      BY <1>1, <1>2, <3>1, ConcatSecond
    <3> QED BY <1>3, <3>1, <3>2
  <2>3. h \in Nat /\ h <= n /\ h \in 1..n /\ h - 1 = g
    <3> HIDE DEF n, g
    <3> QED BY <1>4, <2>2
  <2>4. f[h] = Announced(G, FALSE)
    <3>1. f[h] = Added(f[g], tail[1])
      <4> HIDE DEF h
      <4> QED BY <1>5, <2>2, <2>3
    <3>2. Added(Announced(G, TRUE), tail[1]) = Announced(G, FALSE)
      BY <2>1, AnnouncedWrong
    <3> HIDE DEF h, g
    <3> QED BY <1>9, <3>1, <3>2
  <2> HIDE DEF h, n
  <2>5. 0 \in T
    <3>1. h + 0 = h
      BY <2>3
    <3> QED BY <2>4, <3>1
  <2>6. ASSUME NEW j \in T PROVE j + 1 \in T
    <3> DEFINE k == h + (j + 1)
    <3>1. SUFFICES ASSUME k <= n PROVE f[k] = Announced(G, FALSE)
      <4>1. k <= n => f[k] = Announced(G, FALSE)
        BY <3>1
      <4>2. j + 1 \in Nat
        OBVIOUS
      <4> QED BY <4>1, <4>2, Zenon
    <3>2. k \in 1..n /\ k - 1 = h + j /\ h + j <= n
      BY <1>4, <2>3, <3>1
    <3>3. f[h + j] = Announced(G, FALSE)
      BY <3>2
    <3> HIDE DEF k
    <3>4. f[k] = Added(Announced(G, FALSE), parts[k])
      BY <1>5, <3>2, <3>3
    <3> QED BY <3>4, NothingAdded
  <2>7. T = Nat
    <3>1. T \in SUBSET Nat
      OBVIOUS
    <3> HIDE DEF T
    <3> QED BY <2>5, <2>6, <3>1, SetOfNaturals
  <2>8. f[n] = Announced(G, FALSE)
    <3> DEFINE j == n - h
    <3>1. j \in Nat /\ h + j = n /\ n <= n
      BY <1>4, <2>3
    <3>2. j \in T
      <4> HIDE DEF T, j
      <4> QED BY <2>7, <3>1
    <3> HIDE DEF j
    <3> QED BY <3>1, <3>2
  <2>9. (c.bad = 0) = FALSE
    BY <1>11
  <2> QED BY <1>5, <2>8, <2>9, Zenon DEF data, G
<1> QED BY <1>10, <1>11

-----------------------------------------------------------------------------
\* What says its length in its third cell is read whole or not at all.
IsReadWhole(data, a) == SubSeq(data, 1, data[3]) = a

LEMMA WholeSet ==
    ASSUME NEW A, A \subseteq Int, NEW a \in Seq(A), a[3] = Len(a), NEW n \in 0..Len(a),
           NEW data, data = SubSeq(a, 1, n), Len(data) >= 4, Len(data) >= data[3]
    PROVE  IsReadWhole(data, a)
<1>1. n \in Nat /\ n <= Len(a) /\ 1 <= n + 1 /\ Len(a) \in Nat
  OBVIOUS
<1>2. data \in Seq(A) /\ Len(data) = n /\ \A i \in 1..n : data[i] = a[i]
  BY <1>1
<1>3. data[3] = a[3]
  <2>1. 3 \in 1..n
    BY <1>1, <1>2
  <2> QED BY <1>2, <2>1
<1>4. n = Len(a)
  BY <1>1, <1>2, <1>3
<1>5. data = a
  BY <1>4
<1>6. SubSeq(a, 1, Len(a)) = a
  OBVIOUS
<1> QED BY <1>3, <1>5, <1>6 DEF IsReadWhole

\* The set of a configuration has its length there.
IsSet(a) == a \in Seq(Nat) /\ a[3] = Len(a)

\* Also when the wrong descriptor is the first one, whose length is elsewhere.
LEMMA SetOfConfiguration ==
    ASSUME NEW c, IsConfiguration(c)
    PROVE  IsSet(ConfigAnswer(c))
<1> DEFINE s == Encodings(c)
           n == c.nodes
           N == Len(n)
           a == FlattenSeq(s)
<1>1. ConfigAnswer(c) = a
  BY DEF ConfigAnswer, Encodings
<1>2. /\ N \in Nat /\ N > 0 /\ n \in Seq(Seq(Nat)) /\ s \in Seq(Seq(Nat)) /\ Len(s) = N
      /\ \A i \in 1..N : IsEncodingOf(s[i], c, i)
  BY ConfigurationNodes, EncodingsTyped DEF AreNodes
<1>3. IsNode(n[1]) /\ n[1][2] = Config
  <2>1. 1 \in 1..Len(n)
    BY <1>2
  <2>2. IsNode(n[1]) /\ (n[1][2] = Config <=> 1 = 1)
    BY <2>1, ConfigurationNodes DEF AreNodes
  <2> QED BY <2>2
<1> DEFINE d == n[1]
           e == s[1]
<1>4. Len(d) >= 4 /\ Len(d) \in Nat
  <2> HIDE DEF d
  <2> QED BY <1>3, NodeCells DEF d, IsNode
<1>5. Len(e) >= 4 /\ Len(e) \in Nat /\ e[3] = d[3]
  <2>1. IsEncodingOf(e, c, 1)
    BY <1>2
  <2>2. Len(e) = Len(d) /\ \A k \in 2..Len(e) : e[k] = d[k]
    BY <2>1 DEF IsEncodingOf
  <2> HIDE DEF d, e
  <2> QED BY <1>4, <2>2
<1> HIDE DEF s, n
<1>6. JoinedTo(s, 1 - 1) = <<>>
  <2>1. JoinedTo(s, 0) = <<>>
    BY <1>2, JoinedNone
  <2> QED BY <2>1
<1>7. a[3] = d[3]
  <2>1. 1 \in 1..Len(s)
    BY <1>2
  <2>2. IsWithin(s, 1)
    BY <1>2, <2>1, WhereIs
  <2>3. \A m \in 1..Len(e) : a[0 + m] = e[m]
    BY <1>6, <2>2 DEF IsWithin
  <2>4. 3 \in 1..Len(e) /\ 0 + 3 = 3
    BY <1>5
  <2> HIDE DEF a, e, d
  <2>5. a[0 + 3] = e[3]
    BY <2>3, <2>4
  <2> QED BY <1>5, <2>4, <2>5
<1>8. d[3] = Len(FlattenSeq(n))
  BY DEF IsConfiguration, n
<1>9. Len(FlattenSeq(n)) = Len(a)
  <2>1. \A i \in 1..Len(s) : Len(s[i]) = Len(n[i])
    BY <1>2 DEF IsEncodingOf, n
  <2>2. N \in 0..N /\ N = Len(n) /\ N \in 0..Len(s) /\ Len(s) = Len(n)
    BY <1>2
  <2> HIDE DEF N
  <2>3. Len(JoinedTo(s, N)) = Len(JoinedTo(n, N))
    BY <1>2, <2>1, <2>2, SameLengths
  <2>4. JoinedTo(n, N) = FlattenSeq(n) /\ JoinedTo(s, N) = FlattenSeq(s)
    BY <1>2, <2>2, JoinedAll
  <2> QED BY <2>3, <2>4
<1>10. a \in Seq(Nat)
  BY <1>2, FlattenTyped
<1> QED BY <1>1, <1>7, <1>8, <1>9, <1>10 DEF IsSet

\* A configuration that is stored is one of the device.
IsOneOf(config, ofDevice) ==
    \E i \in DOMAIN ofDevice :
        config = Announced(Good(ofDevice[i]), ofDevice[i].bad = 0)

\* The answer of another type is refused, and a set is parsed only when it is whole.
LEMMA StoredConfiguration ==
    ASSUME NEW index, deviceRead \in DevicesRead,
           NEW answer \in Answers(Config, index), NEW n \in 0..Len(answer),
           NEW data, data = SubSeq(answer, 1, n), ~(Len(data) < 2), data[2] = Config, IsWholeSet(data)
    PROVE  IsOneOf(Parse(SubSeq(data, 1, data[3])), deviceRead.configurations)
<1> DEFINE ofDevice == deviceRead.configurations
<1>1. \/ answer = DeviceAnswer
      \/ \E i \in DOMAIN ofDevice : answer = ConfigAnswer(ofDevice[i])
  <2>1. Config # Device /\ Config # String /\ Config # BOS
    BY DEF String, Device, Config, BOS
  <2> DEFINE sets == {ConfigAnswer(deviceRead.configurations[i]) :
                         i \in DOMAIN deviceRead.configurations \cap {index + 1}} \cup {DeviceAnswer}
             strings == IF index = 0 THEN {<<4, String, 9, 4>>}
                        ELSE {StringAnswer(deviceRead.strings[language][index]) :
                                language \in {l \in DOMAIN deviceRead.strings :
                                                  index \in DOMAIN deviceRead.strings[l]}}
             x == {DeviceAnswer}
             y == {BOSAnswer}
  <2>2. Answers(Config, index) = CASE Config = Device -> x [] Config = Config -> sets
                                   [] Config = String -> strings [] Config = BOS -> y
    BY Zenon DEF Answers
  <2> HIDE DEF sets, strings, x, y
  <2>3. answer \in sets
    BY <2>1, <2>2
  <2> QED BY <2>3, Zenon DEF sets
<1>2. answer # DeviceAnswer
  <2> SUFFICES ASSUME answer = DeviceAnswer PROVE FALSE
    OBVIOUS
  <2>1. deviceRead.id \in Nat
    BY DescriptorsAssumption
  <2> DEFINE x == SizeOf[Device]
             y == deviceRead.id
  <2>2. answer = <<x, Device, y>>
    BY DEF DeviceAnswer
  <2>3. x = 3
    BY DEF SizeOf, Device, Config, Interface, Endpoint, Functional, BOS, Other
  <2> HIDE DEF x, y
  <2>4. answer \in Seq(Nat) /\ Len(answer) = 3 /\ answer[2] = Device
    BY <2>1, <2>2, <2>3 DEF Device, y
  <2>5. n \in Nat /\ n <= 3 /\ Len(data) = n /\ n >= 2
    BY <2>4
  <2>6. data[2] = answer[2]
    BY <2>4, <2>5
  <2> QED BY <2>4, <2>6 DEF Device, Config
<1>3. PICK i \in DOMAIN ofDevice : answer = ConfigAnswer(ofDevice[i])
  BY <1>1, <1>2
<1> DEFINE c == ofDevice[i]
<1>4. IsConfiguration(c)
  BY <1>3, ConfigurationsAssumption
<1>5. answer \in Seq(Nat) /\ answer[3] = Len(answer)
  BY <1>3, <1>4, SetOfConfiguration DEF IsSet
<1>6. SizeOf[Config] = 4
  BY DEF SizeOf, Device, Config, Interface, Endpoint, Functional, BOS, Other
<1>7. Len(data) >= 4 /\ Len(data) >= data[3]
  BY <1>6 DEF IsWholeSet
<1>8. IsReadWhole(data, answer)
  <2>1. Nat \subseteq Int
    OBVIOUS
  <2> QED BY <1>5, <1>7, <2>1, WholeSet
<1> HIDE DEF ofDevice
<1>9. Parse(answer) = Announced(Good(c), c.bad = 0)
  BY <1>3, <1>4, ParsedConfiguration
<1> QED BY <1>3, <1>8, <1>9, Zenon DEF IsReadWhole, IsOneOf, ofDevice

\* A binary object store that is stored is the device's.
LEMMA StoredStore ==
    ASSUME deviceRead \in DevicesRead, NEW n \in 0..Len(BOSAnswer),
           NEW data, data = SubSeq(BOSAnswer, 1, n), Len(data) >= 4, Len(data) >= data[3]
    PROVE  SubSeq(data, 1, data[3]) = BOSAnswer /\ BOSAnswer \in Seq(Int)
<1> DEFINE t == deviceRead.capabilities
           l == Len(t)
           z == SizeOf[BOS]
           h == <<z, BOS, z + l, l>>
           a == BOSAnswer
<1>1. z = 4 /\ t \in Seq(Nat)
  BY DescriptorsAssumption DEF SizeOf, Device, Config, Interface, Endpoint, Functional, BOS, Other
<1>2. a = h \o t
  BY DEF BOSAnswer
<1> HIDE DEF t, a, z
<1>3. l \in Nat
  BY <1>1
<1>4. h \in Seq(Nat) /\ Len(h) = 4 /\ h[3] = 4 + l
  <2> HIDE DEF l
  <2> QED BY <1>1, <1>3 DEF BOS
<1> HIDE DEF h
<1>5. a \in Seq(Nat) /\ Len(a) = 4 + l /\ a[3] = h[3]
  <2>1. h \o t \in Seq(Nat) /\ Len(h \o t) = Len(h) + Len(t) /\ \A i \in 1..Len(h) : (h \o t)[i] = h[i]
    BY <1>1, <1>4, ConcatFirst
  <2>2. 3 \in 1..Len(h)
    BY <1>4
  <2> QED BY <1>2, <1>4, <2>1, <2>2
<1>6. a[3] = Len(a)
  <2> HIDE DEF l
  <2> QED BY <1>4, <1>5
<1>7. IsReadWhole(data, a)
  <2>1. Nat \subseteq Int /\ n \in 0..Len(a) /\ data = SubSeq(a, 1, n)
    BY DEF a
  <2> QED BY <1>5, <1>6, <2>1, WholeSet
<1>8. a \in Seq(Int)
  BY <1>5
<1> QED BY <1>7, <1>8 DEF IsReadWhole, a

-----------------------------------------------------------------------------
AnnouncedInv == DescriptorIsDevices /\ ConfigurationsAreAnnounced

IsKnown(ofDevice, parsed) ==
    \A value \in DOMAIN parsed :
        IsOneOf(parsed[value], ofDevice) /\ parsed[value].value = value

\* The invariant in these terms.
LEMMA KnownAre ==
    ConfigurationsAreAnnounced <=> /\ IsKnown(deviceRead.configurations, m_configurations)
                                   /\ ToSet(m_bosDescriptors) \subseteq {BOSAnswer}
  BY Zenon DEF ConfigurationsAreAnnounced, IsKnown, IsOneOf, Good

\* What a read keeps of a configuration and of a binary object store.
LEMMA KeptIsKnown ==
    ASSUME NEW ofDevice, IsKnown(ofDevice, m_configurations),
           NEW config, IsOneOf(config, ofDevice)
    PROVE  IsKnown(ofDevice, Kept(config))
<1>1. CASE config.value \in DOMAIN m_configurations
  <2>1. Kept(config) = m_configurations
    BY <1>1, Zenon DEF Kept
  <2> QED BY <2>1, Zenon
<1>2. CASE config.value \notin DOMAIN m_configurations
  <2> DEFINE k == config.value
             w == Kept(config)
  <2>1. w = [i \in DOMAIN m_configurations \cup {k} |-> IF i = k THEN config ELSE m_configurations[i]]
    BY <1>2, Zenon DEF Kept, With
  <2> HIDE DEF w
  <2>2. ASSUME NEW i \in DOMAIN w PROVE IsOneOf(w[i], ofDevice) /\ w[i].value = i
    <3>1. CASE i = k
      <4>1. w[i] = config
        BY <2>1, <2>2, <3>1, Zenon
      <4> QED BY <3>1, <4>1
    <3>2. CASE i # k
      <4>1. i \in DOMAIN m_configurations /\ w[i] = m_configurations[i]
        BY <2>1, <2>2, <3>2, Zenon
      <4> QED BY <4>1, Zenon DEF IsKnown
    <3> QED BY <3>1, <3>2
  <2> QED BY <2>2, Zenon DEF IsKnown, w
<1> QED BY <1>1, <1>2

\* One read.
LEMMA AnnouncedStep == AnnouncedInv /\ [Read]_readVars => AnnouncedInv'
<1> SUFFICES ASSUME AnnouncedInv, [Read]_readVars PROVE AnnouncedInv'
  OBVIOUS
<1>1. CASE UNCHANGED readVars
  BY <1>1 DEF AnnouncedInv, DescriptorIsDevices, ConfigurationsAreAnnounced, readVars, learnt,
              BOSAnswer, DeviceAnswer
<1>2. CASE Read
  <2>1. DescriptorIsDevices /\ deviceRead \in DevicesRead
    BY DEF AnnouncedInv, DescriptorIsDevices
  <2>2. DescriptorIsDevices' /\ deviceRead' = deviceRead
    BY <1>2, <2>1, ReadGrows, GrowingLearns DEF Grows
  <2>3. PICK type \in {Device, Config, String, BOS}, index \in 0..2 :
            \E answer \in Answers(type, index) : \E n \in 0..Len(answer) :
                ProcessDescriptor(type, index, SubSeq(answer, 1, n))
    BY <1>2 DEF Read
  <2>4. PICK answer \in Answers(type, index) : \E n \in 0..Len(answer) :
                ProcessDescriptor(type, index, SubSeq(answer, 1, n))
    BY <2>3
  <2>5. PICK n \in 0..Len(answer) : ProcessDescriptor(type, index, SubSeq(answer, 1, n))
    BY <2>4
  <2> DEFINE data == SubSeq(answer, 1, n)
             ofDevice == deviceRead.configurations
  <2>6. ProcessDescriptor(type, index, data)
    BY <2>5
  <2> HIDE DEF data
  <2>7. IsKnown(ofDevice, m_configurations) /\ ToSet(m_bosDescriptors) \subseteq {BOSAnswer}
    BY KnownAre DEF AnnouncedInv
  <2>8. String # Device /\ String # Config /\ String # BOS /\ Device # Config /\ Device # BOS /\ Config # BOS
    BY DEF String, Device, Config, BOS
  <2>9. IsKnown(ofDevice, m_configurations')
    <3>1. CASE type = Config
      <4>1. \/ m_configurations' = m_configurations
            \/ ~(Len(data) < 2) /\ data[2] = Config /\ ReadConfig(data)
        BY <2>6, <2>8, <3>1, Zenon DEF ProcessDescriptor, learnt
      <4>2. CASE ~(Len(data) < 2) /\ data[2] = Config /\ ReadConfig(data)
        <5> DEFINE config == Parse(SubSeq(data, 1, data[3]))
        <5>1. CASE IsWholeSet(data)
          <6>1. m_configurations' = Kept(config)
            BY <4>2, <5>1, Zenon DEF ReadConfig
          <6>2. IsOneOf(config, ofDevice)
            BY <2>1, <2>4, <2>5, <3>1, <4>2, <5>1, StoredConfiguration DEF data
          <6> HIDE DEF config
          <6>3. IsKnown(ofDevice, Kept(config))
            BY <2>7, <6>2, KeptIsKnown
          <6> QED BY <6>1, <6>3, Zenon
        <5>2. CASE ~IsWholeSet(data)
          <6>1. m_configurations' = m_configurations
            BY <4>2, <5>2, Zenon DEF ReadConfig
          <6> QED BY <2>7, <6>1, Zenon
        <5> QED BY <5>1, <5>2
      <4> QED BY <2>7, <4>1, <4>2, Zenon
    <3>2. CASE type # Config
      <4>1. m_configurations' = m_configurations
        BY <2>3, <2>6, <2>8, <3>2, Zenon
        DEF ProcessDescriptor, ReadDevice, ReadString, ReadBOS, learnt
      <4> QED BY <2>7, <4>1, Zenon
    <3> QED BY <3>1, <3>2
  <2>10. ToSet(m_bosDescriptors') \subseteq {BOSAnswer}
    <3>1. CASE type = BOS
      <4>1. m_bosDescriptors' = m_bosDescriptors \/ ReadBOS(data)
        BY <2>6, <2>8, <3>1, Zenon DEF ProcessDescriptor, learnt
      <4> DEFINE z == SizeOf[BOS]
      <4>2. z = 4
        BY DEF SizeOf, Device, Config, Interface, Endpoint, Functional, BOS, Other
      <4> HIDE DEF z
      <4>3. CASE m_bosDescriptors' # m_bosDescriptors
        <5>1. ReadBOS(data)
          BY <4>1, <4>3
        <5>2. /\ ~(Len(data) < z) /\ ~(Len(data) < data[3])
              /\ m_bosDescriptors' = Append(m_bosDescriptors, SubSeq(data, 1, data[3]))
          BY <4>3, <5>1, Zenon DEF ReadBOS, z
        <5>3. answer = BOSAnswer
          <6> DEFINE x == {DeviceAnswer}
                     y == {BOSAnswer}
                     sets == {ConfigAnswer(deviceRead.configurations[i]) :
                                 i \in DOMAIN deviceRead.configurations \cap {index + 1}} \cup {DeviceAnswer}
                     strings == IF index = 0 THEN {<<4, String, 9, 4>>}
                                ELSE {StringAnswer(deviceRead.strings[language][index]) :
                                        language \in {l \in DOMAIN deviceRead.strings :
                                                          index \in DOMAIN deviceRead.strings[l]}}
          <6>1. Answers(BOS, index) = CASE BOS = Device -> x [] BOS = Config -> sets
                                        [] BOS = String -> strings [] BOS = BOS -> y
            BY Zenon DEF Answers
          <6> HIDE DEF sets, strings, x, y
          <6>2. answer \in y
            BY <2>4, <2>8, <3>1, <6>1
          <6> QED BY <6>2 DEF y
        <5>4. Len(data) >= 4 /\ Len(data) >= data[3]
          <6>1. data \in Seq(Int) /\ Len(data) = n
            BY <2>1, <5>3, StoreIsSequence DEF data
          <6>2. n \in Nat
            BY <6>1
          <6>3. Len(data) >= 4 /\ 3 \in 1..Len(data)
            BY <4>2, <5>2, <6>1, <6>2
          <6>4. data[3] \in Int
            BY <6>1, <6>3
          <6> QED BY <5>2, <6>1, <6>2, <6>3, <6>4
        <5>5. SubSeq(data, 1, data[3]) = BOSAnswer /\ BOSAnswer \in Seq(Int)
          BY <2>1, <2>5, <5>3, <5>4, StoredStore DEF data
        <5>6. m_bosDescriptors \in Seq(Seq(Int))
          BY <2>1 DEF DescriptorIsDevices
        <5> DEFINE B == Seq(Int)
                   s == m_bosDescriptors
                   a == BOSAnswer
        <5>7. s \in Seq(B) /\ a \in B
          BY <5>5, <5>6
        <5> HIDE DEF B, s, a
        <5>8. ToSet(Append(s, a)) = ToSet(s) \cup {a}
          BY <5>7, AppendedTo
        <5> QED BY <2>7, <5>2, <5>5, <5>8 DEF s, a
      <4> QED BY <2>7, <4>3
    <3>2. CASE type # BOS
      <4>1. m_bosDescriptors' = m_bosDescriptors
        BY <2>3, <2>6, <2>8, <3>2, Zenon
        DEF ProcessDescriptor, ReadDevice, ReadString, ReadConfig, learnt
      <4> QED BY <2>7, <4>1, Zenon
    <3> QED BY <3>1, <3>2
  <2>11. BOSAnswer' = BOSAnswer
    BY <2>2 DEF BOSAnswer
  <2>12. ConfigurationsAreAnnounced'
    <3>1. /\ IsKnown(deviceRead'.configurations, m_configurations')
          /\ ToSet(m_bosDescriptors') \subseteq {BOSAnswer'}
      BY <2>2, <2>9, <2>10, <2>11, Zenon
    <3> QED BY <3>1, Zenon DEF ConfigurationsAreAnnounced, IsKnown, IsOneOf, Good
  <2> QED BY <2>2, <2>12 DEF AnnouncedInv
<1> QED BY <1>1, <1>2

\* Every configuration that Device knows is what parse has to make of one that
\* the device has: its value, every interface and alternate setting with its own
\* endpoints, the DFU functional descriptor and no HID one in its place, or all
\* that is before the one descriptor with an impossible length; and every binary
\* object store is the device's, whole.  For every device, every configuration
\* and any reads, whole, cut or answered with the wrong descriptor
\* (usb_configuration::parse, Device::processDescriptor).
THEOREM ConfigurationsAreTheDevices == ReadSpec => []ConfigurationsAreAnnounced
<1>1. ReadInit => AnnouncedInv
  <2> SUFFICES ASSUME ReadInit PROVE AnnouncedInv
    OBVIOUS
  <2>1. DescriptorIsDevices
    BY DEF ReadInit, DescriptorIsDevices
  <2>2. DOMAIN m_configurations = {} /\ ToSet(m_bosDescriptors) = {}
    BY DEF ReadInit, ToSet
  <2> QED BY <2>1, <2>2 DEF AnnouncedInv, ConfigurationsAreAnnounced
<1>2. AnnouncedInv => ConfigurationsAreAnnounced
  BY DEF AnnouncedInv
<1> QED BY <1>1, <1>2, AnnouncedStep, PTL DEF ReadSpec
=============================================================================
