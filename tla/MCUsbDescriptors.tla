-------------------------- MODULE MCUsbDescriptors --------------------------
(***************************************************************************)
(* Devices with every string of up to MaxUnits units at the boundaries of  *)
(* UTF-8 and UTF-16, and devices with configurations of every combination  *)
(* of MaxNodes descriptors, one of which may be wrong.                     *)
(***************************************************************************)
EXTENDS UsbDescriptors

CONSTANTS MaxUnits, MaxNodes

MCUnits == {65, 127, 128, 2047, 2048, 55295, 55296, 56319, 56320, 57343, 57344, 65535}

\* A configuration descriptor before others.
WithConfig(nodes) ==
    << <<SizeOf[Config], Config, SizeOf[Config] + Len(FlattenSeq(nodes)), 1>> >> \o nodes
Nodes == {<<SizeOf[Interface], Interface, 0, 0, DfuClass>>,
          <<SizeOf[Interface], Interface, 0, 1, 3>>,
          <<SizeOf[Endpoint] + 1, Endpoint, 129, 0>>,
          <<SizeOf[Endpoint], Endpoint, 2>>,
          <<SizeOf[Functional], Functional, 9>>,
          <<SizeOf[Other] + 1, Other, 2>>}

\* A length of a descriptor that is wrong: none, too short, beyond the end.
WrongLengths(node) ==
    {0, 1, 200} \cup (IF node[2] \in {Config, Interface, Endpoint} THEN {SizeOf[node[2]] - 1} ELSE {})

Sets == {WithConfig(nodes) : nodes \in [1..MaxNodes -> Nodes]}

Configurations ==
    {[nodes |-> set, bad |-> 0, length |-> 0] : set \in Sets}
    \cup UNION {{[nodes |-> set, bad |-> i, length |-> n] : n \in WrongLengths(set[i])} :
                   set \in Sets, i \in 1..(MaxNodes + 1)}

Plain == [nodes |-> WithConfig(<< <<SizeOf[Endpoint], Endpoint, 2>> >>), bad |-> 0, length |-> 0]

MCDevices ==
    {[id |-> 7, stray |-> stray, capabilities |-> <<>>, configurations |-> <<Plain>>,
      strings |-> << <<units>>, <<<<65>>>> >>] :
         units \in SeqOf(MCUnits, MaxUnits), stray \in {<<>>, <<220>>}}
    \cup {[id |-> 7, stray |-> <<>>, capabilities |-> <<5>>, configurations |-> <<c, Plain>>,
           strings |-> << <<<<65>>>> >>] : c \in Configurations}
=============================================================================
