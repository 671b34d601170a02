--------------------------- MODULE MCDeviceHandle ---------------------------
(***************************************************************************)
(* DeviceHandle under arbitrary events: nothing relates one event of the   *)
(* capture to the next.                                                    *)
(***************************************************************************)
EXTENDS DeviceHandle

CONSTANTS Header, Junk, A, B

MCCells == {Header, Junk, A, B}

\* No payload, two devices' descriptors, and one whose first cell is damaged.
MCPayloads == {<<>>, <<Header, A>>, <<Header, B>>, <<Junk, B>>}
=============================================================================
